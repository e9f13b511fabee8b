----------------------- MODULE ThumbnailWriter_proofs -----------------------
(***************************************************************************)
(* Theorems about ThumbnailWriter, for every command line, every number    *)
(* and order of entries and every offset in the NEFs: the type invariant,  *)
(* that the links of the JPG lead to what was moved, and that the ranges   *)
(* copied are the NEF's own.                                               *)
(***************************************************************************)
EXTENDS ThumbnailWriter, WellFoundedInduction, TLAPS

-----------------------------------------------------------------------------
(* Facts about the file at hand. *)

LEMMA FileFacts ==
  ASSUME TypeOK, i <= Len(line)
  PROVE  F \in File /\ WellFormed(F)
<1>1. line \in Lines /\ i \in 1..Len(line)
  <2>1. line \in Seq(File)
    BY LinesAssumption DEF TypeOK
  <2> QED
    BY <2>1 DEF TypeOK
<1>2. line \in Seq(File) /\ WellFormed(line[i])
  BY <1>1, LinesAssumption
<1> QED
  BY <1>1, <1>2 DEF F

LEMMA FieldFacts ==
  ASSUME NEW f \in File
  PROVE  /\ f.kind \in {"nef", "jpg", "other"} /\ f.old \in BOOLEAN
         /\ f.software \in {"Capture", "camera"}
         /\ f.order \in [Dirs -> BOOLEAN] /\ f.at \in [Dirs -> Nat]
         /\ f.subs \in 0..4 /\ f.note \in BOOLEAN /\ f.junk \in Nat
         /\ \A d \in Dirs : f.dirs[d] \in Seq(Entry) /\ Len(f.dirs[d]) \in Nat
BY DEF File

LEMMA DirNames ==
  /\ SubNames \subseteq Dirs
  /\ "IFD0" \in Dirs /\ "EXIF" \in Dirs /\ "MAKER_NOTES" \in Dirs /\ "THUMBNAIL" \in Dirs
  /\ \A k \in 1..4 : SubIfd[k] \in SubNames
  /\ \A j, k \in 1..4 : SubIfd[j] = SubIfd[k] => j = k
BY DEF SubNames, Dirs, SubIfd

LEMMA FirstType ==
  ASSUME NEW n \in Nat, NEW S \in SUBSET (1..n), S # {}
  PROVE  First(S) \in S
<1>1. S \subseteq Nat
  OBVIOUS
<1>2. \E a \in S : \A b \in S : a <= b
  <2>1. PICK a \in S : \A b \in S : <<b, a>> \notin OpToRel(<, Nat)
    BY <1>1, NatLessThanWellFounded, WFMin
  <2>2. \A b \in S : ~(b < a)
    BY <1>1, <2>1 DEF OpToRel
  <2> QED
    BY <1>1, <2>2
<1> QED
  BY <1>2 DEF First

LEMMA EntriesFirst ==
  ASSUME NEW f \in File, NEW d \in Dirs, NEW tag, Entries(f, d, tag) # {}
  PROVE  /\ First(Entries(f, d, tag)) \in 1..Len(f.dirs[d])
         /\ f.dirs[d][First(Entries(f, d, tag))].tag = tag
<1>1. Len(f.dirs[d]) \in Nat
  BY FieldFacts
<1>2. Entries(f, d, tag) \in SUBSET (1..Len(f.dirs[d]))
  BY DEF Entries
<1>3. First(Entries(f, d, tag)) \in Entries(f, d, tag)
  BY <1>1, <1>2, FirstType
<1> QED
  BY <1>3 DEF Entries

LEMMA ValueType ==
  ASSUME NEW f \in File, NEW d \in Dirs, NEW tag
  PROVE  Value(f, d, tag) \in Nat
<1>1. CASE Entries(f, d, tag) = {}
  BY <1>1 DEF Value
<1>2. CASE Entries(f, d, tag) # {}
  <2>1. First(Entries(f, d, tag)) \in 1..Len(f.dirs[d]) /\ f.dirs[d] \in Seq(Entry)
    BY <1>2, EntriesFirst, FieldFacts
  <2>2. f.dirs[d][First(Entries(f, d, tag))] \in Entry
    BY <2>1
  <2> QED
    BY <1>2, <2>2 DEF Value, Entry
<1> QED
  BY <1>1, <1>2

-----------------------------------------------------------------------------
(* The type invariant: steps of the walk. *)

LEMMA TopFacts ==
  ASSUME TypeOK, pc = "walk"
  PROVE  /\ i <= Len(line) /\ F \in File /\ WellFormed(F)
         /\ stack \in Seq(Frame) /\ stack # <<>> /\ Tail(stack) \in Seq(Frame)
         /\ Top \in Frame /\ D \in Dirs
         /\ Top.n \in Nat \ {0} /\ Top.sub \in 0..4
<1>1. i <= Len(line) /\ stack \in Seq(Frame) /\ stack # <<>>
  BY DEF TypeOK
<1>2. Top \in Frame /\ Tail(stack) \in Seq(Frame)
  BY <1>1 DEF Top
<1> QED
  BY <1>1, <1>2, FileFacts DEF D, Frame

LEMMA SeenFacts ==
  ASSUME TypeOK, AtEntry
  PROVE  /\ Seen \in Entry
         /\ Seen.tag # "other" => Seen = F.dirs[D][Top.n]
         /\ Seen.tag # "other" => InPlace(F, D, Seen.tag)
<1>1. Top.n \in 1..Len(F.dirs[D]) /\ F.dirs[D] \in Seq(Entry) /\ D \in Dirs
  BY TopFacts, FieldFacts DEF AtEntry
<1>2. F.dirs[D][Top.n] \in Entry
  BY <1>1
<1>3. Unread \in Entry
  BY DEF Unread, Entry, Tags
<1>4. InPlace(F, D, F.dirs[D][Top.n].tag)
  BY <1>1, TopFacts DEF AtEntry, WellFormed
<1> QED
  BY <1>2, <1>3, <1>4 DEF Seen, Unread

LEMMA FrameUpdate ==
  ASSUME NEW fr \in Frame
  PROVE  /\ [fr EXCEPT !.n = @ + 1, !.sub = 0] \in Frame
         /\ \A k \in 0..4 : [fr EXCEPT !.sub = k] \in Frame
         /\ \A d \in Dirs : NewFrame(d) \in Frame
<1>1. fr.n + 1 \in Nat \ {0} /\ 0 \in 0..4 /\ 1 \in Nat \ {0}
  BY DEF Frame
<1>2. [fr EXCEPT !.n = fr.n + 1, !.sub = 0] \in Frame
  BY <1>1 DEF Frame
<1>3. \A k \in 0..4 : [fr EXCEPT !.sub = k] \in Frame
  BY DEF Frame
<1>4. \A d \in Dirs : NewFrame(d) \in Frame
  BY <1>1 DEF Frame, NewFrame
<1> QED
  BY <1>2, <1>3, <1>4

\* A step of the walk that goes on with the next entry, or calls.
Entering == \E d \in Dirs : stack' = <<NewFrame(d)>> \o Next1
Advancing == stack' = Next1

LEMMA EnteringType ==
  ASSUME TypeOK, pc = "walk", Entering \/ Advancing,
         UNCHANGED <<line, rotates, i, pc, out>>, g' \in Globals
  PROVE  TypeOK'
<1>1. [Top EXCEPT !.n = @ + 1, !.sub = 0] \in Frame
  BY TopFacts, FrameUpdate
<1>2. Next1 \in Seq(Frame) /\ Next1 # <<>>
  BY <1>1, TopFacts DEF Next1
<1>3. ASSUME NEW d \in Dirs
      PROVE  <<NewFrame(d)>> \o Next1 \in Seq(Frame) /\ <<NewFrame(d)>> \o Next1 # <<>>
  <2>1. NewFrame(d) \in Frame
    BY TopFacts, FrameUpdate
  <2> QED
    BY <2>1, <1>2
<1>4. stack' \in Seq(Frame) /\ stack' # <<>>
  BY <1>2, <1>3 DEF Entering, Advancing
<1> QED
  BY <1>4 DEF TypeOK

\* The steps for one entry.
EntryStep ==
  \/ SetModel \/ SetSoftware \/ SetOrientation \/ SetThumbnailLength \/ SetThumbnailOffset
  \/ SetResolution \/ SetThumbIfd \/ CallExif \/ CallMakerNote \/ PlainEntry

LEMMA EntryShape ==
  ASSUME EntryStep
  PROVE  /\ AtEntry /\ pc = "walk" /\ UNCHANGED <<line, rotates, i, pc, out>>
         /\ \/ Advancing
            \/ stack' = <<NewFrame("THUMBNAIL")>> \o Next1 /\ SetThumbIfd
            \/ stack' = <<NewFrame("EXIF")>> \o Next1 /\ CallExif
            \/ stack' = <<NewFrame("MAKER_NOTES")>> \o Next1 /\ CallMakerNote
BY DEF EntryStep, SetModel, SetSoftware, SetOrientation, SetThumbnailLength,
       SetThumbnailOffset, SetResolution, SetThumbIfd, CallExif, CallMakerNote,
       PlainEntry, Advancing, NextEntry, Call, At, AtEntry

LEMMA EntryType ==
  ASSUME TypeOK, EntryStep
  PROVE  TypeOK'
<1>1. pc = "walk" /\ UNCHANGED <<line, rotates, i, pc, out>> /\ (Entering \/ Advancing)
  BY EntryShape, DirNames DEF Entering
<1>2. /\ g \in Globals /\ F.old \in BOOLEAN /\ F.software \in {"Capture", "camera"}
      /\ F.order \in [Dirs -> BOOLEAN] /\ D \in Dirs
  BY <1>1, TopFacts, FieldFacts DEF TypeOK
<1>3. Seen.value \in Nat
  BY EntryShape, SeenFacts DEF Entry
<1>4. g.calc \in Nat /\ g.order \in BOOLEAN /\ g.thumbIfd \in Nat
  BY <1>2 DEF Globals
<1>5. g' \in Globals
  <2>1. CASE SetModel
    BY <2>1, <1>2 DEF SetModel, Globals
  <2>2. CASE SetSoftware
    BY <2>2, <1>2 DEF SetSoftware, Globals
  <2>3. CASE SetOrientation
    BY <2>3, <1>2, <1>3 DEF SetOrientation, Globals
  <2>4. CASE SetThumbnailLength
    BY <2>4, <1>2, <1>3 DEF SetThumbnailLength, Globals
  <2>5. CASE SetThumbnailOffset
    <3>1. (IF D = "SUB_IFD0" THEN Seen.value + g.calc ELSE g.thumbIfd) \in Nat
      BY <1>3, <1>4
    <3> QED
      BY <2>5, <3>1, <1>2, <1>3 DEF SetThumbnailOffset, Globals
  <2>6. CASE SetResolution
    <3>1. [value |-> Seen.value, order |-> F.order[D]] \in Raw
      BY <1>2, <1>3 DEF Raw
    <3> QED
      BY <2>6, <3>1, <1>2 DEF SetResolution, Globals
  <2>7. CASE SetThumbIfd
    BY <2>7, <1>2, <1>3, <1>4 DEF SetThumbIfd, Globals
  <2>8. CASE CallMakerNote
    <3>1. Seen.value + 10 \in Nat /\ F.order["MAKER_NOTES"] \in BOOLEAN
      BY <1>2, <1>3, DirNames
    <3> QED
      BY <2>8, <3>1, <1>2, <1>4 DEF CallMakerNote, Globals
  <2>9. CASE CallExif \/ PlainEntry
    BY <2>9, <1>2 DEF CallExif, PlainEntry
  <2> QED
    BY <2>1, <2>2, <2>3, <2>4, <2>5, <2>6, <2>7, <2>8, <2>9 DEF EntryStep
<1> QED
  BY <1>1, <1>5, EnteringType

LEMMA CallSubIfdType ==
  ASSUME TypeOK, CallSubIfd
  PROVE  TypeOK'
<1> DEFINE k == Top.sub + 1
<1>1. /\ pc = "walk" /\ UNCHANGED <<line, rotates, i, pc, out>>
      /\ stack' = <<NewFrame(SubIfd[k]), [Top EXCEPT !.sub = k]>> \o Tail(stack)
      /\ g' = [g EXCEPT !.subs = [@ EXCEPT ![k] = F.at[SubIfd[k]]]]
  BY DEF CallSubIfd, At, AtEntry
<1>2. k \in 1..4
  <2>1. Top.sub \in 0..4 /\ F.subs \in 0..4
    BY <1>1, TopFacts, FieldFacts
  <2>2. Top.sub < Followed
    BY DEF CallSubIfd
  <2> QED
    BY <2>1, <2>2 DEF Followed
<1>3. SubIfd[k] \in Dirs /\ F.at[SubIfd[k]] \in Nat
  BY <1>1, <1>2, TopFacts, FieldFacts, DirNames
<1>4. NewFrame(SubIfd[k]) \in Frame /\ [Top EXCEPT !.sub = k] \in Frame
  <2>1. Top \in Frame /\ k \in 0..4
    BY <1>1, <1>2, TopFacts
  <2> HIDE DEF k
  <2> QED
    BY <2>1, <1>3, FrameUpdate
<1>5. stack' \in Seq(Frame) /\ stack' # <<>>
  BY <1>1, <1>4, TopFacts
<1>6. g' \in Globals
  <2>1. g \in Globals /\ [g.subs EXCEPT ![k] = F.at[SubIfd[k]]] \in Offsets
    BY <1>2, <1>3 DEF TypeOK, Globals, Offsets
  <2> QED
    BY <1>1, <2>1 DEF Globals
<1> QED
  BY <1>1, <1>5, <1>6 DEF TypeOK

LEMMA ReturnType ==
  ASSUME TypeOK, Return
  PROVE  TypeOK'
<1>1. pc = "walk" /\ UNCHANGED <<line, rotates, i, out>> /\ stack' = Tail(stack)
  BY DEF Return
<1>2. stack' \in Seq(Frame) /\ i <= Len(line)
  BY <1>1, TopFacts
<1>3. pc' \in {"walk", "end"} /\ (pc' = "walk" => stack' # <<>>)
  BY DEF Return
<1>4. g' \in Globals
  BY DEF Return, OrderAfter, TypeOK, Globals
<1> QED
  BY <1>1, <1>2, <1>3, <1>4 DEF TypeOK, Running

-----------------------------------------------------------------------------
(* The type invariant: steps of the writer. *)

\* What was written before the software is more than what is subtracted.
SizeInv ==
  /\ pc = "subs" => out.size >= 20
  /\ pc \in {"image", "length"} => out.softwareAt >= 20

Writing == {"end", "header", "subs", "image", "length", "links"}

LEMMA JpgFacts ==
  ASSUME NEW j \in Jpg
  PROVE  /\ j.end \in Nat /\ j.size \in Nat /\ j.k \in 1..5
         /\ j.subs \in Offsets /\ j.x \in Offsets /\ j.y \in Offsets
         /\ j.softwareAt \in Nat /\ j.imageAt \in Nat
         /\ j.ifd0 \in Seq(Nat) /\ j.links \in Links
BY DEF Jpg

LEMMA GlobalFacts ==
  ASSUME TypeOK
  PROVE  /\ g \in Globals /\ g.order \in BOOLEAN /\ g.calc \in Nat /\ g.thumbIfd \in Nat
         /\ g.thumbOffset \in Nat /\ g.thumbLength \in Nat
         /\ g.subs \in Offsets /\ g.x \in Raw /\ g.y \in Raw
BY DEF TypeOK, Globals

LEMMA SwappedType ==
  ASSUME NEW v \in Nat
  PROVE  Swapped(v) \in Nat
<1>1. /\ v % 256 \in Nat /\ v \div 256 \in Nat /\ v \div 65536 \in Nat /\ v \div 16777216 \in Nat
  OBVIOUS
<1>2. /\ (v \div 256) % 256 \in Nat /\ (v \div 65536) % 256 \in Nat
      /\ (v \div 16777216) % 256 \in Nat
  BY <1>1
<1> QED
  BY <1>1, <1>2 DEF Swapped

LEMMA Get32uType ==
  ASSUME NEW raw \in Raw
  PROVE  Get32u(raw) \in Nat
<1>1. raw.value \in Nat
  BY DEF Raw
<1> QED
  BY <1>1, SwappedType DEF Get32u

LEMMA StoredType ==
  ASSUME TypeOK, i <= Len(line), NEW v \in Nat
  PROVE  Stored(v) \in Nat /\ Moved(v) \in Nat
<1>1. F.order["IFD0"] \in BOOLEAN
  BY FileFacts, FieldFacts, DirNames
<1>2. [value |-> v, order |-> F.order["IFD0"]] \in Raw
  BY <1>1 DEF Raw
<1> QED
  BY <1>2, Get32uType DEF Stored, Moved, Added

LEMMA HeaderEndType ==
  ASSUME TypeOK, i <= Len(line)
  PROVE  HeaderEnd \in Nat
<1>1. F \in File /\ F.junk \in Nat
  BY FileFacts, FieldFacts
<1>2. PreviewOffset \in Nat
  BY <1>1, ValueType, DirNames DEF PreviewOffset
<1>3. Capped(g.thumbIfd) \in Nat /\ PreviewAt(PreviewOffset) \in Nat
  BY <1>2, GlobalFacts DEF Capped, PreviewAt
<1> QED
  BY <1>3 DEF HeaderEnd

LEMMA EntriesAtType ==
  ASSUME TypeOK, i <= Len(line), NEW p
  PROVE  EntriesAt(p) \in Nat
<1>1. F \in File /\ F.junk \in Nat /\ \A d \in Dirs : Len(F.dirs[d]) \in Nat
  BY FileFacts, FieldFacts
<1>2. SubsAt(p) \subseteq Dirs
  BY DirNames DEF SubsAt
<1>3. SubsAt(p) # {} => (CHOOSE d \in SubsAt(p) : TRUE) \in Dirs
  BY <1>2
<1> QED
  BY <1>1, <1>3 DEF EntriesAt

\* A step of the writer on the file at hand.
LEMMA WriteType ==
  ASSUME TypeOK, pc \notin {"open", "done", "exit", "crash"}, NEW label, Write(label),
         label \in (Running \cup Ended) \ {"walk"}, out' \in Jpg
  PROVE  TypeOK'
<1>1. i <= Len(line) /\ pc' = label /\ pc' # "walk"
  BY DEF TypeOK, Write
<1> QED
  BY <1>1 DEF TypeOK, Write

\* The updates that the steps of the writer make.
LEMMA Jpg1 ==
  ASSUME NEW j \in Jpg, NEW v \in Nat
  PROVE  [j EXCEPT !.end = v] \in Jpg
BY DEF Jpg

LEMMA Jpg2 ==
  ASSUME NEW j \in Jpg, NEW v \in Nat, NEW s \in Seq(Nat)
  PROVE  [j EXCEPT !.size = v, !.ifd0 = s] \in Jpg
BY DEF Jpg

LEMMA Jpg3 ==
  ASSUME NEW j \in Jpg, NEW s \in Offsets, NEW x \in Offsets, NEW y \in Offsets,
         NEW v \in Nat, NEW n \in 1..5
  PROVE  [j EXCEPT !.subs = s, !.x = x, !.y = y, !.size = v, !.k = n] \in Jpg
BY DEF Jpg

LEMMA Jpg4 ==
  ASSUME NEW j \in Jpg, NEW n \in 1..5
  PROVE  [j EXCEPT !.k = n] \in Jpg
BY DEF Jpg

LEMMA Jpg5 ==
  ASSUME NEW j \in Jpg, NEW v \in Nat, NEW w \in Nat, NEW a \in Nat
  PROVE  [j EXCEPT !.softwareAt = v, !.size = w, !.imageAt = a] \in Jpg
BY DEF Jpg

LEMMA Jpg6 ==
  ASSUME NEW j \in Jpg, NEW im \in Image, NEW v \in Nat
  PROVE  [j EXCEPT !.image = im, !.size = v] \in Jpg
BY DEF Jpg

LEMMA Jpg7 ==
  ASSUME NEW j \in Jpg, NEW w \in Word, NEW s \in Seq(Nat), NEW n \in 1..5
  PROVE  [j EXCEPT !.length = w, !.ifd0 = s, !.k = n] \in Jpg
BY DEF Jpg

LEMMA Jpg8 ==
  ASSUME NEW j \in Jpg, NEW s \in Seq(Nat), NEW l \in Links, NEW n \in 1..5
  PROVE  [j EXCEPT !.ifd0 = s, !.links = l, !.k = n] \in Jpg
BY DEF Jpg

LEMMA Jpg9 ==
  ASSUME NEW j \in Jpg, NEW s \in {0, 18}
  PROVE  [j EXCEPT !.shift = s] \in Jpg
BY DEF Jpg

LEMMA HeaderType ==
  ASSUME TypeOK, ChooseEnd \/ WriteHeader
  PROVE  TypeOK' /\ SizeInv'
<1>0. out \in Jpg
  BY DEF TypeOK
<1>1. CASE ChooseEnd
  <2>1. i <= Len(line)
    BY <1>1 DEF ChooseEnd, TypeOK
  <2>2. out' \in Jpg
    BY <1>0, <1>1, <2>1, HeaderEndType, Jpg1 DEF ChooseEnd
  <2>3. pc \notin {"open", "done", "exit", "crash"} /\ Write("header")
    BY <1>1 DEF ChooseEnd
  <2> QED
    BY <2>2, <2>3, WriteType DEF Running, SizeInv, Write
<1>2. CASE WriteHeader
  <2>1. i <= Len(line) /\ pc = "header"
    BY <1>2 DEF WriteHeader, TypeOK
  <2>2. F.dirs["IFD0"] \in Seq(Entry) /\ Len(F.dirs["IFD0"]) \in Nat
    BY <2>1, FileFacts, FieldFacts, DirNames
  <2> DEFINE copy == [n \in 1..Len(F.dirs["IFD0"]) |-> F.dirs["IFD0"][n].value]
  <2>3. ASSUME NEW n \in 1..Len(F.dirs["IFD0"])
        PROVE  F.dirs["IFD0"][n].value \in Nat
    <3>1. F.dirs["IFD0"][n] \in Entry
      BY <2>2
    <3> QED
      BY <3>1 DEF Entry
  <2>4. copy \in Seq(Nat)
    BY <2>2, <2>3
  <2>5. 20 + (out.end - 8) \in Nat /\ 20 + (out.end - 8) >= 20
    BY <1>0, <1>2, JpgFacts DEF WriteHeader
  <2>6. out' = [out EXCEPT !.size = 20 + (out.end - 8), !.ifd0 = copy]
    BY <1>2 DEF WriteHeader
  <2> HIDE DEF copy
  <2>7. out' \in Jpg
    BY <1>0, <2>4, <2>5, <2>6, Jpg2
  <2>8. out'.size = 20 + (out.end - 8)
    BY <1>0, <2>6 DEF Jpg
  <2>9. Write("subs")
    BY <1>2 DEF WriteHeader
  <2> QED
    BY <2>1, <2>5, <2>7, <2>8, <2>9, WriteType DEF Running, SizeInv, Write
<1> QED
  BY <1>1, <1>2
LEMMA SubIfdType ==
  ASSUME TypeOK, SizeInv, WriteSubIfd \/ NoSubIfd
  PROVE  TypeOK' /\ SizeInv'
<1>0. /\ out \in Jpg /\ pc = "subs" /\ i <= Len(line) /\ out.k \in 1..4 /\ Write("subs")
      /\ out.k + 1 \in 1..5 /\ out.size \in Nat /\ out.size >= 20
  <2>1. out \in Jpg /\ pc = "subs" /\ i <= Len(line) /\ Write("subs") /\ out.k <= 4
    BY DEF TypeOK, WriteSubIfd, NoSubIfd
  <2> QED
    BY <2>1, JpgFacts DEF SizeInv
<1>1. CASE NoSubIfd
  <2>1. out' \in Jpg /\ out'.size = out.size
    <3>1. out' = [out EXCEPT !.k = out.k + 1]
      BY <1>1 DEF NoSubIfd
    <3> QED
      BY <3>1, <1>0, Jpg4 DEF Jpg
  <2> QED
    BY <1>0, <2>1, WriteType DEF Running, SizeInv, Write
<1>2. CASE WriteSubIfd
  <2> DEFINE a == [out.subs EXCEPT ![out.k] = out.size]
             x == [out.x EXCEPT ![out.k] = Stored(Moved(Get32u(g.x)))]
             y == [out.y EXCEPT ![out.k] = Stored(Moved(Get32u(g.y)))]
             v == out.size + 4 + 12 * EntriesAt(g.subs[out.k])
  <2>1. Stored(Moved(Get32u(g.x))) \in Nat /\ Stored(Moved(Get32u(g.y))) \in Nat
    <3>1. Get32u(g.x) \in Nat /\ Get32u(g.y) \in Nat
      BY GlobalFacts, Get32uType
    <3>2. Moved(Get32u(g.x)) \in Nat /\ Moved(Get32u(g.y)) \in Nat
      BY <1>0, <3>1, StoredType
    <3> QED
      BY <1>0, <3>2, StoredType
  <2>2. a \in Offsets /\ x \in Offsets /\ y \in Offsets
    <3>1. out.subs \in Offsets /\ out.x \in Offsets /\ out.y \in Offsets
      BY <1>0, JpgFacts
    <3> QED
      BY <3>1, <1>0, <2>1 DEF Offsets
  <2>3. v \in Nat /\ v >= 20
    <3>1. EntriesAt(g.subs[out.k]) \in Nat
      BY <1>0, EntriesAtType
    <3> QED
      BY <3>1, <1>0
  <2>4. out' = [out EXCEPT !.subs = a, !.x = x, !.y = y, !.size = v, !.k = out.k + 1]
    BY <1>2 DEF WriteSubIfd
  <2> HIDE DEF a, x, y, v
  <2>5. out' \in Jpg
    BY <1>0, <2>2, <2>3, <2>4, Jpg3
  <2>6. out'.size = v
    BY <1>0, <2>4 DEF Jpg
  <2> QED
    BY <1>0, <2>3, <2>5, <2>6, WriteType DEF Running, SizeInv, Write
<1> QED
  BY <1>1, <1>2

LEMMA ImageType ==
  ASSUME TypeOK, SizeInv, WriteSoftware \/ WriteImage
  PROVE  TypeOK' /\ SizeInv'
<1>0. out \in Jpg /\ out.size \in Nat
  BY JpgFacts DEF TypeOK
<1>1. CASE WriteSoftware
  <2>1. out' = [out EXCEPT !.softwareAt = out.size, !.size = out.size + 128,
                           !.imageAt = out.size + 128]
        /\ pc = "subs" /\ Write("image")
    BY <1>1 DEF WriteSoftware
  <2>2. out.size + 128 \in Nat
    BY <1>0
  <2>3. out' \in Jpg
    BY <1>0, <2>1, <2>2, Jpg5
  <2>4. out'.softwareAt = out.size
    BY <1>0, <2>1 DEF Jpg
  <2> QED
    BY <2>1, <2>3, <2>4, WriteType DEF Running, SizeInv, Write
<1>2. CASE WriteImage
  <2>1. pc = "image" /\ Write("length")
        /\ out' = [out EXCEPT !.image = [from |-> ImageFrom, length |-> g.thumbLength],
                              !.size = out.size + g.thumbLength]
    BY <1>2 DEF WriteImage
  <2>2. out.size + g.thumbLength \in Nat /\ [from |-> ImageFrom, length |-> g.thumbLength] \in Image
    <3>1. ImageFrom \in Nat /\ g.thumbLength \in Nat
      BY GlobalFacts DEF ImageFrom
    <3> QED
      BY <1>0, <3>1 DEF Image
  <2>3. out' \in Jpg
    BY <1>0, <2>1, <2>2, Jpg6
  <2>4. out'.softwareAt = out.softwareAt
    BY <1>0, <2>1 DEF Jpg
  <2> QED
    BY <2>1, <2>3, <2>4, WriteType DEF Running, SizeInv, Write
<1> QED
  BY <1>1, <1>2

LEMMA SegmentLengthType ==
  ASSUME NEW p \in Nat
  PROVE  SegmentLength(p) \in Word
BY DEF SegmentLength, Word

LEMMA LengthType ==
  ASSUME TypeOK, SizeInv, UpdateLength
  PROVE  TypeOK' /\ SizeInv'
<1>0. /\ out \in Jpg /\ pc = "length" /\ i <= Len(line) /\ Write("links")
      /\ out.softwareAt \in Nat /\ out.softwareAt >= 20 /\ out.imageAt \in Nat
      /\ out.ifd0 \in Seq(Nat)
  BY JpgFacts DEF TypeOK, UpdateLength, SizeInv
<1> DEFINE linked == [n \in DOMAIN out.ifd0 |->
                        CASE InIfd0("Bits", n) -> Stored(Moved(Stored(out.ifd0[n])))
                          [] InIfd0("Software", n) -> Stored(out.softwareAt - 12)
                          [] OTHER -> out.ifd0[n]]
<1>1. SegmentLength(out.imageAt) \in Word
  BY <1>0, SegmentLengthType
<1>2. ASSUME NEW n \in 1..Len(out.ifd0)
      PROVE  linked[n] \in Nat
  <2>1. out.ifd0[n] \in Nat
    BY <1>0
  <2>2. Stored(out.ifd0[n]) \in Nat
    BY <1>0, <2>1, StoredType
  <2>3. Moved(Stored(out.ifd0[n])) \in Nat
    BY <1>0, <2>2, StoredType
  <2>4. Stored(Moved(Stored(out.ifd0[n]))) \in Nat
    BY <1>0, <2>3, StoredType
  <2>5. out.softwareAt - 12 \in Nat
    BY <1>0
  <2>6. Stored(out.softwareAt - 12) \in Nat
    BY <1>0, <2>5, StoredType
  <2>7. n \in DOMAIN out.ifd0
    BY <1>0
  <2> QED
    BY <2>1, <2>4, <2>6, <2>7
<1>3. linked \in Seq(Nat)
  <2>1. DOMAIN out.ifd0 = 1..Len(out.ifd0) /\ Len(out.ifd0) \in Nat
    BY <1>0
  <2>2. linked \in [1..Len(out.ifd0) -> Nat]
    <3>1. DOMAIN linked = 1..Len(out.ifd0)
      BY <2>1
    <3>2. linked = [n \in 1..Len(out.ifd0) |-> linked[n]]
      BY <2>1
    <3> HIDE DEF linked
    <3> QED
      BY <1>2, <3>2
  <2> HIDE DEF linked
  <2> QED
    BY <2>1, <2>2
<1>4. out' = [out EXCEPT !.length = SegmentLength(out.imageAt), !.ifd0 = linked, !.k = 1]
  BY DEF UpdateLength
<1> HIDE DEF linked
<1>5. 1 \in 1..5
  OBVIOUS
<1>6. out' \in Jpg
  BY <1>0, <1>1, <1>3, <1>4, <1>5, Jpg7
<1> QED
  BY <1>0, <1>6, WriteType DEF Running, SizeInv, Write

LEMMA LinkType ==
  ASSUME TypeOK, LinkSubIfd \/ NoLink
  PROVE  TypeOK' /\ SizeInv'
<1>0. /\ out \in Jpg /\ pc = "links" /\ i <= Len(line) /\ Write("links")
      /\ out.k \in 1..4 /\ out.k + 1 \in 1..5
  <2>1. out \in Jpg /\ pc = "links" /\ i <= Len(line) /\ Write("links") /\ out.k <= 4
    BY DEF TypeOK, AtLink, LinkSubIfd, NoLink
  <2> QED
    BY <2>1, JpgFacts
<1>1. out' \in Jpg
  <2>1. CASE NoLink
    <3>1. out' = [out EXCEPT !.k = out.k + 1]
      BY <2>1 DEF NoLink
    <3> QED
      BY <1>0, <3>1, Jpg4
  <2>2. CASE LinkSubIfd
    <3> DEFINE p(n) == IF out.k = 1 THEN Moved(Stored(out.ifd0[n])) ELSE Stored(out.ifd0[n])
               new(n) == [at |-> p(n) - Added + 4 * (out.k - 1),
                          value |-> Stored(out.subs[out.k] + Added)]
    <3>1. PICK n \in 1..Len(out.ifd0) :
            out' = [out EXCEPT !.ifd0 = [@ EXCEPT ![n] = Stored(p(n))],
                               !.links = @ \cup {new(n)}, !.k = out.k + 1]
      BY <2>2 DEF LinkSubIfd
    <3>2. out.ifd0 \in Seq(Nat) /\ out.links \in Links /\ out.subs \in Offsets
      BY <1>0, JpgFacts
    <3>3. Added \in Nat
      BY DEF Added
    <3>4. p(n) \in Nat
      <4>1. out.ifd0[n] \in Nat
        BY <3>2
      <4>2. Stored(out.ifd0[n]) \in Nat
        BY <1>0, <4>1, StoredType
      <4>3. Moved(Stored(out.ifd0[n])) \in Nat
        BY <1>0, <4>2, StoredType
      <4> QED
        BY <4>2, <4>3
    <3>5. new(n) \in Link
      <4>1. out.subs[out.k] \in Nat
        BY <3>2, <1>0 DEF Offsets
      <4>2. Stored(out.subs[out.k] + Added) \in Nat
        <5>1. out.subs[out.k] + Added \in Nat
          BY <4>1, <3>3
        <5> QED
          BY <5>1, <1>0, StoredType
      <4>3. p(n) - Added + 4 * (out.k - 1) \in Int
        <5> HIDE DEF p
        <5> QED
          BY <3>3, <3>4, <1>0
      <4> HIDE DEF p
      <4> QED
        BY <4>2, <4>3 DEF Link
    <3>6. Stored(p(n)) \in Nat
      <4> HIDE DEF p
      <4> QED
        BY <1>0, <3>4, StoredType
    <3> HIDE DEF p, new
    <3> DEFINE s == [out.ifd0 EXCEPT ![n] = Stored(p(n))]
               l == out.links \cup {new(n)}
    <3>7. s \in Seq(Nat)
      BY <3>2, <3>6
    <3>8. l \in Links
      BY <3>2, <3>5 DEF Links
    <3>9. out' = [out EXCEPT !.ifd0 = s, !.links = l, !.k = out.k + 1]
      BY <3>1
    <3> HIDE DEF s, l
    <3> QED
      BY <1>0, <3>7, <3>8, <3>9, Jpg8
  <2> QED
    BY <2>1, <2>2
<1> QED
  BY <1>0, <1>1, WriteType DEF Running, SizeInv, Write

LEMMA FinishType ==
  ASSUME TypeOK, Finish
  PROVE  TypeOK'
<1>1. out \in Jpg /\ g \in Globals /\ pc = "links" /\ i <= Len(line)
  BY DEF TypeOK, Finish
<1>2. out' \in Jpg
  <2>1. Shift \in {0, 18}
    BY DEF Shift
  <2>2. out' = [out EXCEPT !.shift = Shift]
    BY DEF Finish
  <2> QED
    BY <1>1, <2>1, <2>2, Jpg9
<1>3. g' \in Globals
  <2>1. SubsAfter \in Offsets
    BY DEF SubsAfter, Zeros, Offsets
  <2> QED
    BY <1>1, <2>1 DEF Finish, Globals
<1> QED
  BY <1>1, <1>2, <1>3 DEF Finish, TypeOK, Running

LEMMA NoJpgType == NoJpg \in Jpg
<1>1. /\ Zeros \in Offsets /\ [from |-> 0, length |-> 0] \in Image /\ 0 \in Word /\ 0 \in Nat
      /\ <<>> \in Seq(Nat) /\ {} \in Links /\ 0 \in {0, 18} /\ 1 \in 1..5
  BY DEF Zeros, Offsets, Image, Word, Links
<1> QED
  BY <1>1 DEF NoJpg, Jpg

LEMMA NextFileType ==
  ASSUME TypeOK, NextFile
  PROVE  TypeOK'
<1>1. out' \in Jpg
  BY NoJpgType DEF NextFile
<1>2. g' \in Globals
  BY DEF TypeOK, NextFile, Globals
<1>3. i' \in Nat \ {0}
  BY DEF TypeOK, NextFile
<1> QED
  BY <1>1, <1>2, <1>3 DEF NextFile, TypeOK, Running

LEMMA OpenType ==
  ASSUME TypeOK, Open
  PROVE  TypeOK'
<1>1. i <= Len(line) /\ F \in File
  BY FileFacts DEF Open
<1>2. F.order["IFD0"] \in BOOLEAN
  BY <1>1, FieldFacts, DirNames
<1>3. g' \in Globals
  BY <1>2 DEF TypeOK, Open, Globals
<1>4. <<NewFrame("IFD0")>> \in Seq(Frame) /\ <<NewFrame("IFD0")>> # <<>>
  <2>1. NewFrame("IFD0") \in Frame
    BY DirNames DEF Frame, NewFrame
  <2> QED
    BY <2>1
<1> QED
  BY <1>1, <1>3, <1>4 DEF Open, TypeOK, Running

-----------------------------------------------------------------------------
(* The type invariant of the specification. *)

IInv == TypeOK /\ SizeInv

LEMMA InitType == Init => IInv
<1> SUFFICES ASSUME Init PROVE IInv
  OBVIOUS
<1>1. Zeros \in Offsets /\ [value |-> 0, order |-> FALSE] \in Raw
  BY DEF Zeros, Offsets, Raw
<1>2. g \in Globals
  BY <1>1 DEF Init, Globals
<1>3. out \in Jpg
  BY NoJpgType DEF Init
<1> QED
  BY <1>2, <1>3 DEF Init, IInv, TypeOK, SizeInv, Running

LEMMA NextType == IInv /\ [Next]_vars => IInv'
<1> SUFFICES ASSUME TypeOK, SizeInv, [Next]_vars PROVE TypeOK' /\ SizeInv'
  BY DEF IInv
<1>1. CASE NotOpened
  BY <1>1 DEF NotOpened, TypeOK, SizeInv
<1>2. CASE Refused \/ Over \/ BadMakerNote
  BY <1>2 DEF Refused, Over, BadMakerNote, At, AtEntry, TypeOK, SizeInv, Ended
<1>3. CASE Open
  BY <1>3, OpenType DEF Open, SizeInv
<1>4. CASE EntryStep
  <2>1. pc' = "walk"
    BY <1>4, EntryShape
  <2> QED
    BY <1>4, <2>1, EntryType DEF SizeInv
<1>5. CASE CallSubIfd
  BY <1>5, CallSubIfdType DEF CallSubIfd, At, AtEntry, SizeInv
<1>6. CASE Return
  BY <1>6, ReturnType DEF Return, SizeInv
<1>7. CASE NoSoftware \/ NoHeader \/ NoTmpName \/ Fails
  BY <1>7 DEF NoSoftware, NoHeader, NoTmpName, Fails, Write, TypeOK, SizeInv, Ended
<1>8. CASE ChooseEnd \/ WriteHeader
  BY <1>8, HeaderType
<1>9. CASE WriteSubIfd \/ NoSubIfd
  BY <1>9, SubIfdType
<1>10. CASE WriteSoftware \/ WriteImage
  BY <1>10, ImageType
<1>11. CASE UpdateLength
  BY <1>11, LengthType
<1>12. CASE LinkSubIfd \/ NoLink
  BY <1>12, LinkType
<1>13. CASE Finish
  BY <1>13, FinishType DEF Finish, SizeInv
<1>14. CASE NextFile
  BY <1>14, NextFileType DEF NextFile, SizeInv
<1>15. CASE Stopped \/ UNCHANGED vars
  BY <1>15 DEF Stopped, vars, TypeOK, SizeInv
<1> QED
  BY <1>1, <1>2, <1>3, <1>4, <1>5, <1>6, <1>7, <1>8, <1>9, <1>10, <1>11, <1>12, <1>13,
     <1>14, <1>15 DEF Next, EntryStep

\* Every variable has a value the code can give it, for every command line: the
\* array of SubIFDs is indexed within its bounds, and the length of the EXIF segment
\* is an unsigned short (dump_jpg_image_file_directory and output_thumbnail).
THEOREM TypeCorrect == Spec => []TypeOK
<1>1. IInv => TypeOK
  BY DEF IInv
<1> QED
  BY <1>1, InitType, NextType, PTL DEF Spec
-----------------------------------------------------------------------------
(* The EXIF segment.  All SubIFDs of the array are directories of the NEF  *)
(* at hand, of at most MaxEntries entries, so what is added to the header  *)
(* is bounded.                                                             *)

Known == {"walk", "end", "header", "subs", "image", "length", "links"}

SubsInv ==
  /\ pc \in {"open", "written"} => g.subs = Zeros
  /\ pc \in Known => \A k \in 1..4 : g.subs[k] # 0 => SubsAt(g.subs[k]) # {}

\* 12 + 4 * (4 + 12 * MaxEntries)
MostAdded == 3100

SegmentInv ==
  /\ pc \in {"open", "walk", "end", "header"} => out.k = 1
  /\ pc \in {"header", "subs", "image", "length", "links", "written"} =>
       (g.software = "Capture" => out.end <= 61439)
  /\ pc = "subs" => out.size <= out.end + 12 + 772 * (out.k - 1)
  /\ pc \in {"image", "length"} =>
       /\ out.imageAt = out.softwareAt + 128
       /\ out.softwareAt <= out.end + MostAdded
  /\ pc \in {"links", "written"} => (out.end <= 61439 => 4 + out.length = out.imageAt)

LEMMA EntryKeepsSubs ==
  ASSUME TypeOK, EntryStep
  PROVE  g'.subs = g.subs
<1>1. g \in Globals
  BY DEF TypeOK
<1>2. CASE SetModel \/ SetSoftware \/ SetOrientation \/ SetThumbnailLength
  BY <1>1, <1>2 DEF SetModel, SetSoftware, SetOrientation, SetThumbnailLength, Globals
<1>3. CASE SetThumbnailOffset
  BY <1>1, <1>3 DEF SetThumbnailOffset, Globals
<1>4. CASE SetResolution
  BY <1>1, <1>4 DEF SetResolution, Globals
<1>5. CASE SetThumbIfd
  BY <1>1, <1>5 DEF SetThumbIfd, Globals
<1>6. CASE CallMakerNote
  BY <1>1, <1>6 DEF CallMakerNote, Globals
<1>7. CASE CallExif \/ PlainEntry
  BY <1>7 DEF CallExif, PlainEntry
<1> QED
  BY <1>2, <1>3, <1>4, <1>5, <1>6, <1>7 DEF EntryStep

LEMMA InitSubs == Init => SubsInv
BY DEF Init, SubsInv, Known

LEMMA NextSubs ==
  ASSUME TypeOK, SubsInv, [Next]_vars
  PROVE  SubsInv'
<1> USE DEF Known
<1>1. CASE NotOpened
  BY <1>1 DEF NotOpened, SubsInv
<1>2. CASE Refused \/ Over \/ BadMakerNote \/ NoSoftware \/ NoHeader \/ NoTmpName \/ Fails
  <2>1. pc' \in {"exit", "done", "crash"}
    BY <1>2 DEF Refused, Over, BadMakerNote, NoSoftware, NoHeader, NoTmpName, Fails, Write
  <2> QED
    BY <2>1 DEF SubsInv
<1>3. CASE Open
  <2>1. pc' = "walk" /\ g'.subs = Zeros
    BY <1>3 DEF Open, SubsInv, TypeOK, Globals
  <2>2. \A k \in 1..4 : Zeros[k] = 0
    BY DEF Zeros
  <2> QED
    BY <2>1, <2>2 DEF SubsInv
<1>4. CASE EntryStep
  <2>1. pc = "walk" /\ UNCHANGED <<line, rotates, i, pc>> /\ g'.subs = g.subs
    BY <1>4, EntryShape, EntryKeepsSubs
  <2>2. F' = F
    BY <2>1 DEF F
  <2> QED
    BY <2>1, <2>2 DEF SubsInv, SubsAt
<1>5. CASE CallSubIfd
  <2> DEFINE n == Top.sub + 1
  <2>1. pc = "walk" /\ UNCHANGED <<line, rotates, i, pc>>
        /\ g' = [g EXCEPT !.subs = [@ EXCEPT ![n] = F.at[SubIfd[n]]]]
    BY <1>5 DEF CallSubIfd, At, AtEntry
  <2>2. n \in 1..4
    <3>1. Top.sub \in 0..4 /\ F.subs \in 0..4
      BY <2>1, TopFacts, FieldFacts
    <3>2. Top.sub < Followed
      BY <1>5 DEF CallSubIfd
    <3> QED
      BY <3>1, <3>2 DEF Followed
  <2> HIDE DEF n
  <2>3. SubsAt(F.at[SubIfd[n]]) # {}
    BY <2>2, DirNames DEF SubsAt
  <2>4. g'.subs = [g.subs EXCEPT ![n] = F.at[SubIfd[n]]] /\ g.subs \in [1..4 -> Nat]
    BY <2>1 DEF TypeOK, Globals, Offsets
  <2>5. F' = F
    BY <2>1 DEF F
  <2>6. ASSUME NEW k \in 1..4, g'.subs[k] # 0
        PROVE  SubsAt(g'.subs[k]) # {}
    <3>1. CASE k = n
      BY <3>1, <2>3, <2>4
    <3>2. CASE k # n
      BY <3>2, <2>1, <2>4, <2>6 DEF SubsInv
    <3> QED
      BY <3>1, <3>2
  <2> QED
    BY <2>1, <2>5, <2>6 DEF SubsInv, SubsAt
<1>6. CASE Return
  <2>1. pc = "walk" /\ pc' \in {"walk", "end"} /\ UNCHANGED <<line, rotates, i>> /\ g'.subs = g.subs
    BY <1>6 DEF Return, TypeOK, Globals
  <2>2. F' = F
    BY <2>1 DEF F
  <2> QED
    BY <2>1, <2>2 DEF SubsInv, SubsAt
<1>7. CASE \/ ChooseEnd \/ WriteHeader \/ WriteSubIfd \/ NoSubIfd \/ WriteSoftware \/ WriteImage
           \/ UpdateLength \/ LinkSubIfd \/ NoLink
  <2>1. pc \in Known /\ pc' \in Known /\ UNCHANGED <<line, rotates, i, g>>
    BY <1>7 DEF ChooseEnd, WriteHeader, WriteSubIfd, NoSubIfd, WriteSoftware, WriteImage,
                UpdateLength, AtLink, LinkSubIfd, NoLink, Write
  <2>2. F' = F
    BY <2>1 DEF F
  <2> QED
    BY <2>1, <2>2 DEF SubsInv, SubsAt
<1>8. CASE Finish
  <2>1. pc' = "written" /\ g'.subs = Zeros
    BY <1>8 DEF Finish, SubsAfter, TypeOK, Globals
  <2> QED
    BY <2>1 DEF SubsInv
<1>9. CASE NextFile
  <2>1. pc' = "open" /\ g'.subs = Zeros
    BY <1>9 DEF NextFile, SubsInv, TypeOK, Globals
  <2> QED
    BY <2>1 DEF SubsInv
<1>10. CASE Stopped \/ UNCHANGED vars
  <2>1. UNCHANGED <<line, rotates, i, pc, g>>
    BY <1>10 DEF Stopped, vars
  <2>2. F' = F
    BY <2>1 DEF F
  <2> QED
    BY <2>1, <2>2 DEF SubsInv, SubsAt
<1> QED
  BY <1>1, <1>2, <1>3, <1>4, <1>5, <1>6, <1>7, <1>8, <1>9, <1>10 DEF Next, EntryStep

LEMMA EntriesBound ==
  ASSUME TypeOK, SubsInv, pc \in Known, NEW k \in 1..4, g.subs[k] # 0
  PROVE  EntriesAt(g.subs[k]) \in Nat /\ EntriesAt(g.subs[k]) <= 64
<1>1. SubsAt(g.subs[k]) # {} /\ i <= Len(line)
  BY DEF SubsInv, TypeOK, Known
<1>2. (CHOOSE d \in SubsAt(g.subs[k]) : TRUE) \in Dirs
  BY <1>1, DirNames DEF SubsAt
<1>3. \A d \in Dirs : Len(F.dirs[d]) \in Nat /\ Len(F.dirs[d]) <= 64
  BY <1>1, FileFacts, FieldFacts DEF WellFormed, MaxEntries
<1> QED
  BY <1>1, <1>2, <1>3 DEF EntriesAt

LEMMA SegmentLengthFits ==
  ASSUME NEW p \in Nat, p >= 4, p < 65540
  PROVE  4 + SegmentLength(p) = p
<1> DEFINE q == p - 4
<1>1. q \in Nat /\ q < 65536
  OBVIOUS
<1>2. q % 65536 = q
  <2> HIDE DEF q
  <2> QED
    BY <1>1
<1> QED
  BY <1>2 DEF SegmentLength

LEMMA InitSegment == Init => SegmentInv
BY DEF Init, SegmentInv, NoJpg

LEMMA NextSegment ==
  ASSUME TypeOK, SizeInv, SubsInv, SegmentInv, [Next]_vars
  PROVE  SegmentInv'
<1>0. out \in Jpg /\ g \in Globals
  BY DEF TypeOK
<1>1. CASE NotOpened \/ Open \/ Return
  BY <1>1 DEF NotOpened, Open, Return, SegmentInv
<1>2. CASE Refused \/ Over \/ BadMakerNote \/ NoSoftware \/ NoHeader \/ NoTmpName \/ Fails
  <2>1. pc' \in {"exit", "done", "crash"}
    BY <1>2 DEF Refused, Over, BadMakerNote, NoSoftware, NoHeader, NoTmpName, Fails, Write
  <2> QED
    BY <2>1 DEF SegmentInv
<1>3. CASE EntryStep \/ CallSubIfd
  <2>1. pc = "walk" /\ UNCHANGED <<pc, out>>
    BY <1>3, EntryShape DEF CallSubIfd, At, AtEntry
  <2> QED
    BY <2>1 DEF SegmentInv
<1>4. CASE ChooseEnd
  <2>1. pc = "end" /\ pc' = "header" /\ g' = g /\ out' = [out EXCEPT !.end = HeaderEnd]
    BY <1>4 DEF ChooseEnd, Write
  <2>2. out'.k = 1 /\ out'.end = HeaderEnd
    BY <1>0, <2>1 DEF SegmentInv, Jpg
  <2>3. g.software = "Capture" => HeaderEnd <= 61439
    <3>1. g.thumbIfd \in Nat
      BY GlobalFacts
    <3> QED
      BY <3>1 DEF HeaderEnd, Capped
  <2> QED
    BY <2>1, <2>2, <2>3 DEF SegmentInv
<1>5. CASE WriteHeader
  <2>1. pc = "header" /\ pc' = "subs" /\ g' = g /\ out.end > 8
    BY <1>5 DEF WriteHeader, Write
  <2>2. out'.size = 20 + (out.end - 8) /\ out'.end = out.end /\ out'.k = out.k
    BY <1>0, <1>5 DEF WriteHeader, Jpg
  <2>3. out.k = 1 /\ out.end \in Nat
    BY <1>0, <2>1, JpgFacts DEF SegmentInv
  <2> QED
    BY <2>1, <2>2, <2>3 DEF SegmentInv
<1>6. CASE NoSubIfd
  <2>1. pc = "subs" /\ pc' = "subs" /\ g' = g
    BY <1>6 DEF NoSubIfd, Write
  <2>2. out'.size = out.size /\ out'.end = out.end /\ out'.k = out.k + 1
    BY <1>0, <1>6 DEF NoSubIfd, Jpg
  <2>3. out.size \in Nat /\ out.end \in Nat /\ out.k \in 1..5
    BY <1>0, JpgFacts
  <2> QED
    BY <2>1, <2>2, <2>3 DEF SegmentInv
<1>7. CASE WriteSubIfd
  <2>1. pc = "subs" /\ pc' = "subs" /\ g' = g /\ out.k <= 4 /\ g.subs[out.k] # 0
    BY <1>7 DEF WriteSubIfd, Write
  <2>2. out.size \in Nat /\ out.end \in Nat /\ out.k \in 1..5
    BY <1>0, JpgFacts
  <2>3. out.k \in 1..4
    BY <2>1, <2>2
  <2> DEFINE e == EntriesAt(g.subs[out.k])
  <2>4. e \in Nat /\ e <= 64
    BY <2>1, <2>3, EntriesBound DEF Known
  <2>5. out'.size = out.size + 4 + 12 * e /\ out'.end = out.end /\ out'.k = out.k + 1
    BY <1>0, <1>7 DEF WriteSubIfd, Jpg
  <2> HIDE DEF e
  <2>6. out.size <= out.end + 12 + 772 * (out.k - 1)
    BY <2>1 DEF SegmentInv
  <2>7. out'.size <= out'.end + 12 + 772 * (out'.k - 1)
    BY <2>2, <2>4, <2>5, <2>6
  <2> QED
    BY <2>1, <2>5, <2>7 DEF SegmentInv
<1>8. CASE WriteSoftware
  <2>1. pc = "subs" /\ pc' = "image" /\ g' = g /\ out.k = 5
    BY <1>8 DEF WriteSoftware, Write
  <2>2. out'.softwareAt = out.size /\ out'.imageAt = out.size + 128 /\ out'.end = out.end
    BY <1>0, <1>8 DEF WriteSoftware, Jpg
  <2>3. out.size <= out.end + 12 + 772 * (5 - 1) /\ out.size \in Nat /\ out.end \in Nat
    BY <1>0, <2>1, JpgFacts DEF SegmentInv
  <2> QED
    BY <2>1, <2>2, <2>3 DEF SegmentInv, MostAdded
<1>9. CASE WriteImage
  <2>1. pc = "image" /\ pc' = "length" /\ g' = g
    BY <1>9 DEF WriteImage, Write
  <2>2. out'.softwareAt = out.softwareAt /\ out'.imageAt = out.imageAt /\ out'.end = out.end
    BY <1>0, <1>9 DEF WriteImage, Jpg
  <2> QED
    BY <2>1, <2>2 DEF SegmentInv
<1>10. CASE UpdateLength
  <2>1. pc = "length" /\ pc' = "links" /\ g' = g
    BY <1>10 DEF UpdateLength, Write
  <2>2. /\ out'.imageAt = out.imageAt /\ out'.end = out.end
        /\ out'.length = SegmentLength(out.imageAt)
    BY <1>0, <1>10 DEF UpdateLength, Jpg
  <2>3. /\ out.imageAt = out.softwareAt + 128 /\ out.softwareAt <= out.end + 3100
        /\ out.softwareAt >= 20 /\ out.softwareAt \in Nat /\ out.end \in Nat
    BY <1>0, <2>1, JpgFacts DEF SegmentInv, SizeInv, MostAdded
  <2>4. out.end <= 61439 => 4 + SegmentLength(out.imageAt) = out.imageAt
    <3> SUFFICES ASSUME out.end <= 61439 PROVE 4 + SegmentLength(out.imageAt) = out.imageAt
      OBVIOUS
    <3>1. out.imageAt \in Nat /\ out.imageAt >= 4 /\ out.imageAt < 65540
      BY <2>3
    <3> QED
      BY <3>1, SegmentLengthFits
  <2> QED
    BY <2>1, <2>2, <2>4 DEF SegmentInv
<1>11. CASE LinkSubIfd \/ NoLink
  <2>1. pc = "links" /\ pc' = "links" /\ g' = g
    BY <1>11 DEF AtLink, LinkSubIfd, NoLink, Write
  <2>2. out'.imageAt = out.imageAt /\ out'.end = out.end /\ out'.length = out.length
    BY <1>0, <1>11 DEF LinkSubIfd, NoLink, Jpg
  <2> QED
    BY <2>1, <2>2 DEF SegmentInv
<1>12. CASE Finish
  <2>1. pc = "links" /\ pc' = "written" /\ g'.software = g.software
    BY <1>0, <1>12 DEF Finish, Globals
  <2>2. out'.imageAt = out.imageAt /\ out'.end = out.end /\ out'.length = out.length
    BY <1>0, <1>12 DEF Finish, Jpg
  <2> QED
    BY <2>1, <2>2 DEF SegmentInv
<1>13. CASE NextFile
  BY <1>13 DEF NextFile, SegmentInv, NoJpg
<1>14. CASE Stopped \/ UNCHANGED vars
  BY <1>14 DEF Stopped, vars, SegmentInv
<1> QED
  BY <1>1, <1>2, <1>3, <1>4, <1>5, <1>6, <1>7, <1>8, <1>9, <1>10, <1>11, <1>12, <1>13,
     <1>14 DEF Next, EntryStep

\* Whenever the header was chosen to fit in two bytes, or the preview is near enough,
\* the EXIF segment ends where the image begins, whatever SubIFDs of whatever file
\* before or now were added (update_header_length, output_sub_ifd).
THEOREM SegmentCorrect == Spec => []SegmentEnds
<1>1. Init => IInv /\ SubsInv /\ SegmentInv
  BY InitType, InitSubs, InitSegment
<1>2. IInv /\ SubsInv /\ SegmentInv /\ [Next]_vars => (IInv /\ SubsInv /\ SegmentInv)'
  BY NextType, NextSubs, NextSegment DEF IInv
<1>3. SegmentInv => SegmentEnds
  BY DEF SegmentInv, SegmentEnds
<1> QED
  BY <1>1, <1>2, <1>3, PTL DEF Spec

-----------------------------------------------------------------------------
(* What the walk leaves to the writer.  The calls are always one of five   *)
(* chains of directories, so the byte order in force is that of the        *)
(* directory at hand, and each entry of IFD0 is read once.                 *)

ShapeInv ==
  pc = "walk" =>
    /\ D = "IFD0" => Len(stack) = 1
    /\ D \in SubNames \cup {"EXIF"} => Len(stack) = 2 /\ stack[2].dir = "IFD0"
    /\ D = "MAKER_NOTES" => /\ Len(stack) = 3 /\ stack[2].dir = "EXIF"
                            /\ stack[3].dir = "IFD0"
    /\ D = "THUMBNAIL" => /\ Len(stack) = 4 /\ stack[2].dir = "MAKER_NOTES"
                          /\ stack[3].dir = "EXIF" /\ stack[4].dir = "IFD0"

OrderInv ==
  /\ pc = "walk" => /\ g.order = F.order[D]
                    /\ D \in {"MAKER_NOTES", "THUMBNAIL"} => g.oldOrder = F.order["IFD0"]
  /\ pc \in Writing => g.order = F.order["IFD0"]

\* The call for IFD0, and the place of a tag in it.
Base == stack[Len(stack)]
Place(tag) == First(Entries(F, "IFD0", tag))
InIfd(tag) == Value(F, "IFD0", tag)

\* How many SubIFDs have been followed.
Reached ==
  IF Followed = 0 \/ Base.n < Place("SubIfds") THEN 0
  ELSE IF Base.n = Place("SubIfds") THEN Base.sub ELSE Followed

HasFirst(m) == \A k \in 1..4 : g.subs[k] = IF k <= m THEN F.at[SubIfd[k]] ELSE 0

ArrayInv ==
  /\ pc = "walk" => HasFirst(Reached)
  /\ pc \in Writing => HasFirst(Followed)

RawOf(tag) == [value |-> InIfd(tag), order |-> F.order["IFD0"]]

ResolutionInv ==
  /\ pc = "walk" => /\ Base.n > Place("XResolution") => g.x = RawOf("XResolution")
                    /\ Base.n > Place("YResolution") => g.y = RawOf("YResolution")
  /\ pc \in Writing => g.x = RawOf("XResolution") /\ g.y = RawOf("YResolution")

WalkInv == ShapeInv /\ OrderInv /\ ArrayInv /\ ResolutionInv

-----------------------------------------------------------------------------
(* What each way of changing the stack does. *)

LEMMA Advanced ==
  ASSUME NEW fr \in Frame
  PROVE  LET x == [fr EXCEPT !.n = @ + 1, !.sub = 0]
         IN  x \in Frame /\ x.dir = fr.dir /\ x.n = fr.n + 1 /\ x.sub = 0
<1> DEFINE y == [fr EXCEPT !.n = fr.n + 1]
           x == [y EXCEPT !.sub = 0]
<1>1. y \in Frame /\ y.dir = fr.dir /\ y.n = fr.n + 1
  <2>1. fr.n + 1 \in Nat \ {0}
    BY DEF Frame
  <2> QED
    BY <2>1 DEF Frame
<1>2. x = [fr EXCEPT !.n = @ + 1, !.sub = 0]
  OBVIOUS
<1> HIDE DEF y
<1>3. x \in Frame /\ x.dir = fr.dir /\ x.n = fr.n + 1 /\ x.sub = 0
  BY <1>1 DEF Frame
<1> QED
  BY <1>2, <1>3

LEMMA FramePush ==
  ASSUME NEW x \in Frame, NEW s \in Seq(Frame)
  PROVE  /\ <<x>> \o s \in Seq(Frame) /\ Len(<<x>> \o s) = Len(s) + 1
         /\ (<<x>> \o s)[1] = x
         /\ \A m \in 1..Len(s) : (<<x>> \o s)[m + 1] = s[m]
OBVIOUS

LEMMA FramePop ==
  ASSUME NEW s \in Seq(Frame), s # <<>>
  PROVE  /\ Tail(s) \in Seq(Frame) /\ Len(Tail(s)) = Len(s) - 1
         /\ \A m \in 1..(Len(s) - 1) : Tail(s)[m] = s[m + 1]
         /\ Head(s) = s[1] /\ Len(s) \in Nat /\ Len(s) >= 1
         /\ Tail(s) = <<>> <=> Len(s) = 1
<1>1. /\ Tail(s) \in Seq(Frame) /\ Len(Tail(s)) = Len(s) - 1
      /\ \A m \in 1..(Len(s) - 1) : Tail(s)[m] = s[m + 1]
      /\ Head(s) = s[1] /\ Len(s) \in Nat /\ Len(s) >= 1
  OBVIOUS
<1> DEFINE t == Tail(s)
<1>2. t \in Seq(Frame)
  BY <1>1
<1>3. t = <<>> <=> Len(t) = 0
  <2> HIDE DEF t
  <2> QED
    BY <1>2
<1> QED
  BY <1>1, <1>3

LEMMA FramePair ==
  ASSUME NEW a \in Frame, NEW b \in Frame, NEW s \in Seq(Frame)
  PROVE  /\ <<a, b>> \o s \in Seq(Frame) /\ Len(<<a, b>> \o s) = Len(s) + 2
         /\ Head(<<a, b>> \o s) = a /\ (<<a, b>> \o s)[1] = a /\ (<<a, b>> \o s)[2] = b
OBVIOUS

LEMMA NextFrames ==
  ASSUME TypeOK, pc = "walk"
  PROVE  /\ Next1 \in Seq(Frame) /\ Len(Next1) = Len(stack)
         /\ Next1[1] \in Frame /\ Next1[1].dir = D /\ Next1[1].n = Top.n + 1 /\ Next1[1].sub = 0
         /\ \A m \in 2..Len(stack) : Next1[m] = stack[m]
         /\ Top = stack[1] /\ Len(stack) \in Nat /\ Len(stack) >= 1
<1>1. stack \in Seq(Frame) /\ stack # <<>> /\ Top \in Frame
  BY TopFacts
<1> DEFINE x == [Top EXCEPT !.n = @ + 1, !.sub = 0]
           s == Tail(stack)
<1>2. x \in Frame /\ x.dir = D /\ x.n = Top.n + 1 /\ x.sub = 0
  BY <1>1, Advanced DEF D
<1>3. /\ s \in Seq(Frame) /\ Len(s) = Len(stack) - 1
      /\ \A m \in 1..(Len(stack) - 1) : s[m] = stack[m + 1]
      /\ Top = stack[1] /\ Len(stack) \in Nat /\ Len(stack) >= 1
  BY <1>1, FramePop DEF Top
<1>4. Next1 = <<x>> \o s
  BY DEF Next1
<1> HIDE DEF x, s
<1>5. /\ Next1 \in Seq(Frame) /\ Len(Next1) = Len(s) + 1 /\ Next1[1] = x
      /\ \A m \in 1..Len(s) : Next1[m + 1] = s[m]
  BY <1>2, <1>3, <1>4, FramePush
<1>6. ASSUME NEW m \in 2..Len(stack)
      PROVE  Next1[m] = stack[m]
  <2>1. m - 1 \in 1..(Len(stack) - 1) /\ (m - 1) + 1 = m
    BY <1>3
  <2>2. Next1[(m - 1) + 1] = s[m - 1]
    BY <1>3, <1>5, <2>1
  <2>3. s[m - 1] = stack[(m - 1) + 1]
    BY <1>3, <2>1
  <2> QED
    BY <2>1, <2>2, <2>3
<1> QED
  BY <1>2, <1>3, <1>5, <1>6

LEMMA AdvanceStack ==
  ASSUME TypeOK, pc = "walk", Advancing
  PROVE  /\ Len(stack') = Len(stack) /\ D' = D
         /\ stack'[1].n = Top.n + 1 /\ stack'[1].sub = 0
         /\ \A m \in 2..Len(stack) : stack'[m] = stack[m]
<1>1. stack' = Next1
  BY DEF Advancing
<1>2. Head(stack') = stack'[1]
  BY <1>1, NextFrames
<1> QED
  BY <1>1, <1>2, NextFrames DEF D, Top

LEMMA EnterStack ==
  ASSUME TypeOK, pc = "walk", NEW d \in Dirs, stack' = <<NewFrame(d)>> \o Next1
  PROVE  /\ Len(stack') = Len(stack) + 1 /\ D' = d
         /\ stack'[1].n = 1 /\ stack'[1].sub = 0
         /\ stack'[2].dir = D /\ stack'[2].n = Top.n + 1 /\ stack'[2].sub = 0
         /\ \A m \in 2..Len(stack) : stack'[m + 1] = stack[m]
<1>1. NewFrame(d) \in Frame /\ NewFrame(d).dir = d /\ NewFrame(d).n = 1 /\ NewFrame(d).sub = 0
  BY TopFacts, FrameUpdate DEF NewFrame
<1>2. /\ stack' \in Seq(Frame) /\ Len(stack') = Len(stack) + 1 /\ stack'[1] = NewFrame(d)
      /\ \A m \in 1..Len(stack) : stack'[m + 1] = Next1[m]
  BY <1>1, NextFrames, FramePush
<1>3. Head(stack') = stack'[1]
  BY <1>2, NextFrames
<1>4. stack'[1 + 1] = Next1[1] /\ 1 + 1 = 2
  BY <1>2, NextFrames
<1>5. ASSUME NEW m \in 2..Len(stack)
      PROVE  stack'[m + 1] = stack[m]
  BY <1>2, NextFrames
<1> QED
  BY <1>1, <1>2, <1>3, <1>4, <1>5, NextFrames DEF D, Top

\* CallSubIfd is for an entry of IFD0, that with its tag.
LEMMA SubIfdStack ==
  ASSUME TypeOK, ShapeInv, CallSubIfd
  PROVE  LET k == Top.sub + 1
         IN  /\ pc = "walk" /\ UNCHANGED <<line, rotates, i, pc, out>> /\ k \in 1..4 /\ k <= Followed
             /\ D = "IFD0" /\ Len(stack) = 1 /\ Len(stack') = 2
             /\ D' = SubIfd[k] /\ SubIfd[k] \in SubNames
             /\ stack'[2].dir = D /\ stack'[2].n = Top.n /\ stack'[2].sub = k
             /\ g' = [g EXCEPT !.subs = [@ EXCEPT ![k] = F.at[SubIfd[k]]]]
             /\ Seen.tag = "SubIfds" /\ Seen = F.dirs[D][Top.n] /\ Top.n \in 1..Len(F.dirs[D])
             /\ Top = stack[1]
<1> DEFINE k == Top.sub + 1
           x == [Top EXCEPT !.sub = k]
<1>1. /\ pc = "walk" /\ UNCHANGED <<line, rotates, i, pc, out>> /\ AtEntry /\ Seen.tag = "SubIfds"
      /\ stack' = <<NewFrame(SubIfd[k]), x>> \o Tail(stack) /\ Top.sub < Followed
      /\ g' = [g EXCEPT !.subs = [@ EXCEPT ![k] = F.at[SubIfd[k]]]]
  BY DEF CallSubIfd, At, AtEntry
<1>2. /\ Top \in Frame /\ Top.sub \in 0..4 /\ F.subs \in 0..4 /\ Top.n \in Nat \ {0}
      /\ stack \in Seq(Frame) /\ stack # <<>> /\ Len(F.dirs[D]) \in Nat
  BY <1>1, TopFacts, FieldFacts
<1>3. k \in 1..4 /\ k <= Followed
  BY <1>1, <1>2 DEF Followed
<1>4. InPlace(F, D, "SubIfds") /\ Seen = F.dirs[D][Top.n]
  BY <1>1, SeenFacts
<1>5. D = "IFD0" /\ Len(stack) = 1
  BY <1>1, <1>4 DEF InPlace, ShapeInv
<1>6. Tail(stack) \in Seq(Frame) /\ Len(Tail(stack)) = 0 /\ Top = stack[1]
  BY <1>2, <1>5, FramePop DEF Top
<1>7. SubIfd[k] \in SubNames
  BY <1>3, DirNames
<1>8. x.dir = D /\ x.n = Top.n /\ x.sub = k
  BY <1>2 DEF Frame, D
<1>9. Top.n \in 1..Len(F.dirs[D])
  BY <1>1, <1>2 DEF AtEntry
<1>10. x \in Frame /\ NewFrame(SubIfd[k]) \in Frame
  <2>1. k \in 0..4
    BY <1>3
  <2> HIDE DEF k
  <2> QED
    BY <1>2, <1>7, <2>1, FrameUpdate, DirNames
<1> HIDE DEF x, k
<1> DEFINE t == Tail(stack)
           y == NewFrame(SubIfd[k])
<1>11. stack' = <<y, x>> \o t /\ y.dir = SubIfd[k]
  BY <1>1 DEF NewFrame
<1>12. t \in Seq(Frame) /\ Len(t) = 0 /\ y \in Frame
  BY <1>6, <1>10
<1> HIDE DEF t, y
<1>13. Len(stack') = 2 /\ Head(stack') = y /\ stack'[2] = x
  BY <1>10, <1>11, <1>12, FramePair
<1>14. D' = SubIfd[k]
  BY <1>11, <1>13 DEF D, Top
<1> QED
  BY <1>1, <1>3, <1>4, <1>5, <1>6, <1>7, <1>8, <1>9, <1>13, <1>14 DEF k

LEMMA ReturnStack ==
  ASSUME TypeOK, Return
  PROVE  /\ pc = "walk" /\ UNCHANGED <<line, rotates, i, out>> /\ Top.n > Len(F.dirs[D])
         /\ Len(stack') = Len(stack) - 1 /\ Len(stack) \in Nat /\ Len(stack) >= 1
         /\ \A m \in 1..(Len(stack) - 1) : stack'[m] = stack[m + 1]
         /\ pc' = IF Len(stack) = 1 THEN "end" ELSE "walk"
         /\ Len(stack) > 1 => D' = stack[2].dir
         /\ Top = stack[1] /\ g' = [g EXCEPT !.order = OrderAfter]
<1>1. /\ pc = "walk" /\ UNCHANGED <<line, rotates, i, out>> /\ Top.n > Len(F.dirs[D])
      /\ stack' = Tail(stack) /\ pc' = IF Tail(stack) = <<>> THEN "end" ELSE "walk"
      /\ g' = [g EXCEPT !.order = OrderAfter]
  BY DEF Return
<1>2. stack \in Seq(Frame) /\ stack # <<>>
  BY <1>1, TopFacts
<1>3. /\ stack' \in Seq(Frame) /\ Len(stack') = Len(stack) - 1
      /\ \A m \in 1..(Len(stack) - 1) : stack'[m] = stack[m + 1]
      /\ Top = stack[1] /\ Len(stack) \in Nat /\ Len(stack) >= 1
  BY <1>1, <1>2, FramePop DEF Top
<1>4. Tail(stack) = <<>> <=> Len(stack) = 1
  BY <1>2, FramePop
<1>5. ASSUME Len(stack) > 1
      PROVE  D' = stack[2].dir
  <2>1. Head(stack') = stack'[1] /\ 1 \in 1..(Len(stack) - 1)
    BY <1>3, <1>5
  <2>2. stack'[1] = stack[1 + 1]
    BY <1>3, <2>1
  <2> QED
    BY <2>1, <2>2 DEF D, Top
<1> QED
  BY <1>1, <1>3, <1>4, <1>5

-----------------------------------------------------------------------------
(* The five chains, and the byte order in force. *)

LEMMA OrderFacts ==
  ASSUME TypeOK, i <= Len(line)
  PROVE  /\ \A d \in SubNames \cup {"EXIF"} : F.order[d] = F.order["IFD0"]
         /\ F.order["THUMBNAIL"] = F.order["MAKER_NOTES"]
         /\ \A d \in SubNames : d \notin {"IFD0", "EXIF", "MAKER_NOTES", "THUMBNAIL"}
         /\ Dirs = SubNames \cup {"IFD0", "EXIF", "MAKER_NOTES", "THUMBNAIL"}
<1>1. WellFormed(F)
  BY FileFacts
<1>2. /\ F.order["EXIF"] = F.order["IFD0"] /\ F.order["THUMBNAIL"] = F.order["MAKER_NOTES"]
      /\ \A d \in SubNames : F.order[d] = F.order["IFD0"]
  BY <1>1 DEF WellFormed
<1> QED
  BY <1>2 DEF SubNames, Dirs

LEMMA SeenHere ==
  ASSUME TypeOK, OrderInv, AtEntry
  PROVE  /\ Seen = F.dirs[D][Top.n] /\ InPlace(F, D, Seen.tag) /\ Seen \in Entry
         /\ Top.n \in 1..Len(F.dirs[D]) /\ D \in Dirs /\ Top.n \in Nat
<1>1. pc = "walk" /\ g.order = F.order[D]
  BY DEF AtEntry, OrderInv
<1>2. Top.n \in 1..Len(F.dirs[D]) /\ D \in Dirs /\ Top.n \in Nat
  BY <1>1, TopFacts, FieldFacts DEF AtEntry
<1>3. InPlace(F, D, F.dirs[D][Top.n].tag)
  BY <1>1, <1>2, TopFacts DEF WellFormed
<1> QED
  BY <1>1, <1>2, <1>3, SeenFacts DEF Seen

LEMMA EntryKeepsOrder ==
  ASSUME TypeOK, EntryStep, ~CallMakerNote
  PROVE  g'.order = g.order /\ g'.oldOrder = g.oldOrder
<1>1. g \in Globals
  BY DEF TypeOK
<1>2. CASE SetModel \/ SetSoftware \/ SetOrientation \/ SetThumbnailLength
  BY <1>1, <1>2 DEF SetModel, SetSoftware, SetOrientation, SetThumbnailLength, Globals
<1>3. CASE SetThumbnailOffset
  BY <1>1, <1>3 DEF SetThumbnailOffset, Globals
<1>4. CASE SetResolution
  BY <1>1, <1>4 DEF SetResolution, Globals
<1>5. CASE SetThumbIfd
  BY <1>1, <1>5 DEF SetThumbIfd, Globals
<1>6. CASE CallExif \/ PlainEntry
  BY <1>6 DEF CallExif, PlainEntry
<1> QED
  BY <1>2, <1>3, <1>4, <1>5, <1>6 DEF EntryStep

\* What a step for an entry does with the stack.
EnterBy(d) ==
  /\ Len(stack') = Len(stack) + 1 /\ D' = d
  /\ stack'[1].n = 1 /\ stack'[1].sub = 0
  /\ stack'[2].dir = D /\ stack'[2].n = Top.n + 1 /\ stack'[2].sub = 0
  /\ \A m \in 2..Len(stack) : stack'[m + 1] = stack[m]
AdvanceOn ==
  /\ Len(stack') = Len(stack) /\ D' = D
  /\ stack'[1].n = Top.n + 1 /\ stack'[1].sub = 0
  /\ \A m \in 2..Len(stack) : stack'[m] = stack[m]

LEMMA EntryMoves ==
  ASSUME TypeOK, OrderInv, EntryStep
  PROVE  /\ AtEntry /\ pc = "walk" /\ UNCHANGED <<line, rotates, i, pc, out>> /\ F' = F
         /\ \/ AdvanceOn /\ ~CallMakerNote /\ ~CallExif
            \/ EnterBy("THUMBNAIL") /\ SetThumbIfd /\ g.old /\ D = "MAKER_NOTES" /\ ~CallMakerNote
            \/ EnterBy("EXIF") /\ CallExif /\ D = "IFD0" /\ ~CallMakerNote
            \/ EnterBy("MAKER_NOTES") /\ CallMakerNote /\ D = "EXIF"
<1>1. AtEntry /\ pc = "walk" /\ UNCHANGED <<line, rotates, i, pc, out>>
  BY EntryShape
<1>2. F' = F
  BY <1>1 DEF F
<1>3. InPlace(F, D, Seen.tag) /\ Len(stack) \in Nat
  BY <1>1, SeenHere, NextFrames
<1>4. CASE Advancing
  <2>1. AdvanceOn
    BY <1>1, <1>4, AdvanceStack DEF AdvanceOn
  <2>2. ASSUME NEW d \in Dirs
        PROVE  ~Call(d)
    <3> SUFFICES ASSUME Call(d) PROVE FALSE
      OBVIOUS
    <3>1. stack' = <<NewFrame(d)>> \o Next1
      BY DEF Call
    <3>2. Len(stack') = Len(stack) + 1
      BY <1>1, <3>1, EnterStack
    <3> QED
      BY <1>3, <2>1, <3>2 DEF AdvanceOn
  <2>3. ~CallMakerNote /\ ~CallExif
    BY <2>2, DirNames DEF CallMakerNote, CallExif
  <2> QED
    BY <1>1, <1>2, <2>1, <2>3
<1>5. CASE stack' = <<NewFrame("THUMBNAIL")>> \o Next1 /\ SetThumbIfd
  <2>1. Seen.tag = "ThumbIfd"
    BY <1>5 DEF SetThumbIfd, At
  <2>2. D = "MAKER_NOTES" /\ ~CallMakerNote
    BY <1>3, <2>1 DEF InPlace, CallMakerNote, At
  <2>3. EnterBy("THUMBNAIL")
    BY <1>1, <1>5, EnterStack, DirNames DEF EnterBy
  <2>4. g.old
    <3> SUFFICES ASSUME ~g.old PROVE FALSE
      OBVIOUS
    <3>1. Advancing
      BY <1>5 DEF SetThumbIfd, NextEntry, Advancing
    <3>2. Len(stack') = Len(stack)
      BY <1>1, <3>1, AdvanceStack
    <3> QED
      BY <1>3, <2>3, <3>2 DEF EnterBy
  <2> QED
    BY <1>1, <1>2, <1>5, <2>2, <2>3, <2>4
<1>6. CASE stack' = <<NewFrame("EXIF")>> \o Next1 /\ CallExif
  <2>1. Seen.tag = "Exif"
    BY <1>6 DEF CallExif, At
  <2>2. D = "IFD0" /\ ~CallMakerNote
    BY <1>3, <2>1 DEF InPlace, CallMakerNote, At
  <2>3. EnterBy("EXIF")
    BY <1>1, <1>6, EnterStack, DirNames DEF EnterBy
  <2> QED
    BY <1>1, <1>2, <1>6, <2>2, <2>3
<1>7. CASE stack' = <<NewFrame("MAKER_NOTES")>> \o Next1 /\ CallMakerNote
  <2>1. Seen.tag = "MakerNote"
    BY <1>7 DEF CallMakerNote, At
  <2>2. D = "EXIF"
    BY <1>3, <2>1 DEF InPlace
  <2>3. EnterBy("MAKER_NOTES")
    BY <1>1, <1>7, EnterStack, DirNames DEF EnterBy
  <2> QED
    BY <1>1, <1>2, <1>7, <2>2, <2>3
<1> QED
  BY <1>4, <1>5, <1>6, <1>7, EntryShape

LEMMA EntryOrder ==
  ASSUME TypeOK, ShapeInv, OrderInv, EntryStep
  PROVE  ShapeInv' /\ OrderInv'
<1>1. AtEntry /\ pc = "walk" /\ pc' = "walk" /\ i <= Len(line) /\ F' = F /\ D \in Dirs
  BY EntryMoves, TopFacts
<1>2. /\ \A d \in SubNames \cup {"EXIF"} : F.order[d] = F.order["IFD0"]
      /\ F.order["THUMBNAIL"] = F.order["MAKER_NOTES"]
      /\ \A d \in SubNames : d \notin {"IFD0", "EXIF", "MAKER_NOTES", "THUMBNAIL"}
  BY <1>1, OrderFacts
<1>3. g.order = F.order[D] /\ (D \in {"MAKER_NOTES", "THUMBNAIL"} => g.oldOrder = F.order["IFD0"])
  BY <1>1 DEF OrderInv
<1>4. Top = stack[1] /\ Len(stack) \in Nat
  BY <1>1, NextFrames
<1>5. CASE AdvanceOn /\ ~CallMakerNote
  <2>1. g'.order = g.order /\ g'.oldOrder = g.oldOrder
    BY <1>5, EntryKeepsOrder
  <2>2. OrderInv'
    BY <1>1, <1>3, <1>5, <2>1 DEF OrderInv, AdvanceOn, Writing
  <2>3. ShapeInv'
    BY <1>1, <1>4, <1>5 DEF ShapeInv, AdvanceOn
  <2> QED
    BY <2>2, <2>3
<1>6. CASE EnterBy("THUMBNAIL") /\ SetThumbIfd /\ D = "MAKER_NOTES" /\ ~CallMakerNote
  <2>1. g'.order = g.order /\ g'.oldOrder = g.oldOrder
    BY <1>6, EntryKeepsOrder
  <2>2. OrderInv'
    BY <1>1, <1>2, <1>3, <1>6, <2>1 DEF OrderInv, EnterBy, Writing
  <2>3. Len(stack) = 3 /\ stack[2].dir = "EXIF" /\ stack[3].dir = "IFD0"
    BY <1>1, <1>6 DEF ShapeInv
  <2>4. stack'[2 + 1] = stack[2] /\ stack'[3 + 1] = stack[3] /\ Len(stack') = 4
        /\ D' = "THUMBNAIL" /\ stack'[2].dir = "MAKER_NOTES"
    BY <1>6, <2>3 DEF EnterBy
  <2>5. stack'[3].dir = "EXIF" /\ stack'[4].dir = "IFD0"
    BY <2>3, <2>4
  <2>6. ShapeInv'
    BY <1>2, <2>4, <2>5 DEF ShapeInv
  <2> QED
    BY <2>2, <2>6
<1>7. CASE EnterBy("EXIF") /\ CallExif /\ D = "IFD0" /\ ~CallMakerNote
  <2>1. g'.order = g.order /\ g'.oldOrder = g.oldOrder
    BY <1>7, EntryKeepsOrder
  <2>2. OrderInv'
    BY <1>1, <1>2, <1>3, <1>7, <2>1 DEF OrderInv, EnterBy, Writing
  <2>3. Len(stack) = 1
    BY <1>1, <1>7 DEF ShapeInv
  <2>4. Len(stack') = 2 /\ D' = "EXIF" /\ stack'[2].dir = "IFD0"
    BY <1>7, <2>3 DEF EnterBy
  <2>5. ShapeInv'
    BY <1>2, <2>4 DEF ShapeInv
  <2> QED
    BY <2>2, <2>5
<1>8. CASE EnterBy("MAKER_NOTES") /\ CallMakerNote /\ D = "EXIF"
  <2>1. g'.order = F.order["MAKER_NOTES"] /\ g'.oldOrder = g.order
    BY <1>8 DEF CallMakerNote, TypeOK, Globals
  <2>2. OrderInv'
    BY <1>1, <1>2, <1>3, <1>8, <2>1 DEF OrderInv, EnterBy, Writing
  <2>3. Len(stack) = 2 /\ stack[2].dir = "IFD0"
    BY <1>1, <1>8 DEF ShapeInv
  <2>4. stack'[2 + 1] = stack[2] /\ Len(stack') = 3 /\ D' = "MAKER_NOTES" /\ stack'[2].dir = "EXIF"
    BY <1>8, <2>3 DEF EnterBy
  <2>5. ShapeInv'
    BY <1>2, <2>3, <2>4 DEF ShapeInv
  <2> QED
    BY <2>2, <2>5
<1> QED
  BY <1>5, <1>6, <1>7, <1>8, EntryMoves

LEMMA ReturnOrder ==
  ASSUME TypeOK, ShapeInv, OrderInv, Return
  PROVE  ShapeInv' /\ OrderInv'
<1>1. /\ pc = "walk" /\ UNCHANGED <<line, rotates, i, out>> /\ i <= Len(line) /\ D \in Dirs
      /\ Len(stack') = Len(stack) - 1 /\ Len(stack) \in Nat /\ Len(stack) >= 1
      /\ \A m \in 1..(Len(stack) - 1) : stack'[m] = stack[m + 1]
      /\ pc' = (IF Len(stack) = 1 THEN "end" ELSE "walk")
      /\ Len(stack) > 1 => D' = stack[2].dir
      /\ Top = stack[1] /\ g' = [g EXCEPT !.order = OrderAfter]
  BY ReturnStack, TopFacts
<1>2. /\ \A d \in SubNames \cup {"EXIF"} : F.order[d] = F.order["IFD0"]
      /\ F.order["THUMBNAIL"] = F.order["MAKER_NOTES"]
      /\ \A d \in SubNames : d \notin {"IFD0", "EXIF", "MAKER_NOTES", "THUMBNAIL"}
      /\ Dirs = SubNames \cup {"IFD0", "EXIF", "MAKER_NOTES", "THUMBNAIL"}
  BY <1>1, OrderFacts
<1>3. g.order = F.order[D] /\ (D \in {"MAKER_NOTES", "THUMBNAIL"} => g.oldOrder = F.order["IFD0"])
  BY <1>1 DEF OrderInv
<1>4. F' = F
  BY <1>1 DEF F
<1>5. g'.order = OrderAfter /\ g'.oldOrder = g.oldOrder
  BY <1>1 DEF TypeOK, Globals
<1>6. CASE D = "IFD0"
  <2>1. Len(stack) = 1 /\ pc' = "end" /\ g'.order = F.order["IFD0"]
    BY <1>1, <1>3, <1>5, <1>6 DEF ShapeInv, OrderAfter
  <2> QED
    BY <1>4, <2>1 DEF ShapeInv, OrderInv
<1>7. CASE D \in SubNames \cup {"EXIF"}
  <2>1. Len(stack) = 2 /\ stack[2].dir = "IFD0"
    BY <1>1, <1>7 DEF ShapeInv
  <2>2. pc' = "walk" /\ D' = "IFD0" /\ Len(stack') = 1 /\ g'.order = F.order["IFD0"]
    BY <1>1, <1>2, <1>3, <1>5, <1>7, <2>1 DEF OrderAfter
  <2> QED
    BY <1>2, <1>4, <2>2 DEF ShapeInv, OrderInv, Writing
<1>8. CASE D = "MAKER_NOTES"
  <2>1. Len(stack) = 3 /\ stack[2].dir = "EXIF" /\ stack[3].dir = "IFD0"
    BY <1>1, <1>8 DEF ShapeInv
  <2>2. pc' = "walk" /\ D' = "EXIF" /\ Len(stack') = 2 /\ g'.order = F.order["EXIF"]
    BY <1>1, <1>2, <1>3, <1>5, <1>8, <2>1 DEF OrderAfter
  <2>3. stack'[2] = stack[2 + 1]
    BY <1>1, <2>1
  <2>4. stack'[2].dir = "IFD0"
    BY <2>1, <2>3
  <2> QED
    BY <1>2, <1>4, <2>2, <2>4 DEF ShapeInv, OrderInv, Writing
<1>9. CASE D = "THUMBNAIL"
  <2>1. Len(stack) = 4 /\ stack[2].dir = "MAKER_NOTES" /\ stack[3].dir = "EXIF"
        /\ stack[4].dir = "IFD0"
    BY <1>1, <1>9 DEF ShapeInv
  <2>2. pc' = "walk" /\ D' = "MAKER_NOTES" /\ Len(stack') = 3 /\ g'.order = F.order["MAKER_NOTES"]
    BY <1>1, <1>2, <1>3, <1>5, <1>9, <2>1 DEF OrderAfter
  <2>3. stack'[2] = stack[2 + 1] /\ stack'[3] = stack[3 + 1]
    BY <1>1, <2>1
  <2>4. stack'[2].dir = "EXIF" /\ stack'[3].dir = "IFD0"
    BY <2>1, <2>3
  <2>5. g'.oldOrder = F.order["IFD0"]
    BY <1>3, <1>5, <1>9
  <2> QED
    BY <1>2, <1>4, <2>2, <2>4, <2>5 DEF ShapeInv, OrderInv, Writing
<1> QED
  BY <1>1, <1>2, <1>6, <1>7, <1>8, <1>9

LEMMA SubIfdOrder ==
  ASSUME TypeOK, ShapeInv, OrderInv, CallSubIfd
  PROVE  ShapeInv' /\ OrderInv'
<1> DEFINE k == Top.sub + 1
<1>1. /\ pc = "walk" /\ UNCHANGED <<line, rotates, i, pc, out>>
      /\ D = "IFD0" /\ Len(stack') = 2 /\ D' \in SubNames /\ stack'[2].dir = D
      /\ g' = [g EXCEPT !.subs = [@ EXCEPT ![k] = F.at[SubIfd[k]]]]
  BY SubIfdStack
<1>2. i <= Len(line) /\ F' = F
  BY <1>1, TopFacts DEF F
<1>3. g'.order = g.order
  BY <1>1 DEF TypeOK, Globals
<1>4. g.order = F.order["IFD0"]
  BY <1>1 DEF OrderInv
<1>5. F.order[D'] = F.order["IFD0"] /\ D' \notin {"IFD0", "EXIF", "MAKER_NOTES", "THUMBNAIL"}
  BY <1>1, <1>2, OrderFacts
<1>6. OrderInv'
  BY <1>1, <1>2, <1>3, <1>4, <1>5 DEF OrderInv, Writing
<1> QED
  BY <1>1, <1>5, <1>6 DEF ShapeInv

LEMMA InitOrder == Init => ShapeInv /\ OrderInv
BY DEF Init, ShapeInv, OrderInv, Writing

\* A step of the writer on the file at hand.
WriterStep ==
  \/ ChooseEnd \/ WriteHeader \/ WriteSubIfd \/ NoSubIfd \/ WriteSoftware \/ WriteImage
  \/ UpdateLength \/ LinkSubIfd \/ NoLink
StopStep ==
  Refused \/ Over \/ BadMakerNote \/ NoSoftware \/ NoHeader \/ NoTmpName \/ Fails

LEMMA WriterKeeps ==
  ASSUME WriterStep
  PROVE  pc \in Writing /\ pc' \in Writing /\ UNCHANGED <<line, rotates, i, stack, g>> /\ F' = F
<1>1. pc \in Writing /\ pc' \in Writing /\ UNCHANGED <<line, rotates, i, stack, g>>
  BY DEF WriterStep, ChooseEnd, WriteHeader, WriteSubIfd, NoSubIfd, WriteSoftware, WriteImage,
         UpdateLength, AtLink, LinkSubIfd, NoLink, Write, Writing
<1> QED
  BY <1>1 DEF F

LEMMA StopEnds == ASSUME StopStep PROVE pc' \in {"exit", "done", "crash"}
BY DEF StopStep, Refused, Over, BadMakerNote, NoSoftware, NoHeader, NoTmpName, Fails,
       Write

LEMMA NextOrder ==
  ASSUME TypeOK, ShapeInv, OrderInv, [Next]_vars
  PROVE  ShapeInv' /\ OrderInv'
<1>1. CASE NotOpened
  BY <1>1 DEF NotOpened, ShapeInv, OrderInv, Writing
<1>2. CASE StopStep
  BY <1>2, StopEnds DEF ShapeInv, OrderInv, Writing
<1>3. CASE Open
  <2>1. /\ pc' = "walk" /\ Len(stack') = 1 /\ D' = "IFD0" /\ F' = F
        /\ g'.order = F.order["IFD0"]
    BY <1>3 DEF Open, D, Top, NewFrame, F, TypeOK, Globals
  <2> QED
    BY <2>1 DEF ShapeInv, OrderInv, Writing, SubNames
<1>4. CASE EntryStep
  BY <1>4, EntryOrder
<1>5. CASE CallSubIfd
  BY <1>5, SubIfdOrder
<1>6. CASE Return
  BY <1>6, ReturnOrder
<1>7. CASE WriterStep
  BY <1>7, WriterKeeps DEF ShapeInv, OrderInv, Writing
<1>8. CASE Finish \/ NextFile
  BY <1>8 DEF Finish, NextFile, ShapeInv, OrderInv, Writing
<1>9. CASE Stopped \/ UNCHANGED vars
  BY <1>9 DEF Stopped, vars, ShapeInv, OrderInv, D, Top, F
<1> QED
  BY <1>1, <1>2, <1>3, <1>4, <1>5, <1>6, <1>7, <1>8, <1>9
     DEF Next, EntryStep, WriterStep, StopStep

-----------------------------------------------------------------------------
(* The place in IFD0, the array of SubIFDs and the resolutions. *)

LEMMA OncePlace ==
  ASSUME NEW f \in File, NEW d \in Dirs, NEW tag, Once(f, d, tag)
  PROVE  LET p == First(Entries(f, d, tag))
         IN  /\ Entries(f, d, tag) # {} /\ p \in 1..Len(f.dirs[d]) /\ p \in Nat
             /\ \A n \in 1..Len(f.dirs[d]) : f.dirs[d][n].tag = tag <=> n = p
             /\ Value(f, d, tag) = f.dirs[d][p].value
<1> DEFINE p == First(Entries(f, d, tag))
<1>1. PICK n \in 1..Len(f.dirs[d]) : Entries(f, d, tag) = {n}
  BY DEF Once
<1>2. Entries(f, d, tag) # {}
  BY <1>1
<1>3. p \in 1..Len(f.dirs[d]) /\ f.dirs[d][p].tag = tag
  BY <1>2, EntriesFirst
<1>4. p \in Entries(f, d, tag)
  BY <1>3 DEF Entries
<1>5. p = n
  BY <1>1, <1>4
<1>6. \A m \in 1..Len(f.dirs[d]) : f.dirs[d][m].tag = tag <=> m = p
  <2>1. \A m \in 1..Len(f.dirs[d]) : f.dirs[d][m].tag = tag <=> m \in Entries(f, d, tag)
    BY DEF Entries
  <2> HIDE DEF p
  <2> QED
    BY <1>1, <1>5, <2>1
<1>7. Value(f, d, tag) = f.dirs[d][p].value
  BY <1>2 DEF Value
<1>8. Len(f.dirs[d]) \in Nat
  BY FieldFacts
<1>9. p \in Nat
  <2> HIDE DEF p
  <2> QED
    BY <1>3, <1>8
<1> QED
  BY <1>2, <1>3, <1>6, <1>7, <1>9, Zenon

\* The tags every IFD0 has once.
LEMMA IfdPlace ==
  ASSUME TypeOK, i <= Len(line), NEW tag, Once(F, "IFD0", tag)
  PROVE  /\ Place(tag) \in 1..Len(F.dirs["IFD0"]) /\ Place(tag) \in Nat
         /\ \A n \in 1..Len(F.dirs["IFD0"]) : F.dirs["IFD0"][n].tag = tag <=> n = Place(tag)
         /\ InIfd(tag) = F.dirs["IFD0"][Place(tag)].value
BY FileFacts, DirNames, OncePlace DEF Place, InIfd

LEMMA BaseFacts ==
  ASSUME TypeOK, ShapeInv, pc = "walk"
  PROVE  /\ Base.n \in Nat \ {0} /\ Base.sub \in 0..4
         /\ D = "IFD0" => Base = Top /\ Len(stack) = 1
         /\ D # "IFD0" => Len(stack) >= 2
<1>1. stack \in Seq(Frame) /\ Len(stack) \in Nat /\ Len(stack) >= 1 /\ Top = stack[1]
  BY TopFacts, NextFrames
<1>2. Base \in Frame
  BY <1>1 DEF Base
<1>3. Base.n \in Nat \ {0} /\ Base.sub \in 0..4
  BY <1>2 DEF Frame
<1>4. D = "IFD0" => Base = Top /\ Len(stack) = 1
  BY <1>1 DEF ShapeInv, Base
<1>5. D # "IFD0" => Len(stack) >= 2
  BY TopFacts DEF ShapeInv, Dirs
<1> QED
  BY <1>3, <1>4, <1>5

LEMMA EntryBase ==
  ASSUME TypeOK, ShapeInv, OrderInv, EntryStep
  PROVE  /\ D # "IFD0" => Base'.n = Base.n /\ Base'.sub = Base.sub
         /\ D = "IFD0" => Base'.n = Base.n + 1 /\ Base'.sub = 0
<1>1. pc = "walk" /\ Len(stack) \in Nat /\ Top = stack[1]
  BY EntryMoves, NextFrames
<1>2. /\ D = "IFD0" => Base = Top /\ Len(stack) = 1
      /\ D # "IFD0" => Len(stack) >= 2
  BY <1>1, BaseFacts
<1>3. CASE AdvanceOn
  <2>1. Len(stack') = Len(stack) /\ stack'[1].n = Top.n + 1 /\ stack'[1].sub = 0
        /\ (Len(stack) >= 2 => stack'[Len(stack)] = stack[Len(stack)])
    BY <1>1, <1>3 DEF AdvanceOn
  <2> QED
    BY <1>1, <1>2, <2>1 DEF Base
<1>4. ASSUME NEW d \in Dirs, EnterBy(d)
      PROVE  /\ D # "IFD0" => Base'.n = Base.n /\ Base'.sub = Base.sub
             /\ D = "IFD0" => Base'.n = Base.n + 1 /\ Base'.sub = 0
  <2>1. Len(stack') = Len(stack) + 1 /\ stack'[2].n = Top.n + 1 /\ stack'[2].sub = 0
        /\ (Len(stack) >= 2 => stack'[Len(stack) + 1] = stack[Len(stack)])
    BY <1>1, <1>4 DEF EnterBy
  <2> QED
    BY <1>1, <1>2, <2>1 DEF Base
<1> QED
  BY <1>3, <1>4, EntryMoves, DirNames

LEMMA ReturnBase ==
  ASSUME TypeOK, ShapeInv, Return
  PROVE  /\ Len(stack) > 1 => pc' = "walk" /\ Base' = Base
         /\ Len(stack) = 1 => pc' = "end" /\ D = "IFD0" /\ Base = Top
                              /\ Base.n > Len(F.dirs["IFD0"])
<1>1. /\ pc = "walk" /\ Len(stack') = Len(stack) - 1 /\ Len(stack) \in Nat
      /\ \A m \in 1..(Len(stack) - 1) : stack'[m] = stack[m + 1]
      /\ pc' = (IF Len(stack) = 1 THEN "end" ELSE "walk") /\ Top.n > Len(F.dirs[D])
  BY ReturnStack
<1>2. ASSUME Len(stack) > 1
      PROVE  Base' = Base
  <2>1. stack'[Len(stack) - 1] = stack[(Len(stack) - 1) + 1]
    BY <1>1, <1>2
  <2> QED
    BY <1>1, <2>1 DEF Base
<1>3. Len(stack) = 1 => D = "IFD0"
  BY <1>1, BaseFacts
<1> QED
  BY <1>1, <1>2, <1>3, BaseFacts

LEMMA SubIfdBase ==
  ASSUME TypeOK, ShapeInv, CallSubIfd
  PROVE  Base = Top /\ Base'.n = Base.n /\ Base'.sub = Base.sub + 1
<1>1. pc = "walk" /\ D = "IFD0" /\ Len(stack') = 2 /\ stack'[2].n = Top.n
      /\ stack'[2].sub = Top.sub + 1
  BY SubIfdStack
<1> QED
  BY <1>1, BaseFacts DEF Base

\* A SubIFD is followed only where the one entry for them is.
LEMMA FollowedPlace ==
  ASSUME TypeOK, i <= Len(line)
  PROVE  /\ Followed \in 0..4
         /\ Followed > 0 => Once(F, "IFD0", "SubIfds")
         /\ Followed > 0 => Place("SubIfds") \in 1..Len(F.dirs["IFD0"])
         /\ Followed > 0 => Place("SubIfds") \in Nat /\ Len(F.dirs["IFD0"]) \in Nat
<1>1. F.subs \in 0..4 /\ Len(F.dirs["IFD0"]) \in Nat
  BY FileFacts, FieldFacts, DirNames
<1>2. Followed > 0 => Once(F, "IFD0", "SubIfds")
  BY <1>1, FileFacts DEF Followed, WellFormed
<1> QED
  BY <1>1, <1>2, IfdPlace DEF Followed

LEMMA EntryReached ==
  ASSUME TypeOK, ShapeInv, OrderInv, EntryStep
  PROVE  Reached' = Reached
<1>1. AtEntry /\ pc = "walk" /\ F' = F /\ i <= Len(line)
  BY EntryMoves, TopFacts
<1>2. Followed' = Followed /\ Place("SubIfds")' = Place("SubIfds")
  BY <1>1 DEF Followed, Place, Entries
<1>3. CASE D # "IFD0"
  BY <1>2, <1>3, EntryBase DEF Reached
<1>4. CASE D = "IFD0"
  <2>1. Base = Top /\ Base'.n = Base.n + 1 /\ Base'.sub = 0 /\ Base.n \in Nat
    BY <1>1, <1>4, BaseFacts, EntryBase
  <2>2. CASE Followed = 0
    BY <1>2, <2>2 DEF Reached
  <2>3. CASE Followed # 0
    <3>1. Followed > 0 /\ Place("SubIfds") \in Nat
      BY <1>1, <2>3, FollowedPlace
    <3>2. ASSUME Base.n = Place("SubIfds")
          PROVE  Base.sub = Followed
      <4>1. Once(F, "IFD0", "SubIfds") /\ Seen = F.dirs["IFD0"][Top.n]
            /\ Top.n \in 1..Len(F.dirs["IFD0"])
        BY <1>1, <1>4, <3>1, FollowedPlace, SeenHere
      <4>2. Seen.tag = "SubIfds"
        BY <1>1, <2>1, <3>2, <4>1, IfdPlace
      <4>3. PlainEntry
        BY <4>2 DEF EntryStep, SetModel, SetSoftware, SetOrientation, SetThumbnailLength,
                    SetThumbnailOffset, SetResolution, SetThumbIfd, CallExif, CallMakerNote, At
      <4> QED
        BY <2>1, <4>2, <4>3 DEF PlainEntry, At
    <3> QED
      BY <1>2, <2>1, <2>3, <3>1, <3>2 DEF Reached
  <2> QED
    BY <2>2, <2>3
<1> QED
  BY <1>3, <1>4

LEMMA NextArray ==
  ASSUME TypeOK, SubsInv, ShapeInv, OrderInv, ArrayInv, [Next]_vars
  PROVE  ArrayInv'
<1>1. CASE NotOpened \/ Finish \/ NextFile
  BY <1>1 DEF NotOpened, Finish, NextFile, ArrayInv, Writing
<1>2. CASE StopStep
  BY <1>2, StopEnds DEF ArrayInv, Writing
<1>3. CASE Open
  <2>1. /\ pc' = "walk" /\ Len(stack') = 1 /\ F' = F /\ g'.subs = Zeros /\ i <= Len(line)
        /\ stack'[1].n = 1 /\ stack'[1].sub = 0
    BY <1>3 DEF Open, NewFrame, F, TypeOK, Globals, SubsInv
  <2>2. Followed' = Followed /\ Place("SubIfds")' = Place("SubIfds")
    BY <2>1 DEF Followed, Place, Entries
  <2>3. Reached' = 0
    BY <2>1, <2>2, FollowedPlace DEF Reached, Base
  <2>4. \A k \in 1..4 : Zeros[k] = 0
    BY DEF Zeros
  <2>5. HasFirst(Reached)'
    BY <2>1, <2>3, <2>4 DEF HasFirst
  <2> QED
    BY <2>1, <2>5 DEF ArrayInv, Writing
<1>4. CASE EntryStep
  <2>1. pc = "walk" /\ pc' = "walk" /\ F' = F /\ g'.subs = g.subs /\ Reached' = Reached
    BY <1>4, EntryMoves, EntryKeepsSubs, EntryReached
  <2>2. HasFirst(Reached)'
    BY <2>1 DEF ArrayInv, HasFirst
  <2> QED
    BY <2>1, <2>2 DEF ArrayInv, Writing
<1>5. CASE CallSubIfd
  <2> DEFINE k == Top.sub + 1
  <2>1. /\ pc = "walk" /\ UNCHANGED <<line, rotates, i, pc, out>> /\ k \in 1..4 /\ k <= Followed
        /\ D = "IFD0"
        /\ g' = [g EXCEPT !.subs = [@ EXCEPT ![k] = F.at[SubIfd[k]]]]
        /\ Seen.tag = "SubIfds" /\ Seen = F.dirs[D][Top.n] /\ Top.n \in 1..Len(F.dirs[D])
    BY <1>5, SubIfdStack
  <2>2. F' = F /\ i <= Len(line)
    BY <2>1, TopFacts DEF F
  <2>3. Followed' = Followed /\ Place("SubIfds")' = Place("SubIfds")
    BY <2>2 DEF Followed, Place, Entries
  <2>4. Base = Top /\ Base'.n = Base.n /\ Base'.sub = k /\ Base.sub \in 0..4
    BY <1>5, <2>1, SubIfdBase, BaseFacts
  <2>5. Followed > 0 /\ Followed \in 0..4 /\ Once(F, "IFD0", "SubIfds")
    BY <2>1, <2>2, FollowedPlace
  <2>6. Top.n = Place("SubIfds") /\ Place("SubIfds") \in Nat
    BY <2>1, <2>2, <2>5, IfdPlace
  <2>7. Reached = k - 1 /\ Reached' = k
    BY <2>3, <2>4, <2>5, <2>6 DEF Reached
  <2>8. g'.subs = [g.subs EXCEPT ![k] = F.at[SubIfd[k]]] /\ g.subs \in [1..4 -> Nat]
    BY <2>1 DEF TypeOK, Globals, Offsets
  <2>9. HasFirst(k - 1)
    BY <2>1, <2>7 DEF ArrayInv
  <2> HIDE DEF k
  <2>10. ASSUME NEW j \in 1..4
         PROVE  g'.subs[j] = (IF j <= k THEN F.at[SubIfd[j]] ELSE 0)
    <3>1. CASE j = k
      BY <2>1, <2>8, <3>1
    <3>2. CASE j # k
      <4>1. g'.subs[j] = g.subs[j]
        BY <2>8, <3>2
      <4>2. g.subs[j] = IF j <= k - 1 THEN F.at[SubIfd[j]] ELSE 0
        BY <2>9 DEF HasFirst
      <4> QED
        BY <2>1, <3>2, <4>1, <4>2
    <3> QED
      BY <3>1, <3>2
  <2>11. HasFirst(Reached)'
    BY <2>2, <2>7, <2>10 DEF HasFirst
  <2> QED
    BY <2>1, <2>11 DEF ArrayInv, Writing
<1>6. CASE Return
  <2>1. /\ pc = "walk" /\ UNCHANGED <<line, rotates, i, out>> /\ i <= Len(line) /\ F' = F
        /\ g'.subs = g.subs /\ Len(stack) \in Nat /\ Len(stack) >= 1
    BY <1>6, ReturnStack, TopFacts DEF F, TypeOK, Globals
  <2>2. Followed' = Followed /\ Place("SubIfds")' = Place("SubIfds")
    BY <2>1 DEF Followed, Place, Entries
  <2>3. HasFirst(Reached)
    BY <2>1 DEF ArrayInv
  <2>4. CASE Len(stack) > 1
    <3>1. pc' = "walk" /\ Reached' = Reached
      BY <1>6, <2>2, <2>4, ReturnBase DEF Reached
    <3>2. HasFirst(Reached)'
      BY <2>1, <2>3, <3>1 DEF HasFirst
    <3> QED
      BY <3>1, <3>2 DEF ArrayInv, Writing
  <2>5. CASE Len(stack) = 1
    <3>1. pc' = "end" /\ Base.n > Len(F.dirs["IFD0"]) /\ Base.n \in Nat
      BY <1>6, <2>1, <2>5, ReturnBase, BaseFacts
    <3>2. Reached = Followed
      BY <2>1, <3>1, FollowedPlace DEF Reached
    <3>3. HasFirst(Followed)'
      BY <2>1, <2>2, <2>3, <3>2 DEF HasFirst
    <3> QED
      BY <3>1, <3>3 DEF ArrayInv, Writing
  <2>6. Len(stack) > 1 \/ Len(stack) = 1
    <3>1. Len(stack) \in Nat /\ Len(stack) >= 1
      BY <2>1, Zenon
    <3> DEFINE m == Len(stack)
    <3>2. m \in Nat /\ m >= 1
      BY <3>1
    <3> HIDE DEF m
    <3>3. m > 1 \/ m = 1
      BY <3>2
    <3> QED
      BY <3>3 DEF m
  <2> QED
    BY <2>4, <2>5, <2>6, Zenon
<1>7. CASE WriterStep
  <2>1. pc \in Writing /\ pc' \in Writing /\ g' = g /\ F' = F
    BY <1>7, WriterKeeps
  <2>2. Followed' = Followed /\ HasFirst(Followed)
    BY <2>1 DEF Followed, ArrayInv
  <2>3. HasFirst(Followed)'
    BY <2>1, <2>2 DEF HasFirst
  <2> QED
    BY <2>1, <2>3 DEF ArrayInv, Writing
<1>8. CASE Stopped \/ UNCHANGED vars
  <2>1. UNCHANGED <<line, rotates, i, pc, stack, g>> /\ F' = F
    BY <1>8 DEF Stopped, vars, F
  <2>2. Reached' = Reached /\ Followed' = Followed
    BY <2>1 DEF Reached, Followed, Place, Entries, Base
  <2> QED
    BY <2>1, <2>2 DEF ArrayInv, HasFirst
<1> QED
  BY <1>1, <1>2, <1>3, <1>4, <1>5, <1>6, <1>7, <1>8 DEF Next, EntryStep, WriterStep, StopStep

LEMMA EntryResolution ==
  ASSUME TypeOK, EntryStep
  PROVE  LET raw == [value |-> Seen.value, order |-> F.order[D]]
         IN  /\ g'.x = IF Seen.tag = "XResolution" /\ D = "IFD0" THEN raw ELSE g.x
             /\ g'.y = IF Seen.tag = "YResolution" /\ D = "IFD0" THEN raw ELSE g.y
<1>1. g \in Globals
  BY DEF TypeOK
<1>2. CASE SetModel \/ SetSoftware \/ SetOrientation \/ SetThumbnailLength
  BY <1>1, <1>2 DEF SetModel, SetSoftware, SetOrientation, SetThumbnailLength, Globals, At
<1>3. CASE SetThumbnailOffset
  BY <1>1, <1>3 DEF SetThumbnailOffset, Globals, At
<1>4. CASE SetResolution
  <2>1. CASE Seen.tag = "XResolution"
    BY <1>1, <1>4, <2>1 DEF SetResolution, Globals, At
  <2>2. CASE Seen.tag = "YResolution"
    BY <1>1, <1>4, <2>2 DEF SetResolution, Globals, At
  <2> QED
    BY <1>4, <2>1, <2>2 DEF SetResolution, At
<1>5. CASE SetThumbIfd
  BY <1>1, <1>5 DEF SetThumbIfd, Globals, At
<1>6. CASE CallMakerNote
  BY <1>1, <1>6 DEF CallMakerNote, Globals, At
<1>7. CASE CallExif \/ PlainEntry
  BY <1>7 DEF CallExif, PlainEntry, At
<1> QED
  BY <1>2, <1>3, <1>4, <1>5, <1>6, <1>7 DEF EntryStep

LEMMA ResolutionPlaces ==
  ASSUME TypeOK, i <= Len(line)
  PROVE  Once(F, "IFD0", "XResolution") /\ Once(F, "IFD0", "YResolution")
         /\ Once(F, "IFD0", "Bits") /\ Once(F, "IFD0", "Model")
BY FileFacts DEF WellFormed

LEMMA ReturnKeeps ==
  ASSUME TypeOK, Return
  PROVE  /\ g'.x = g.x /\ g'.y = g.y /\ g'.old = g.old /\ g'.software = g.software
         /\ g'.calc = g.calc /\ g'.thumbIfd = g.thumbIfd /\ g'.thumbOffset = g.thumbOffset
         /\ g'.thumbLength = g.thumbLength /\ g'.subs = g.subs
BY DEF Return, TypeOK, Globals

LEMMA SubIfdKeeps ==
  ASSUME TypeOK, CallSubIfd
  PROVE  /\ g'.x = g.x /\ g'.y = g.y /\ g'.old = g.old /\ g'.software = g.software
         /\ g'.calc = g.calc /\ g'.thumbIfd = g.thumbIfd /\ g'.thumbOffset = g.thumbOffset
         /\ g'.thumbLength = g.thumbLength
BY DEF CallSubIfd, TypeOK, Globals

LEMMA NextResolution ==
  ASSUME TypeOK, ShapeInv, OrderInv, ResolutionInv, [Next]_vars
  PROVE  ResolutionInv'
<1>1. CASE NotOpened \/ Finish \/ NextFile
  BY <1>1 DEF NotOpened, Finish, NextFile, ResolutionInv, Writing
<1>2. CASE StopStep
  BY <1>2, StopEnds DEF ResolutionInv, Writing
<1>3. CASE Open
  <2>1. /\ pc' = "walk" /\ Len(stack') = 1 /\ F' = F /\ i <= Len(line) /\ stack'[1].n = 1
    BY <1>3 DEF Open, NewFrame, F
  <2>2. Place("XResolution")' \in Nat \ {0} /\ Place("YResolution")' \in Nat \ {0}
    <3>1. Place("XResolution") \in Nat \ {0} /\ Place("YResolution") \in Nat \ {0}
      BY <2>1, ResolutionPlaces, IfdPlace
    <3> QED
      BY <2>1, <3>1 DEF Place, Entries
  <2>3. Base'.n = 1
    BY <2>1 DEF Base
  <2> QED
    BY <2>1, <2>2, <2>3 DEF ResolutionInv, Writing
<1>4. CASE EntryStep
  <2>1. AtEntry /\ pc = "walk" /\ pc' = "walk" /\ F' = F /\ i <= Len(line)
    BY <1>4, EntryMoves, TopFacts
  <2>2. \A tag : Place(tag)' = Place(tag) /\ RawOf(tag)' = RawOf(tag)
    BY <2>1 DEF Place, RawOf, InIfd, Entries, Value
  <2>3. /\ Base.n > Place("XResolution") => g.x = RawOf("XResolution")
        /\ Base.n > Place("YResolution") => g.y = RawOf("YResolution")
    BY <2>1 DEF ResolutionInv
  <2>4. CASE D # "IFD0"
    <3>1. g'.x = g.x /\ g'.y = g.y /\ Base'.n = Base.n
      BY <1>4, <2>4, EntryResolution, EntryBase
    <3> QED
      BY <2>1, <2>2, <2>3, <3>1 DEF ResolutionInv, Writing
  <2>5. CASE D = "IFD0"
    <3>1. Base = Top /\ Base'.n = Base.n + 1 /\ Base.n \in Nat
      BY <1>4, <2>1, <2>5, BaseFacts, EntryBase
    <3>2. Seen = F.dirs["IFD0"][Top.n] /\ Top.n \in 1..Len(F.dirs["IFD0"])
      BY <2>1, <2>5, SeenHere
    <3>3. ASSUME NEW tag, Once(F, "IFD0", tag)
          PROVE  /\ Place(tag) \in Nat /\ (Seen.tag = tag <=> Base.n = Place(tag))
                 /\ (Seen.tag = tag => RawOf(tag) = [value |-> Seen.value, order |-> F.order[D]])
      BY <2>1, <2>5, <3>1, <3>2, <3>3, IfdPlace DEF RawOf
    <3>4. Base'.n > Place("XResolution") => g'.x = RawOf("XResolution")
      <4>1. Place("XResolution") \in Nat /\ (Seen.tag = "XResolution" <=> Base.n = Place("XResolution"))
        BY <2>1, <3>3, ResolutionPlaces
      <4>2. CASE Seen.tag = "XResolution"
        BY <1>4, <2>1, <2>5, <3>3, <4>2, ResolutionPlaces, EntryResolution
      <4>3. CASE Seen.tag # "XResolution"
        BY <1>4, <2>3, <3>1, <4>1, <4>3, EntryResolution
      <4> QED
        BY <4>2, <4>3
    <3>5. Base'.n > Place("YResolution") => g'.y = RawOf("YResolution")
      <4>1. Place("YResolution") \in Nat /\ (Seen.tag = "YResolution" <=> Base.n = Place("YResolution"))
        BY <2>1, <3>3, ResolutionPlaces
      <4>2. CASE Seen.tag = "YResolution"
        BY <1>4, <2>1, <2>5, <3>3, <4>2, ResolutionPlaces, EntryResolution
      <4>3. CASE Seen.tag # "YResolution"
        BY <1>4, <2>3, <3>1, <4>1, <4>3, EntryResolution
      <4> QED
        BY <4>2, <4>3
    <3> QED
      BY <2>1, <2>2, <3>4, <3>5 DEF ResolutionInv, Writing
  <2> QED
    BY <2>4, <2>5
<1>5. CASE CallSubIfd
  <2>1. pc = "walk" /\ pc' = "walk" /\ F' = F /\ Base'.n = Base.n /\ g'.x = g.x /\ g'.y = g.y
    BY <1>5, SubIfdStack, SubIfdBase, SubIfdKeeps DEF F
  <2>2. \A tag : Place(tag)' = Place(tag) /\ RawOf(tag)' = RawOf(tag)
    BY <2>1 DEF Place, RawOf, InIfd, Entries, Value
  <2> QED
    BY <2>1, <2>2 DEF ResolutionInv, Writing
<1>6. CASE Return
  <2>1. /\ pc = "walk" /\ i <= Len(line) /\ F' = F /\ g'.x = g.x /\ g'.y = g.y
        /\ Len(stack) \in Nat /\ Len(stack) >= 1
    BY <1>6, ReturnStack, ReturnKeeps, TopFacts DEF F
  <2>2. \A tag : Place(tag)' = Place(tag) /\ RawOf(tag)' = RawOf(tag)
    BY <2>1 DEF Place, RawOf, InIfd, Entries, Value
  <2>3. CASE Len(stack) > 1
    <3>1. pc' = "walk" /\ Base' = Base
      BY <1>6, <2>3, ReturnBase
    <3> QED
      BY <2>1, <2>2, <3>1 DEF ResolutionInv, Writing
  <2>4. CASE Len(stack) = 1
    <3>1. pc' = "end" /\ Base.n > Len(F.dirs["IFD0"]) /\ Base.n \in Nat
      BY <1>6, <2>1, <2>4, ReturnBase, BaseFacts
    <3>2. Place("XResolution") \in 1..Len(F.dirs["IFD0"])
          /\ Place("YResolution") \in 1..Len(F.dirs["IFD0"]) /\ Len(F.dirs["IFD0"]) \in Nat
      BY <2>1, ResolutionPlaces, IfdPlace, FileFacts, FieldFacts, DirNames
    <3>3. Base.n > Place("XResolution") /\ Base.n > Place("YResolution")
      BY <3>1, <3>2
    <3> QED
      BY <2>1, <2>2, <3>1, <3>3 DEF ResolutionInv, Writing
  <2>5. Len(stack) > 1 \/ Len(stack) = 1
    BY <1>6, ReturnStack
  <2> QED
    BY <2>3, <2>4, <2>5, Zenon
<1>7. CASE WriterStep
  <2>1. pc \in Writing /\ pc' \in Writing /\ g' = g /\ F' = F
    BY <1>7, WriterKeeps
  <2>2. \A tag : RawOf(tag)' = RawOf(tag)
    BY <2>1 DEF RawOf, InIfd, Entries, Value
  <2> QED
    BY <2>1, <2>2 DEF ResolutionInv, Writing
<1>8. CASE Stopped \/ UNCHANGED vars
  <2>1. UNCHANGED <<line, rotates, i, pc, stack, g>> /\ F' = F
    BY <1>8 DEF Stopped, vars, F
  <2>2. \A tag : Place(tag)' = Place(tag) /\ RawOf(tag)' = RawOf(tag)
    BY <2>1 DEF Place, RawOf, InIfd, Entries, Value
  <2> QED
    BY <2>1, <2>2 DEF ResolutionInv, Base
<1> QED
  BY <1>1, <1>2, <1>3, <1>4, <1>5, <1>6, <1>7, <1>8 DEF Next, EntryStep, WriterStep, StopStep

LEMMA NextWalk ==
  ASSUME TypeOK, SubsInv, WalkInv, [Next]_vars
  PROVE  WalkInv'
BY NextOrder, NextArray, NextResolution DEF WalkInv

LEMMA InitWalk == Init => WalkInv
BY InitOrder DEF Init, WalkInv, ArrayInv, ResolutionInv, Writing

-----------------------------------------------------------------------------
(* What the writer puts where: the SubIFDs it has copied, then the links   *)
(* it has renewed, one by one.                                             *)

\* What the JPG has of the SubIFDs before number k.
SubsBefore(k) ==
  \A j \in 1..4 :
    /\ out.subs[j] # 0 <=> (j < k /\ j <= Followed)
    /\ j < k /\ j <= Followed => /\ out.x[j] = InIfd("XResolution") + 12 + Added
                                 /\ out.y[j] = InIfd("YResolution") + 12 + Added

LinkTo(j) == [at |-> InIfd("SubIfds") + 12 + 4 * (j - 1), value |-> out.subs[j] + Added]
LinksBefore(k) == {LinkTo(j) : j \in {m \in 1..4 : m < k /\ m <= Followed}}

Copied == [n \in 1..Len(F.dirs["IFD0"]) |-> F.dirs["IFD0"][n].value]

CopyInv ==
  /\ pc \in {"open", "walk", "end", "header"} =>
       out.k = 1 /\ out.subs = Zeros /\ out.links = {}
  /\ pc = "subs" => SubsBefore(out.k)
  /\ pc \in {"image", "length", "links", "written"} => SubsBefore(5)
  /\ pc \in {"subs", "image", "length"} => out.ifd0 = Copied /\ out.links = {}

LinkInv ==
  /\ pc \in {"links", "written"} =>
       /\ Len(out.ifd0) = Len(F.dirs["IFD0"])
       /\ Read("Bits") = InIfd("Bits") + 12 + Added
       /\ Entries(F, "IFD0", "Software") # {} => Read("Software") = out.softwareAt - 12
       /\ Followed > 0 =>
            Read("SubIfds") = InIfd("SubIfds") + (IF out.k = 1 THEN 0 ELSE 12 + Added)
       /\ out.links = LinksBefore(out.k)
       /\ Followed > 0 /\ out.k > 1 => ~Unnamed
  /\ pc = "written" => out.k = 5 /\ out.shift = Shift

LEMMA OwnValues ==
  ASSUME TypeOK, WalkInv, pc \in Writing
  PROVE  /\ \A v : Stored(v) = v
         /\ Get32u(g.x) = InIfd("XResolution") /\ Get32u(g.y) = InIfd("YResolution")
<1>1. g.order = F.order["IFD0"]
  BY DEF WalkInv, OrderInv
<1>2. g.x = RawOf("XResolution") /\ g.y = RawOf("YResolution")
  BY DEF WalkInv, ResolutionInv
<1> QED
  BY <1>1, <1>2 DEF Stored, Get32u, RawOf

\* What the walk left decides which SubIFDs are copied.
LEMMA SubWritten ==
  ASSUME TypeOK, WalkInv, pc \in Writing, NEW k \in 1..4
  PROVE  g.subs[k] # 0 <=> k <= Followed
<1>1. g.subs[k] = IF k <= Followed THEN F.at[SubIfd[k]] ELSE 0
  BY DEF WalkInv, ArrayInv, HasFirst
<1>2. F.at[SubIfd[k]] # 0
  <2>1. WellFormed(F)
    BY FileFacts DEF TypeOK, Writing
  <2> QED
    BY <2>1, DirNames DEF WellFormed
<1> QED
  BY <1>1, <1>2

\* Nothing that SubsBefore is about has changed.
SameSubs ==
  /\ Followed' = Followed /\ InIfd("XResolution")' = InIfd("XResolution")
  /\ InIfd("YResolution")' = InIfd("YResolution") /\ Added' = Added

LEMMA BeforeKept ==
  ASSUME SameSubs, out'.subs = out.subs, out'.x = out.x, out'.y = out.y
  PROVE  \A k \in 1..5 : SubsBefore(k) => SubsBefore(k)'
BY DEF SubsBefore, SameSubs

LEMMA FileSame ==
  ASSUME F' = F
  PROVE  /\ Followed' = Followed /\ Copied' = Copied
         /\ \A tag : Place(tag)' = Place(tag) /\ InIfd(tag)' = InIfd(tag)
                     /\ Entries(F, "IFD0", tag)' = Entries(F, "IFD0", tag)
BY DEF Followed, Copied, Place, InIfd, Entries, Value

LEMMA AddedSame == ASSUME g'.orientation = g.orientation PROVE Added' = Added
BY DEF Added, Turned

LEMMA UnnamedSame ==
  ASSUME g'.orientation = g.orientation, rotates' = rotates
  PROVE  Unnamed' = Unnamed /\ Shift' = Shift
BY DEF Unnamed, Shift, Turns, Turned

LEMMA WriteSubStep ==
  ASSUME TypeOK, SizeInv, WalkInv, CopyInv, WriteSubIfd \/ NoSubIfd
  PROVE  CopyInv'
<1>1. /\ out \in Jpg /\ pc = "subs" /\ pc' = "subs" /\ out.k \in 1..4 /\ i <= Len(line)
      /\ UNCHANGED <<line, rotates, i, g>>
  <2>1. /\ out \in Jpg /\ pc = "subs" /\ pc' = "subs" /\ out.k <= 4 /\ i <= Len(line)
        /\ UNCHANGED <<line, rotates, i, g>>
    BY DEF TypeOK, WriteSubIfd, NoSubIfd, Write
  <2> QED
    BY <2>1, JpgFacts
<1>2. F' = F /\ pc \in Writing
  BY <1>1 DEF F, Writing
<1>3. SameSubs /\ Copied' = Copied
  BY <1>1, <1>2, FileSame, AddedSame DEF SameSubs
<1>4. /\ SubsBefore(out.k) /\ out.ifd0 = Copied /\ out.links = {}
      /\ (g.subs[out.k] # 0 <=> out.k <= Followed)
  BY <1>1, <1>2, SubWritten DEF CopyInv
<1>5. Followed \in 0..4
  BY <1>1, FollowedPlace
<1>6. PICK m \in 1..4 : m = out.k
  BY <1>1
<1>7. CASE NoSubIfd
  <2>1. /\ out'.k = m + 1 /\ out'.subs = out.subs /\ out'.x = out.x /\ out'.y = out.y
        /\ out'.ifd0 = out.ifd0 /\ out'.links = out.links /\ ~(m <= Followed)
    BY <1>1, <1>4, <1>6, <1>7 DEF NoSubIfd, Jpg
  <2>2. SubsBefore(m + 1)
    BY <1>4, <1>5, <1>6, <2>1 DEF SubsBefore
  <2>3. SubsBefore(m + 1)'
    <3>1. m + 1 \in 1..5
      BY <1>6
    <3> QED
      BY <1>3, <2>1, <2>2, <3>1, BeforeKept
  <2>4. SubsBefore(out.k)'
    BY <2>1, <2>3 DEF SubsBefore
  <2> QED
    BY <1>1, <1>3, <1>4, <2>1, <2>4 DEF CopyInv
<1>8. CASE WriteSubIfd
  <2>1. /\ out'.k = m + 1 /\ out'.subs = [out.subs EXCEPT ![m] = out.size]
        /\ out'.x = [out.x EXCEPT ![m] = Stored(Moved(Get32u(g.x)))]
        /\ out'.y = [out.y EXCEPT ![m] = Stored(Moved(Get32u(g.y)))]
        /\ out'.ifd0 = out.ifd0 /\ out'.links = out.links /\ m <= Followed
    BY <1>1, <1>4, <1>6, <1>8 DEF WriteSubIfd, Jpg
  <2>2. /\ Stored(Moved(Get32u(g.x))) = InIfd("XResolution") + 12 + Added
        /\ Stored(Moved(Get32u(g.y))) = InIfd("YResolution") + 12 + Added
    BY <1>2, OwnValues DEF Moved
  <2>3. /\ out.subs \in [1..4 -> Nat] /\ out.x \in [1..4 -> Nat] /\ out.y \in [1..4 -> Nat]
        /\ out.size # 0
    BY <1>1, JpgFacts DEF Offsets, SizeInv
  <2>4. ASSUME NEW j \in 1..4
        PROVE  /\ out'.subs[j] # 0 <=> (j < m + 1 /\ j <= Followed)
               /\ j < m + 1 /\ j <= Followed =>
                    /\ out'.x[j] = InIfd("XResolution") + 12 + Added
                    /\ out'.y[j] = InIfd("YResolution") + 12 + Added
    <3>1. /\ out.subs[j] # 0 <=> (j < m /\ j <= Followed)
          /\ j < m /\ j <= Followed => /\ out.x[j] = InIfd("XResolution") + 12 + Added
                                       /\ out.y[j] = InIfd("YResolution") + 12 + Added
      BY <1>4, <1>6 DEF SubsBefore
    <3>2. CASE j = m
      BY <1>6, <2>1, <2>2, <2>3, <3>2
    <3>3. CASE j # m
      <4>1. out'.subs[j] = out.subs[j] /\ out'.x[j] = out.x[j] /\ out'.y[j] = out.y[j]
        BY <2>1, <2>3, <3>3
      <4>2. j < m + 1 <=> j < m
        BY <1>6, <3>3
      <4> QED
        BY <3>1, <4>1, <4>2
    <3> QED
      BY <3>2, <3>3
  <2>5. SubsBefore(out.k)'
    BY <1>3, <2>1, <2>4 DEF SubsBefore, SameSubs
  <2> QED
    BY <1>1, <1>3, <1>4, <2>1, <2>5 DEF CopyInv
<1> QED
  BY <1>7, <1>8

LEMMA NextCopy ==
  ASSUME TypeOK, SizeInv, WalkInv, CopyInv, [Next]_vars
  PROVE  CopyInv'
<1>0. out \in Jpg
  BY DEF TypeOK
<1>1. CASE NotOpened \/ Open
  BY <1>1 DEF NotOpened, Open, CopyInv
<1>2. CASE StopStep
  BY <1>2, StopEnds DEF CopyInv
<1>3. CASE EntryStep \/ CallSubIfd \/ Return
  <2>1. pc = "walk" /\ pc' \in {"walk", "end"} /\ out' = out
    BY <1>3, EntryShape DEF CallSubIfd, Return, At, AtEntry
  <2> QED
    BY <2>1 DEF CopyInv
<1>4. CASE ChooseEnd
  <2>1. /\ pc = "end" /\ pc' = "header" /\ out'.k = out.k /\ out'.subs = out.subs
        /\ out'.links = out.links
    BY <1>0, <1>4 DEF ChooseEnd, Write, Jpg
  <2> QED
    BY <2>1 DEF CopyInv
<1>5. CASE WriteHeader
  <2>1. /\ pc = "header" /\ pc' = "subs" /\ out'.k = out.k /\ out'.subs = out.subs
        /\ out'.links = out.links /\ out'.ifd0 = Copied /\ UNCHANGED <<line, rotates, i, g>>
    BY <1>0, <1>5 DEF WriteHeader, Write, Jpg, Copied
  <2>2. Copied' = Copied
    BY <2>1, FileSame DEF F
  <2>3. out'.k = 1 /\ out'.subs = Zeros /\ out'.links = {}
    BY <2>1 DEF CopyInv
  <2>4. SubsBefore(out.k)'
    <3>1. \A j \in 1..4 : Zeros[j] = 0 /\ ~(j < 1)
      BY DEF Zeros
    <3> QED
      BY <2>3, <3>1 DEF SubsBefore
  <2> QED
    BY <2>1, <2>2, <2>3, <2>4 DEF CopyInv
<1>6. CASE WriteSubIfd \/ NoSubIfd
  BY <1>6, WriteSubStep
<1>7. CASE WriteSoftware \/ WriteImage \/ UpdateLength \/ LinkSubIfd \/ NoLink \/ Finish
  <2>1. /\ out'.subs = out.subs /\ out'.x = out.x /\ out'.y = out.y
    <3>1. CASE WriteSoftware
      BY <1>0, <3>1 DEF WriteSoftware, Jpg
    <3>2. CASE WriteImage
      BY <1>0, <3>2 DEF WriteImage, Jpg
    <3>3. CASE UpdateLength
      BY <1>0, <3>3 DEF UpdateLength, Jpg
    <3>4. CASE LinkSubIfd
      BY <1>0, <3>4 DEF LinkSubIfd, Jpg
    <3>5. CASE NoLink \/ Finish
      BY <1>0, <3>5 DEF NoLink, Finish, Jpg
    <3> QED
      BY <1>7, <3>1, <3>2, <3>3, <3>4, <3>5
  <2>2. /\ UNCHANGED <<line, rotates, i>> /\ g'.orientation = g.orientation
    BY <1>7 DEF WriteSoftware, WriteImage, UpdateLength, AtLink, LinkSubIfd, NoLink, Finish, Write,
                TypeOK, Globals
  <2>3. F' = F
    BY <2>2 DEF F
  <2>4. SameSubs /\ Copied' = Copied
    BY <2>2, <2>3, FileSame, AddedSame DEF SameSubs
  <2>5. SubsBefore(5)
    BY <1>7 DEF CopyInv, WriteSoftware, WriteImage, UpdateLength, AtLink, LinkSubIfd, NoLink,
                Finish
  <2>6. SubsBefore(5)'
    BY <2>1, <2>4, <2>5, BeforeKept
  <2>7. CASE WriteSoftware \/ WriteImage
    <3>1. /\ pc \in {"subs", "image"} /\ pc' \in {"image", "length"}
          /\ out'.ifd0 = out.ifd0 /\ out'.links = out.links
      BY <1>0, <2>7 DEF WriteSoftware, WriteImage, Write, Jpg
    <3> QED
      BY <2>4, <2>6, <3>1 DEF CopyInv
  <2>8. CASE UpdateLength \/ LinkSubIfd \/ NoLink \/ Finish
    <3>1. pc' \in {"links", "written"}
      BY <2>8 DEF UpdateLength, AtLink, LinkSubIfd, NoLink, Finish, Write
    <3> QED
      BY <2>6, <3>1 DEF CopyInv
  <2> QED
    BY <1>7, <2>7, <2>8
<1>8. CASE NextFile
  BY <1>8 DEF NextFile, CopyInv, NoJpg
<1>9. CASE Stopped \/ UNCHANGED vars
  <2>1. UNCHANGED <<line, rotates, i, pc, g, out>>
    BY <1>9 DEF Stopped, vars
  <2>2. Copied' = Copied /\ SameSubs
    BY <2>1, FileSame, AddedSame DEF F, SameSubs
  <2>3. \A k \in 1..5 : SubsBefore(k) => SubsBefore(k)'
    BY <2>1, <2>2, BeforeKept
  <2>4. PICK m \in 1..5 : m = out.k
    BY <1>0, JpgFacts
  <2>5. SubsBefore(m) <=> SubsBefore(out.k)
    BY <2>4
  <2>6. SubsBefore(m)' => SubsBefore(out.k)'
    BY <2>1, <2>4 DEF SubsBefore
  <2> QED
    BY <2>1, <2>2, <2>3, <2>4, <2>5, <2>6 DEF CopyInv
<1> QED
  BY <1>1, <1>2, <1>3, <1>4, <1>5, <1>6, <1>7, <1>8, <1>9 DEF Next, EntryStep, StopStep

\* The places of the tags that are linked again are different.
LEMMA LinkPlaces ==
  ASSUME TypeOK, i <= Len(line)
  PROVE  /\ Len(F.dirs["IFD0"]) \in Nat
         /\ Place("Bits") \in 1..Len(F.dirs["IFD0"]) /\ Entries(F, "IFD0", "Bits") # {}
         /\ InIfd("Bits") = F.dirs["IFD0"][Place("Bits")].value
         /\ Entries(F, "IFD0", "Software") # {} =>
              /\ Place("Software") \in 1..Len(F.dirs["IFD0"])
              /\ Place("Software") # Place("Bits")
         /\ Followed > 0 =>
              /\ Entries(F, "IFD0", "SubIfds") # {}
              /\ Place("SubIfds") \in 1..Len(F.dirs["IFD0"])
              /\ Place("SubIfds") # Place("Bits")
              /\ InIfd("SubIfds") = F.dirs["IFD0"][Place("SubIfds")].value
              /\ Entries(F, "IFD0", "Software") # {} => Place("SubIfds") # Place("Software")
<1>1. F \in File /\ Len(F.dirs["IFD0"]) \in Nat
  BY FileFacts, FieldFacts, DirNames
<1>2. ASSUME NEW tag, Entries(F, "IFD0", tag) # {}
      PROVE  Place(tag) \in 1..Len(F.dirs["IFD0"]) /\ F.dirs["IFD0"][Place(tag)].tag = tag
             /\ InIfd(tag) = F.dirs["IFD0"][Place(tag)].value
  BY <1>1, <1>2, EntriesFirst, DirNames DEF Place, InIfd, Value
<1>3. Entries(F, "IFD0", "Bits") # {}
  BY ResolutionPlaces DEF Once
<1>4. Followed > 0 => Entries(F, "IFD0", "SubIfds") # {}
  BY FollowedPlace DEF Once
<1>5. /\ Place("Bits") \in 1..Len(F.dirs["IFD0"]) /\ F.dirs["IFD0"][Place("Bits")].tag = "Bits"
      /\ InIfd("Bits") = F.dirs["IFD0"][Place("Bits")].value
  BY <1>2, <1>3
<1>6. Entries(F, "IFD0", "Software") # {} =>
        /\ Place("Software") \in 1..Len(F.dirs["IFD0"])
        /\ F.dirs["IFD0"][Place("Software")].tag = "Software"
  BY <1>2
<1>7. Followed > 0 =>
        /\ Place("SubIfds") \in 1..Len(F.dirs["IFD0"])
        /\ F.dirs["IFD0"][Place("SubIfds")].tag = "SubIfds"
        /\ InIfd("SubIfds") = F.dirs["IFD0"][Place("SubIfds")].value
  BY <1>2, <1>4
<1>8. Entries(F, "IFD0", "Software") # {} => Place("Software") # Place("Bits")
  BY <1>5, <1>6
<1>9. Followed > 0 => Place("SubIfds") # Place("Bits")
  BY <1>5, <1>7
<1>10. Followed > 0 /\ Entries(F, "IFD0", "Software") # {} => Place("SubIfds") # Place("Software")
  BY <1>6, <1>7
<1> QED
  BY <1>1, <1>3, <1>4, <1>5, <1>6, <1>7, <1>8, <1>9, <1>10

LEMMA LengthLinks ==
  ASSUME TypeOK, SizeInv, WalkInv, CopyInv, UpdateLength
  PROVE  LinkInv'
<1>1. /\ out \in Jpg /\ pc = "length" /\ pc' = "links" /\ UNCHANGED <<line, rotates, i, g>>
      /\ i <= Len(line)
  BY DEF TypeOK, UpdateLength, Write
<1>2. F' = F /\ pc \in Writing
  BY <1>1 DEF F, Writing
<1>3. /\ Followed' = Followed /\ Added' = Added /\ F' = F
      /\ \A tag : Place(tag)' = Place(tag) /\ InIfd(tag)' = InIfd(tag)
                  /\ Entries(F, "IFD0", tag)' = Entries(F, "IFD0", tag)
  BY <1>1, <1>2, FileSame, AddedSame
<1>4. out.ifd0 = Copied /\ out.links = {} /\ out.softwareAt \in Nat
  BY <1>1, JpgFacts DEF CopyInv
<1>5. \A v : Stored(v) = v
  BY <1>2, OwnValues
<1> DEFINE len == Len(F.dirs["IFD0"])
           new == [n \in DOMAIN out.ifd0 |->
                     CASE InIfd0("Bits", n) -> Stored(Moved(Stored(out.ifd0[n])))
                       [] InIfd0("Software", n) -> Stored(out.softwareAt - 12)
                       [] OTHER -> out.ifd0[n]]
<1>6. /\ out'.ifd0 = new /\ out'.links = out.links /\ out'.k = 1 /\ out'.softwareAt = out.softwareAt
  BY <1>1 DEF UpdateLength, Jpg
<1>7. /\ len \in Nat /\ Place("Bits") \in 1..len /\ Entries(F, "IFD0", "Bits") # {}
      /\ InIfd("Bits") = F.dirs["IFD0"][Place("Bits")].value
      /\ Entries(F, "IFD0", "Software") # {} =>
           Place("Software") \in 1..len /\ Place("Software") # Place("Bits")
      /\ Followed > 0 =>
           /\ Entries(F, "IFD0", "SubIfds") # {}
           /\ Place("SubIfds") \in 1..len /\ Place("SubIfds") # Place("Bits")
           /\ InIfd("SubIfds") = F.dirs["IFD0"][Place("SubIfds")].value
           /\ Entries(F, "IFD0", "Software") # {} => Place("SubIfds") # Place("Software")
  BY <1>1, LinkPlaces
<1>8. DOMAIN out.ifd0 = 1..len /\ \A n \in 1..len : out.ifd0[n] = F.dirs["IFD0"][n].value
  BY <1>4 DEF Copied
<1>9. \A tag, n : InIfd0(tag, n) <=> Entries(F, "IFD0", tag) # {} /\ n = Place(tag)
  BY DEF InIfd0, Place
<1>10. \A n \in 1..len :
         new[n] = CASE InIfd0("Bits", n) -> Stored(Moved(Stored(out.ifd0[n])))
                    [] InIfd0("Software", n) -> Stored(out.softwareAt - 12)
                    [] OTHER -> out.ifd0[n]
  BY <1>8
<1>11. Len(new) = len
  <2>1. DOMAIN new = 1..len
    BY <1>8
  <2>2. new \in Seq(Nat) /\ DOMAIN new = 1..Len(new) /\ Len(new) \in Nat
    <3>1. out'.ifd0 \in Seq(Nat)
      BY SizeInv, LengthType, JpgFacts DEF TypeOK
    <3> HIDE DEF new
    <3> QED
      BY <1>6, <3>1
  <2> HIDE DEF new, len
  <2> QED
    BY <1>7, <2>1, <2>2
<1> HIDE DEF new, len
<1>12. new[Place("Bits")] = InIfd("Bits") + 12 + Added
  <2>1. new[Place("Bits")] = Stored(Moved(Stored(out.ifd0[Place("Bits")])))
    BY <1>7, <1>9, <1>10
  <2> QED
    BY <1>5, <1>7, <1>8, <2>1 DEF Moved
<1>13. Entries(F, "IFD0", "Software") # {} => new[Place("Software")] = out.softwareAt - 12
  <2> SUFFICES ASSUME Entries(F, "IFD0", "Software") # {}
               PROVE  new[Place("Software")] = out.softwareAt - 12
    OBVIOUS
  <2>1. Place("Software") \in 1..len /\ ~InIfd0("Bits", Place("Software"))
        /\ InIfd0("Software", Place("Software"))
    BY <1>7, <1>9
  <2>2. new[Place("Software")] = Stored(out.softwareAt - 12)
    BY <1>10, <2>1
  <2> QED
    BY <1>5, <2>2
<1>14. Followed > 0 => new[Place("SubIfds")] = InIfd("SubIfds")
  <2> SUFFICES ASSUME Followed > 0 PROVE new[Place("SubIfds")] = InIfd("SubIfds")
    OBVIOUS
  <2>1. Place("SubIfds") \in 1..len /\ ~InIfd0("Bits", Place("SubIfds"))
        /\ ~InIfd0("Software", Place("SubIfds"))
    BY <1>7, <1>9
  <2>2. new[Place("SubIfds")] = out.ifd0[Place("SubIfds")]
    BY <1>10, <2>1
  <2> QED
    BY <1>7, <1>8, <2>1, <2>2
<1>15. LinksBefore(1)' = {}
  BY DEF LinksBefore
<1>16. Len(out.ifd0)' = Len(F.dirs["IFD0"])'
  BY <1>2, <1>6, <1>11 DEF len
<1>17. \A tag : Read(tag)' = new[Place(tag)]
  BY <1>3, <1>6 DEF Read, Place
<1>18. Read("Bits")' = (InIfd("Bits") + 12 + Added)'
  BY <1>3, <1>12, <1>17
<1>19. (Entries(F, "IFD0", "Software") # {} => Read("Software") = out.softwareAt - 12)'
  BY <1>3, <1>6, <1>13, <1>17
<1>20. (Followed > 0 =>
          Read("SubIfds") = InIfd("SubIfds") + (IF out.k = 1 THEN 0 ELSE 12 + Added))'
  <2> SUFFICES ASSUME Followed > 0
               PROVE  Read("SubIfds")' = InIfd("SubIfds")' + 0
    BY <1>3, <1>6
  <2>1. InIfd("SubIfds") \in Nat
    BY <1>1, FileFacts, ValueType, DirNames DEF InIfd
  <2> QED
    BY <1>3, <1>14, <1>17, <2>1
<1>21. (out.links = LinksBefore(out.k))'
  BY <1>4, <1>6, <1>15 DEF LinksBefore
<1>22. ~(out'.k > 1)
  BY <1>6
<1> QED
  BY <1>1, <1>16, <1>18, <1>19, <1>20, <1>21, <1>22 DEF LinkInv

LEMMA NoLinkLinks ==
  ASSUME TypeOK, WalkInv, CopyInv, LinkInv, NoLink
  PROVE  LinkInv'
<1>1. /\ out \in Jpg /\ pc = "links" /\ pc' = "links" /\ UNCHANGED <<line, rotates, i, g>>
      /\ i <= Len(line) /\ out.k <= 4 /\ out.subs[out.k] = 0
  BY DEF TypeOK, NoLink, Write
<1>2. F' = F /\ out.k \in 1..4
  BY <1>1, JpgFacts DEF F
<1>3. /\ Followed' = Followed /\ Added' = Added
      /\ \A tag : Place(tag)' = Place(tag) /\ InIfd(tag)' = InIfd(tag)
                  /\ Entries(F, "IFD0", tag)' = Entries(F, "IFD0", tag)
  BY <1>1, <1>2, FileSame, AddedSame
<1>4. /\ out'.ifd0 = out.ifd0 /\ out'.links = out.links /\ out'.k = out.k + 1
      /\ out'.softwareAt = out.softwareAt /\ out'.subs = out.subs
  BY <1>1 DEF NoLink, Jpg
<1>5. ~(out.k <= Followed)
  <2>1. SubsBefore(5)
    BY <1>1 DEF CopyInv
  <2>2. out.subs[out.k] # 0 <=> (out.k < 5 /\ out.k <= Followed)
    BY <1>2, <2>1 DEF SubsBefore
  <2> QED
    BY <1>1, <1>2, <2>2
<1>6. Followed \in 0..4
  BY <1>1, FollowedPlace
<1>7. LinksBefore(out.k)' = LinksBefore(out.k)
  <2>1. {m \in 1..4 : m < out.k + 1 /\ m <= Followed} = {m \in 1..4 : m < out.k /\ m <= Followed}
    BY <1>2, <1>5, <1>6
  <2>2. \A j : LinkTo(j)' = LinkTo(j)
    BY <1>3, <1>4 DEF LinkTo
  <2> QED
    BY <1>3, <1>4, <2>1, <2>2 DEF LinksBefore
<1>8. \A tag : Read(tag)' = Read(tag)
  BY <1>3, <1>4 DEF Read
<1>9. /\ Len(out.ifd0) = Len(F.dirs["IFD0"])
      /\ Read("Bits") = InIfd("Bits") + 12 + Added
      /\ Entries(F, "IFD0", "Software") # {} => Read("Software") = out.softwareAt - 12
      /\ Followed > 0 =>
           Read("SubIfds") = InIfd("SubIfds") + (IF out.k = 1 THEN 0 ELSE 12 + Added)
      /\ out.links = LinksBefore(out.k)
      /\ Followed > 0 /\ out.k > 1 => ~Unnamed
  BY <1>1 DEF LinkInv
<1>10. Followed > 0 => out.k # 1 /\ out.k + 1 # 1 /\ out.k > 1
  BY <1>2, <1>5, <1>6
<1>11. (Followed > 0 /\ out.k > 1 => ~Unnamed)'
  BY <1>1, <1>3, <1>9, <1>10, UnnamedSame
<1> QED
  BY <1>1, <1>2, <1>3, <1>4, <1>7, <1>8, <1>9, <1>10, <1>11 DEF LinkInv

LEMMA LinkedLinks ==
  ASSUME TypeOK, WalkInv, CopyInv, LinkInv, LinkSubIfd
  PROVE  LinkInv'
<1>1. /\ out \in Jpg /\ pc = "links" /\ pc' = "links" /\ UNCHANGED <<line, rotates, i, g>>
      /\ i <= Len(line) /\ out.k <= 4 /\ out.subs[out.k] # 0
  BY DEF TypeOK, AtLink, LinkSubIfd, Write
<1>2. F' = F /\ out.k \in 1..4 /\ pc \in Writing
  BY <1>1, JpgFacts DEF F, Writing
<1>3. /\ Followed' = Followed /\ Added' = Added
      /\ \A tag : Place(tag)' = Place(tag) /\ InIfd(tag)' = InIfd(tag)
                  /\ Entries(F, "IFD0", tag)' = Entries(F, "IFD0", tag)
  BY <1>1, <1>2, FileSame, AddedSame
<1>4. out.k <= Followed /\ Followed \in 0..4 /\ Followed > 0
  <2>1. SubsBefore(5) /\ Followed \in 0..4
    BY <1>1, FollowedPlace DEF CopyInv
  <2>2. out.subs[out.k] # 0 <=> (out.k < 5 /\ out.k <= Followed)
    BY <1>2, <2>1 DEF SubsBefore
  <2> QED
    BY <1>1, <1>2, <2>1, <2>2
<1>5. /\ Len(out.ifd0) = Len(F.dirs["IFD0"])
      /\ Read("Bits") = InIfd("Bits") + 12 + Added
      /\ Entries(F, "IFD0", "Software") # {} => Read("Software") = out.softwareAt - 12
      /\ Read("SubIfds") = InIfd("SubIfds") + (IF out.k = 1 THEN 0 ELSE 12 + Added)
      /\ out.links = LinksBefore(out.k)
  BY <1>1, <1>4 DEF LinkInv
<1>6. \A v : Stored(v) = v
  BY <1>2, OwnValues
<1>7. InIfd("SubIfds") \in Nat /\ Added \in Nat
  BY <1>1, FileFacts, ValueType, DirNames DEF InIfd, Added
<1> DEFINE n == Place("SubIfds")
           to == InIfd("SubIfds") + 12 + Added
<1>8. PICK m \in 1..Len(out.ifd0) :
        /\ InIfd0("SubIfds", m)
        /\ LET p == IF out.k = 1 THEN Moved(Stored(out.ifd0[m])) ELSE Stored(out.ifd0[m])
           IN  out' = [out EXCEPT
                 !.ifd0[m] = Stored(p),
                 !.links = @ \cup {[at |-> p - Added + 4 * (out.k - 1),
                                    value |-> Stored(out.subs[out.k] + Added)]},
                 !.k = out.k + 1]
  BY DEF LinkSubIfd
<1>9. m = n
  BY <1>8 DEF InIfd0, Place
<1>10. out.ifd0[n] = Read("SubIfds") /\ out.ifd0 \in Seq(Nat) /\ n \in 1..Len(out.ifd0)
  BY <1>1, <1>8, <1>9, JpgFacts DEF Read, Place
<1>11. (IF out.k = 1 THEN Moved(Stored(out.ifd0[n])) ELSE Stored(out.ifd0[n])) = to
  BY <1>5, <1>6, <1>7, <1>10 DEF Moved
<1>12. out' = [out EXCEPT !.ifd0[n] = to,
                 !.links = @ \cup {[at |-> to - Added + 4 * (out.k - 1),
                                    value |-> out.subs[out.k] + Added]},
                 !.k = out.k + 1]
  BY <1>6, <1>8, <1>9, <1>11
<1>13. /\ Len(F.dirs["IFD0"]) \in Nat
       /\ Place("Bits") \in 1..Len(out.ifd0) /\ n # Place("Bits")
       /\ Entries(F, "IFD0", "Software") # {} =>
            Place("Software") \in 1..Len(out.ifd0) /\ n # Place("Software")
  BY <1>1, <1>4, <1>5, LinkPlaces
<1>14. to - Added + 4 * (out.k - 1) = InIfd("SubIfds") + 12 + 4 * (out.k - 1)
  BY <1>2, <1>7
<1> HIDE DEF n, to
<1>15. /\ out'.ifd0 = [out.ifd0 EXCEPT ![n] = to] /\ out'.k = out.k + 1
       /\ out'.links = out.links \cup {LinkTo(out.k)}
       /\ out'.softwareAt = out.softwareAt /\ out'.subs = out.subs
  BY <1>1, <1>12, <1>14 DEF LinkTo, Jpg
<1>16. LinksBefore(out.k)' = LinksBefore(out.k) \cup {LinkTo(out.k)}
  <2>1. {m_1 \in 1..4 : m_1 < out.k + 1 /\ m_1 <= Followed}
          = {m_1 \in 1..4 : m_1 < out.k /\ m_1 <= Followed} \cup {out.k}
    BY <1>2, <1>4
  <2>2. \A j : LinkTo(j)' = LinkTo(j)
    BY <1>3, <1>15 DEF LinkTo
  <2> DEFINE S == {m_1 \in 1..4 : m_1 < out.k /\ m_1 <= Followed}
  <2>3. LinksBefore(out.k)' = {LinkTo(j) : j \in {m_1 \in 1..4 : m_1 < out.k + 1 /\ m_1 <= Followed}}
    BY <1>3, <1>15, <2>2 DEF LinksBefore
  <2>4. LinksBefore(out.k)' = {LinkTo(j) : j \in S \cup {out.k}}
    BY <2>1, <2>3
  <2>5. LinksBefore(out.k) = {LinkTo(j) : j \in S}
    BY DEF LinksBefore
  <2> HIDE DEF S
  <2> QED
    BY <2>4, <2>5
<1>17. DOMAIN out.ifd0 = 1..Len(out.ifd0) /\ Len(out'.ifd0) = Len(out.ifd0)
  BY <1>10, <1>15
<1>18. out'.ifd0[n] = to
  BY <1>10, <1>15, <1>17
<1>19. /\ out'.ifd0[Place("Bits")] = out.ifd0[Place("Bits")]
       /\ Entries(F, "IFD0", "Software") # {} =>
            out'.ifd0[Place("Software")] = out.ifd0[Place("Software")]
  BY <1>13, <1>15, <1>17
<1>20. \A tag : Read(tag)' = out'.ifd0[Place(tag)] /\ Read(tag) = out.ifd0[Place(tag)]
  BY <1>3 DEF Read, Place
<1>21. Len(out.ifd0)' = Len(F.dirs["IFD0"])'
  BY <1>2, <1>5, <1>17
<1>22. Read("Bits")' = (InIfd("Bits") + 12 + Added)'
  BY <1>3, <1>5, <1>19, <1>20
<1>23. (Entries(F, "IFD0", "Software") # {} => Read("Software") = out.softwareAt - 12)'
  BY <1>3, <1>5, <1>15, <1>19, <1>20
<1>24. Read("SubIfds")' = InIfd("SubIfds")' + (12 + Added')
  <2>1. to = InIfd("SubIfds") + (12 + Added)
    BY <1>7 DEF to
  <2> QED
    BY <1>3, <1>18, <1>20, <2>1 DEF n
<1>25. out'.k # 1
  BY <1>2, <1>15
<1>26. (out.links = LinksBefore(out.k))'
  BY <1>5, <1>15, <1>16
<1>27. (Followed > 0 =>
          Read("SubIfds") = InIfd("SubIfds") + (IF out.k = 1 THEN 0 ELSE 12 + Added))'
  BY <1>24, <1>25
<1>28. ~Unnamed'
  BY <1>1, UnnamedSame DEF LinkSubIfd
<1> QED
  BY <1>1, <1>21, <1>22, <1>23, <1>26, <1>27, <1>28 DEF LinkInv

LEMMA NextLinks ==
  ASSUME TypeOK, SizeInv, WalkInv, CopyInv, LinkInv, [Next]_vars
  PROVE  LinkInv'
<1>1. CASE \/ NotOpened \/ Open \/ ChooseEnd \/ WriteHeader \/ WriteSubIfd \/ NoSubIfd
           \/ WriteSoftware \/ WriteImage \/ NextFile
  <2>1. pc' \notin {"links", "written"}
    BY <1>1 DEF NotOpened, Open, ChooseEnd, WriteHeader, WriteSubIfd, NoSubIfd,
                WriteSoftware, WriteImage, NextFile, Write
  <2> QED
    BY <2>1 DEF LinkInv
<1>2. CASE StopStep
  BY <1>2, StopEnds DEF LinkInv
<1>3. CASE EntryStep \/ CallSubIfd \/ Return
  <2>1. pc' \in {"walk", "end"}
    BY <1>3, EntryShape DEF CallSubIfd, Return, At, AtEntry
  <2> QED
    BY <2>1 DEF LinkInv
<1>4. CASE UpdateLength
  BY <1>4, LengthLinks
<1>5. CASE LinkSubIfd
  BY <1>5, LinkedLinks
<1>6. CASE NoLink
  BY <1>6, NoLinkLinks
<1>7. CASE Finish
  <2>1. /\ out \in Jpg /\ pc = "links" /\ pc' = "written" /\ UNCHANGED <<line, rotates, i>> /\ out.k = 5
        /\ out' = [out EXCEPT !.shift = Shift] /\ g'.orientation = g.orientation
    BY <1>7 DEF TypeOK, Finish, Globals
  <2>2. /\ out'.ifd0 = out.ifd0 /\ out'.links = out.links /\ out'.k = 5 /\ out'.shift = Shift
        /\ out'.softwareAt = out.softwareAt /\ out'.subs = out.subs
    BY <2>1 DEF Jpg
  <2>3. F' = F
    BY <2>1 DEF F
  <2>4. /\ Followed' = Followed /\ Added' = Added
        /\ \A tag : Place(tag)' = Place(tag) /\ InIfd(tag)' = InIfd(tag)
                    /\ Entries(F, "IFD0", tag)' = Entries(F, "IFD0", tag)
    BY <2>1, <2>3, FileSame, AddedSame
  <2>5. LinksBefore(out.k)' = LinksBefore(out.k)
    BY <2>1, <2>2, <2>4 DEF LinksBefore, LinkTo
  <2>6. \A tag : Read(tag)' = Read(tag)
    BY <2>2, <2>4 DEF Read
  <2>7. Unnamed' = Unnamed /\ Shift' = Shift
    BY <2>1, UnnamedSame
  <2> QED
    BY <2>1, <2>2, <2>3, <2>4, <2>5, <2>6, <2>7 DEF LinkInv
<1>8. CASE Stopped \/ UNCHANGED vars
  <2>1. UNCHANGED <<line, rotates, i, pc, g, out>> /\ F' = F
    BY <1>8 DEF Stopped, vars, F
  <2>2. /\ Followed' = Followed /\ Added' = Added
        /\ \A tag : Place(tag)' = Place(tag) /\ InIfd(tag)' = InIfd(tag)
                    /\ Entries(F, "IFD0", tag)' = Entries(F, "IFD0", tag)
    BY <2>1, FileSame, AddedSame
  <2>3. LinksBefore(out.k)' = LinksBefore(out.k)
    BY <2>1, <2>2 DEF LinksBefore, LinkTo
  <2>4. \A tag : Read(tag)' = Read(tag)
    BY <2>1, <2>2 DEF Read
  <2>5. Unnamed' = Unnamed /\ Shift' = Shift
    BY <2>1, UnnamedSame
  <2> QED
    BY <2>1, <2>2, <2>3, <2>4, <2>5 DEF LinkInv
<1> QED
  BY <1>1, <1>2, <1>3, <1>4, <1>5, <1>6, <1>7, <1>8 DEF Next, EntryStep, StopStep

\* Everything that the links depend on.
LinkedInv == IInv /\ SubsInv /\ WalkInv /\ CopyInv /\ LinkInv

LEMMA InitLinked == Init => LinkedInv
BY InitType, InitSubs, InitWalk DEF LinkedInv, Init, CopyInv, LinkInv, NoJpg

LEMMA NextLinked == LinkedInv /\ [Next]_vars => LinkedInv'
BY NextType, NextSubs, NextWalk, NextCopy, NextLinks DEF LinkedInv, IInv

LEMMA LinkedSubs == LinkedInv => SubIfdsLinked
<1> SUFFICES ASSUME LinkedInv, pc = "written"
             PROVE  /\ \A k \in 1..4 : out.subs[k] # 0 <=> k <= Followed
                    /\ out.links =
                         {[at |-> Value(F, "IFD0", "SubIfds") + 12 + 4 * (k - 1),
                           value |-> out.subs[k] + out.shift] : k \in 1..Followed}
                    /\ Followed > 0 =>
                         Read("SubIfds") = Value(F, "IFD0", "SubIfds") + 12 + out.shift
  BY DEF SubIfdsLinked
<1>1. TypeOK /\ SubsBefore(5) /\ i <= Len(line)
  BY DEF LinkedInv, IInv, CopyInv, TypeOK
<1>2. Followed \in 0..4
  BY <1>1, FollowedPlace
<1>3. out.k = 5 /\ (Followed > 0 => out.shift = Added) /\ out.links = LinksBefore(5)
      /\ (Followed > 0 => Read("SubIfds") = InIfd("SubIfds") + (12 + Added))
  <2>1. out.k = 5 /\ out.shift = Shift /\ (Followed > 0 /\ out.k > 1 => ~Unnamed)
    BY DEF LinkedInv, LinkInv
  <2>2. Followed > 0 => ~Unnamed
    BY <2>1
  <2>3. Followed > 0 => out.shift = Added
    BY <2>1, <2>2 DEF Unnamed, Shift, Turns, Added
  <2> QED
    BY <2>1, <2>3 DEF LinkedInv, LinkInv
<1>4. {m \in 1..4 : m < 5 /\ m <= Followed} = 1..Followed
  BY <1>2
<1>5. out.links = {LinkTo(k) : k \in 1..Followed}
  BY <1>3, <1>4 DEF LinksBefore
<1>6. \A k \in 1..4 : out.subs[k] # 0 <=> k <= Followed
  BY <1>1, <1>2 DEF SubsBefore
<1>7. InIfd("SubIfds") \in Nat /\ Added \in Nat
  BY <1>1, FileFacts, ValueType, DirNames DEF InIfd, Added
<1>8. CASE Followed = 0
  <2>1. 1..Followed = {}
    BY <1>8
  <2> QED
    BY <1>5, <1>6, <1>8, <2>1
<1>9. CASE Followed > 0
  BY <1>3, <1>5, <1>6, <1>7, <1>9 DEF LinkTo, InIfd
<1> QED
  BY <1>2, <1>8, <1>9

LEMMA LinkedTags == LinkedInv => TagsLinked
<1> SUFFICES ASSUME LinkedInv, pc = "written"
             PROVE  /\ Read("Bits") = Value(F, "IFD0", "Bits") + 12
                                        + (IF Unnamed THEN 18 ELSE out.shift)
                    /\ Entries(F, "IFD0", "Software") # {} =>
                         ReadAt("Software") = out.softwareAt + out.shift
                    /\ \A k \in 1..Followed :
                         /\ out.x[k] = Value(F, "IFD0", "XResolution") + 12 + out.shift
                         /\ out.y[k] = Value(F, "IFD0", "YResolution") + 12 + out.shift
  BY DEF TagsLinked
<1>1. TypeOK /\ SubsBefore(5) /\ i <= Len(line) /\ out.softwareAt \in Nat
  BY JpgFacts DEF LinkedInv, IInv, CopyInv, TypeOK
<1>2. Followed \in 0..4
  BY <1>1, FollowedPlace
<1>3. /\ out.k = 5 /\ out.shift = Shift /\ Read("Bits") = InIfd("Bits") + 12 + Added
      /\ Entries(F, "IFD0", "Software") # {} => Read("Software") = out.softwareAt - 12
      /\ Followed > 0 /\ out.k > 1 => ~Unnamed
  BY DEF LinkedInv, LinkInv
<1>4. Shift \in Nat /\ Added = IF Unnamed THEN 18 ELSE Shift
  BY DEF Added, Shift, Unnamed, Turns
<1>5. \A k \in 1..Followed : /\ out.x[k] = InIfd("XResolution") + 12 + Added
                             /\ out.y[k] = InIfd("YResolution") + 12 + Added
  BY <1>1, <1>2 DEF SubsBefore
<1>6. Entries(F, "IFD0", "Software") # {} => ReadAt("Software") = out.softwareAt + out.shift
  BY <1>1, <1>3, <1>4 DEF ReadAt
<1>7. \A k \in 1..Followed : Added = out.shift
  BY <1>2, <1>3, <1>4
<1>8. Read("Bits") = InIfd("Bits") + 12 + (IF Unnamed THEN 18 ELSE out.shift)
  BY <1>3, <1>4
<1> QED
  BY <1>5, <1>6, <1>7, <1>8 DEF InIfd

\* The SubIFDs in the JPG are those the walk followed in the NEF at hand, each is
\* where its element of the array points, and the array is where IFD0 points, also
\* after the turn (output_sub_ifd, update_sub_ifd_offset): for every command line,
\* whatever earlier files left in ul_sub_ifd_array.
THEOREM LinksCorrect == Spec => []SubIfdsLinked
BY InitLinked, NextLinked, LinkedSubs, PTL DEF Spec

\* The bits per sample, the software and the resolutions of the SubIFDs are read
\* from where the writer put them in the JPG, whatever the byte orders of the NEF and
\* the build (update_header_length, output_sub_ifd); of a vertical image that a build
\* with ALLOW_ROTATE=0 leaves as it is, the bits per sample 18 bytes behind them.
THEOREM TagsCorrect == Spec => []TagsLinked
BY InitLinked, NextLinked, LinkedTags, PTL DEF Spec

-----------------------------------------------------------------------------
(* What is copied from the NEF.  Behind the entry for the maker note, for  *)
(* its directory or for an image, a global has what that entry gave it.    *)

Past == Writing \cup {"written"}

\* In the directory d, with a tag of it at hand or still to come.
Ahead(d, tag) == D = d /\ Top.n <= First(Entries(F, d, tag))

\* SubIFDs are followed at their entry of IFD0, and the maker note from Exif.
PlaceInv ==
  pc = "walk" =>
    /\ D \in SubNames => Followed > 0 /\ Base.n = Place("SubIfds")
    /\ D \in {"EXIF", "MAKER_NOTES", "THUMBNAIL"} => Base.n - 1 \in Entries(F, "IFD0", "Exif")
    /\ D = "THUMBNAIL" => g.old

ModelInv ==
  /\ pc = "walk" /\ Base.n > Place("Model") => g.old = F.old
  /\ pc \in Past => g.old = F.old

SoftwareInv ==
  Once(F, "IFD0", "Software") =>
    /\ pc = "walk" /\ Base.n > Place("Software") => g.software = F.software
    /\ pc \in Past => g.software = F.software

NoteRead == pc \in Past \/ (pc = "walk" /\ Base.n > Place("Exif") /\ ~Ahead("EXIF", "MakerNote"))
DirRead == NoteRead /\ (pc = "walk" => ~Ahead("MAKER_NOTES", "ThumbIfd"))
TagRead(tag) == DirRead /\ (pc = "walk" => ~Ahead("THUMBNAIL", tag))
SubRead(k, tag) == pc \in Past \/ (pc = "walk" /\ Reached >= k /\ ~Ahead(SubIfd[k], tag))

NoteInv ==
  NamesPreview(F) => /\ NoteRead => g.calc = NoteBase(F)
                     /\ DirRead => g.thumbIfd = F.at["THUMBNAIL"]

PreviewInv ==
  F.old /\ NamesPreview(F) /\ HasPreview(F) /\ Before(F, "Model", "Exif") =>
    /\ TagRead("ThumbOffset") => g.thumbOffset = Value(F, "THUMBNAIL", "ThumbOffset")
    /\ TagRead("ThumbLength") => g.thumbLength = Value(F, "THUMBNAIL", "ThumbLength")

SubImageInv ==
  \A k \in 1..4 :
    k <= Followed /\ ~F.old /\ OnlyImage(F, SubIfd[k]) /\ Before(F, "Model", "Exif") =>
      /\ SubRead(k, "ThumbOffset") => g.thumbOffset = Value(F, SubIfd[k], "ThumbOffset")
      /\ SubRead(k, "ThumbLength") => g.thumbLength = Value(F, SubIfd[k], "ThumbLength")

LEMMA EntryGlobals ==
  ASSUME TypeOK, EntryStep
  PROVE  /\ g'.old = IF Seen.tag = "Model" THEN F.old ELSE g.old
         /\ g'.software = IF Seen.tag = "Software" THEN F.software ELSE g.software
         /\ g'.calc = IF Seen.tag = "MakerNote" THEN Seen.value + 10 ELSE g.calc
         /\ Seen.tag = "ThumbIfd" => g'.thumbIfd = Seen.value + g.calc
         /\ Seen.tag # "ThumbIfd" /\ ~(Seen.tag = "ThumbOffset" /\ D = "SUB_IFD0") =>
              g'.thumbIfd = g.thumbIfd
         /\ g'.thumbOffset = IF Seen.tag = "ThumbOffset" THEN Seen.value ELSE g.thumbOffset
         /\ g'.thumbLength = IF Seen.tag = "ThumbLength" THEN Seen.value ELSE g.thumbLength
<1>1. g \in Globals
  BY DEF TypeOK
<1>2. CASE SetModel
  BY <1>1, <1>2 DEF SetModel, Globals, At
<1>3. CASE SetSoftware
  BY <1>1, <1>3 DEF SetSoftware, Globals, At
<1>4. CASE SetOrientation
  BY <1>1, <1>4 DEF SetOrientation, Globals, At
<1>5. CASE SetThumbnailLength
  BY <1>1, <1>5 DEF SetThumbnailLength, Globals, At
<1>6. CASE SetThumbnailOffset
  BY <1>1, <1>6 DEF SetThumbnailOffset, Globals, At
<1>7. CASE SetResolution
  BY <1>1, <1>7 DEF SetResolution, Globals, At
<1>8. CASE SetThumbIfd
  BY <1>1, <1>8 DEF SetThumbIfd, Globals, At
<1>9. CASE CallMakerNote
  BY <1>1, <1>9 DEF CallMakerNote, Globals, At
<1>10. CASE CallExif \/ PlainEntry
  BY <1>10 DEF CallExif, PlainEntry, At
<1> QED
  BY <1>2, <1>3, <1>4, <1>5, <1>6, <1>7, <1>8, <1>9, <1>10 DEF EntryStep

\* Every other step but Open leaves all that was read.
SameRead ==
  /\ g'.old = g.old /\ g'.software = g.software /\ g'.calc = g.calc
  /\ g'.thumbIfd = g.thumbIfd /\ g'.thumbOffset = g.thumbOffset
  /\ g'.thumbLength = g.thumbLength
Quiet ==
  SameRead /\ F' = F /\ stack' = stack /\ ((pc \in Past /\ pc' \in Past) \/ pc' = pc)

LEMMA QuietStep ==
  ASSUME TypeOK, [Next]_vars, pc' \in Past \cup {"walk"}
  PROVE  EntryStep \/ CallSubIfd \/ Return \/ Open \/ Quiet
<1>1. CASE NotOpened \/ NextFile
  BY <1>1 DEF NotOpened, NextFile, Past, Writing
<1>2. CASE StopStep
  BY <1>2, StopEnds DEF Past, Writing
<1>3. CASE WriterStep
  BY <1>3, WriterKeeps DEF Quiet, SameRead, Past
<1>4. CASE Finish
  <2>1. SameRead
    BY <1>4 DEF Finish, TypeOK, Globals, SameRead
  <2> QED
    BY <1>4, <2>1 DEF Finish, Quiet, F, Past, Writing
<1>5. CASE Stopped \/ UNCHANGED vars
  BY <1>5 DEF Stopped, vars, Quiet, SameRead, F
<1> QED
  BY <1>1, <1>2, <1>3, <1>4, <1>5 DEF Next, EntryStep, WriterStep, StopStep

LEMMA SameFile ==
  ASSUME TypeOK, OrderInv, ShapeInv, [Next]_vars, pc' \in Past \cup {"walk"}
  PROVE  F' = F
<1>1. CASE EntryStep
  BY <1>1, EntryMoves
<1>2. CASE CallSubIfd
  BY <1>2, SubIfdStack DEF F
<1>3. CASE Return \/ Open
  BY <1>3 DEF Return, Open, F
<1>4. CASE Quiet
  BY <1>4 DEF Quiet
<1> QED
  BY <1>1, <1>2, <1>3, <1>4, QuietStep

LEMMA QuietReads ==
  ASSUME Quiet
  PROVE  /\ Base' = Base /\ D' = D /\ Top' = Top /\ Followed' = Followed /\ Reached' = Reached
         /\ (NoteRead' <=> NoteRead) /\ (DirRead' <=> DirRead)
         /\ \A tag : TagRead(tag)' <=> TagRead(tag)
         /\ \A k, tag : SubRead(k, tag)' <=> SubRead(k, tag)
<1>1. F' = F /\ stack' = stack /\ ((pc \in Past /\ pc' \in Past) \/ pc' = pc) /\ "walk" \notin Past
  BY DEF Quiet, Past, Writing
<1>2. Base' = Base /\ D' = D /\ Top' = Top /\ Followed' = Followed /\ Reached' = Reached
      /\ Place("Exif")' = Place("Exif")
  BY <1>1 DEF Base, D, Top, Followed, Reached, Place, Entries
<1>3. \A d, tag : Ahead(d, tag)' <=> Ahead(d, tag)
  BY <1>1, <1>2 DEF Ahead, Entries
<1>4. NoteRead' <=> NoteRead
  BY <1>1, <1>2, <1>3 DEF NoteRead
<1>5. DirRead' <=> DirRead
  BY <1>1, <1>3, <1>4 DEF DirRead
<1>6. \A tag : TagRead(tag)' <=> TagRead(tag)
  BY <1>1, <1>3, <1>5 DEF TagRead
<1>7. \A k, tag : SubRead(k, tag)' <=> SubRead(k, tag)
  BY <1>1, <1>2, <1>3 DEF SubRead
<1> QED
  BY <1>2, <1>4, <1>5, <1>6, <1>7

LEMMA EntryTags ==
  ASSUME EntryStep
  PROVE  /\ Seen.tag = "MakerNote" => CallMakerNote
         /\ Seen.tag = "ThumbIfd" => SetThumbIfd
         /\ Seen.tag = "Exif" => CallExif
         /\ CallMakerNote => Seen.tag = "MakerNote"
         /\ SetThumbIfd => Seen.tag = "ThumbIfd"
         /\ CallExif => Seen.tag = "Exif"
BY DEF EntryStep, SetModel, SetSoftware, SetOrientation, SetThumbnailLength,
       SetThumbnailOffset, SetResolution, SetThumbIfd, CallExif, CallMakerNote, PlainEntry, At

LEMMA NextPlace ==
  ASSUME TypeOK, ShapeInv, OrderInv, PlaceInv, [Next]_vars
  PROVE  PlaceInv'
<1>1. CASE pc' # "walk"
  BY <1>1 DEF PlaceInv
<1>2. CASE Open
  <2>1. D' = "IFD0" /\ "IFD0" \notin SubNames
    BY <1>2 DEF Open, D, Top, NewFrame, SubNames
  <2> QED
    BY <2>1 DEF PlaceInv
<1>3. CASE EntryStep
  <2>1. /\ AtEntry /\ pc = "walk" /\ F' = F /\ i <= Len(line) /\ D \in Dirs
    BY <1>3, EntryMoves, TopFacts
  <2>2. /\ Followed' = Followed /\ Place("SubIfds")' = Place("SubIfds")
        /\ Entries(F, "IFD0", "Exif")' = Entries(F, "IFD0", "Exif")
    BY <2>1 DEF Followed, Place, Entries
  <2>3. /\ D \in SubNames => Followed > 0 /\ Base.n = Place("SubIfds")
        /\ D \in {"EXIF", "MAKER_NOTES", "THUMBNAIL"} => Base.n - 1 \in Entries(F, "IFD0", "Exif")
        /\ D = "THUMBNAIL" => g.old
    BY <2>1 DEF PlaceInv
  <2>4. \A d \in SubNames : d \notin {"IFD0", "EXIF", "MAKER_NOTES", "THUMBNAIL"}
    BY <2>1, OrderFacts
  <2>5. D # "IFD0" => Base'.n = Base.n /\ g'.old = g.old
    <3>1. D # "IFD0" => Seen.tag # "Model"
      BY <2>1, SeenHere DEF InPlace
    <3> QED
      BY <1>3, <3>1, EntryBase, EntryGlobals
  <2>6. CASE AdvanceOn
    <3>1. D' = D
      BY <2>6 DEF AdvanceOn
    <3> QED
      BY <2>1, <2>2, <2>3, <2>4, <2>5, <3>1 DEF PlaceInv
  <2>7. CASE EnterBy("THUMBNAIL") /\ g.old /\ D = "MAKER_NOTES"
    <3>1. D' = "THUMBNAIL"
      BY <2>7 DEF EnterBy
    <3> QED
      BY <2>1, <2>2, <2>3, <2>4, <2>5, <2>7, <3>1 DEF PlaceInv
  <2>8. CASE EnterBy("EXIF") /\ CallExif /\ D = "IFD0"
    <3>1. D' = "EXIF"
      BY <2>8 DEF EnterBy
    <3>2. Base = Top /\ Base'.n = Base.n + 1 /\ Base.n \in Nat
      BY <1>3, <2>1, <2>8, EntryBase, BaseFacts
    <3>3. Seen = F.dirs["IFD0"][Top.n] /\ Top.n \in 1..Len(F.dirs["IFD0"]) /\ Seen.tag = "Exif"
      BY <1>3, <2>1, <2>8, SeenHere, EntryTags
    <3>4. Base'.n - 1 \in Entries(F, "IFD0", "Exif")
      <4>1. Base'.n - 1 = Top.n
        BY <3>2
      <4> QED
        BY <3>3, <4>1 DEF Entries
    <3> QED
      BY <2>2, <2>4, <3>1, <3>4 DEF PlaceInv
  <2>9. CASE EnterBy("MAKER_NOTES") /\ D = "EXIF"
    <3>1. D' = "MAKER_NOTES"
      BY <2>9 DEF EnterBy
    <3> QED
      BY <2>1, <2>2, <2>3, <2>4, <2>5, <2>9, <3>1 DEF PlaceInv
  <2> QED
    BY <1>3, <2>6, <2>7, <2>8, <2>9, EntryMoves
<1>4. CASE CallSubIfd
  <2>1. /\ pc = "walk" /\ UNCHANGED <<line, rotates, i>> /\ D' \in SubNames /\ 0 < Followed
        /\ D = "IFD0" /\ Seen.tag = "SubIfds" /\ Seen = F.dirs[D][Top.n]
        /\ Top.n \in 1..Len(F.dirs[D])
    <3>1. ASSUME NEW m \in 1..4, m <= Followed
          PROVE  0 < Followed
      <4>1. Followed \in 0..4
        BY <1>4, SubIfdStack, FollowedPlace, TopFacts
      <4> QED
        BY <3>1, <4>1
    <3> QED
      BY <1>4, <3>1, SubIfdStack
  <2>2. F' = F /\ i <= Len(line) /\ Base = Top /\ Base'.n = Base.n
    BY <1>4, <2>1, SubIfdBase, TopFacts DEF F
  <2>3. Top.n = Place("SubIfds")
    BY <2>1, <2>2, FollowedPlace, IfdPlace
  <2>4. Followed' = Followed /\ Place("SubIfds")' = Place("SubIfds")
    BY <2>2 DEF Followed, Place, Entries
  <2>5. \A d \in SubNames : d \notin {"IFD0", "EXIF", "MAKER_NOTES", "THUMBNAIL"}
    BY <2>2, OrderFacts
  <2> QED
    BY <2>1, <2>2, <2>3, <2>4, <2>5 DEF PlaceInv
<1>5. CASE Return /\ pc' = "walk"
  <2>1. /\ pc = "walk" /\ UNCHANGED <<line, rotates, i>> /\ i <= Len(line) /\ D \in Dirs
        /\ Len(stack) \in Nat /\ Len(stack) >= 1 /\ Len(stack) # 1
        /\ (Len(stack) > 1 => D' = stack[2].dir)
    BY <1>5, ReturnStack, TopFacts
  <2>2. Len(stack) > 1
    BY <2>1
  <2>3. F' = F /\ Base' = Base /\ g'.old = g.old
    BY <1>5, <2>1, <2>2, ReturnBase, ReturnKeeps DEF F
  <2>4. Entries(F, "IFD0", "Exif")' = Entries(F, "IFD0", "Exif")
    BY <2>3 DEF Entries
  <2>5. \A d \in SubNames : d \notin {"IFD0", "EXIF", "MAKER_NOTES", "THUMBNAIL"}
    BY <2>1, OrderFacts
  <2>6. D # "IFD0"
    BY <2>1, <2>2, BaseFacts
  <2>7. CASE D \in SubNames \cup {"EXIF"}
    <3>1. D' = "IFD0"
      BY <2>1, <2>2, <2>7 DEF ShapeInv
    <3> QED
      BY <2>5, <3>1 DEF PlaceInv
  <2>8. CASE D \in {"MAKER_NOTES", "THUMBNAIL"}
    <3>1. D' \in {"EXIF", "MAKER_NOTES"}
      BY <2>1, <2>2, <2>8 DEF ShapeInv
    <3>2. Base.n - 1 \in Entries(F, "IFD0", "Exif")
      BY <2>1, <2>8 DEF PlaceInv
    <3> QED
      BY <2>3, <2>4, <2>5, <3>1, <3>2 DEF PlaceInv
  <2> QED
    BY <2>1, <2>6, <2>7, <2>8 DEF Dirs
<1>6. CASE Quiet /\ pc' = "walk"
  <2>1. /\ pc = "walk" /\ F' = F /\ g'.old = g.old /\ Base' = Base /\ D' = D
        /\ Followed' = Followed
    BY <1>6, QuietReads DEF Quiet, SameRead, Past, Writing
  <2>2. Entries(F, "IFD0", "Exif")' = Entries(F, "IFD0", "Exif")
        /\ Place("SubIfds")' = Place("SubIfds")
    BY <2>1 DEF Entries, Place
  <2> QED
    BY <2>1, <2>2 DEF PlaceInv
<1> QED
  BY <1>1, <1>2, <1>3, <1>4, <1>5, <1>6, QuietStep

\* How an entry of IFD0 is passed.
LEMMA EntryPast ==
  ASSUME TypeOK, ShapeInv, OrderInv, EntryStep, NEW tag, Once(F, "IFD0", tag)
  PROVE  /\ Base'.n > Place(tag) => Base.n > Place(tag) \/ (D = "IFD0" /\ Seen.tag = tag)
         /\ D = "IFD0" /\ Seen.tag = tag => ~(Base.n > Place(tag)) /\ Seen.value = InIfd(tag)
<1>1. AtEntry /\ pc = "walk" /\ i <= Len(line)
  BY EntryMoves, TopFacts
<1>2. /\ Place(tag) \in Nat /\ InIfd(tag) = F.dirs["IFD0"][Place(tag)].value
      /\ \A n \in 1..Len(F.dirs["IFD0"]) : F.dirs["IFD0"][n].tag = tag <=> n = Place(tag)
  BY <1>1, IfdPlace
<1>3. CASE D # "IFD0"
  BY <1>3, EntryBase
<1>4. CASE D = "IFD0"
  <2>1. Base = Top /\ Base'.n = Base.n + 1 /\ Base.n \in Nat
    BY <1>1, <1>4, EntryBase, BaseFacts
  <2>2. Seen = F.dirs["IFD0"][Top.n] /\ Top.n \in 1..Len(F.dirs["IFD0"])
    BY <1>1, <1>4, SeenHere
  <2>3. Seen.tag = tag <=> Base.n = Place(tag)
    BY <1>2, <2>1, <2>2
  <2>4. Seen.tag = tag => Seen.value = InIfd(tag)
    BY <1>2, <2>1, <2>2, <2>3
  <2> QED
    BY <1>2, <1>4, <2>1, <2>3, <2>4
<1> QED
  BY <1>3, <1>4

\* When IFD0 is at its end, all of it is passed.
LEMMA EndPast ==
  ASSUME TypeOK, ShapeInv, Return, pc' # "walk"
  PROVE  /\ pc = "walk" /\ D = "IFD0"
         /\ \A tag : Once(F, "IFD0", tag) => Base.n > Place(tag)
<1>1. Len(stack) = 1 /\ pc = "walk" /\ i <= Len(line)
  BY ReturnStack, TopFacts
<1>2. D = "IFD0" /\ Base.n > Len(F.dirs["IFD0"]) /\ Base.n \in Nat /\ Len(F.dirs["IFD0"]) \in Nat
  BY <1>1, ReturnBase, BaseFacts, FileFacts, FieldFacts, DirNames
<1> QED
  BY <1>1, <1>2, IfdPlace

LEMMA NextModel ==
  ASSUME TypeOK, ShapeInv, OrderInv, ModelInv, [Next]_vars
  PROVE  ModelInv'
<1>1. CASE pc' \notin Past \cup {"walk"}
  BY <1>1 DEF ModelInv
<1>2. CASE Open
  <2>1. pc' = "walk" /\ Base'.n = 1 /\ F' = F /\ i <= Len(line)
    BY <1>2 DEF Open, Base, NewFrame, F
  <2>2. Place("Model") \in Nat \ {0} /\ Place("Model")' = Place("Model")
    <3>1. Place("Model") \in 1..Len(F.dirs["IFD0"])
      BY <2>1, ResolutionPlaces, IfdPlace
    <3> QED
      BY <2>1, <3>1 DEF Place, Entries
  <2> QED
    BY <2>1, <2>2 DEF ModelInv, Past, Writing
<1>3. CASE EntryStep
  <2>1. AtEntry /\ pc = "walk" /\ pc' = "walk" /\ F' = F /\ i <= Len(line)
    BY <1>3, EntryMoves, TopFacts
  <2>2. Place("Model")' = Place("Model")
    BY <2>1 DEF Place, Entries
  <2>3. Seen.tag = "Model" => D = "IFD0"
    BY <2>1, SeenHere DEF InPlace
  <2>4. Base'.n > Place("Model") => g'.old = F.old
    BY <1>3, <2>1, <2>3, EntryPast, EntryGlobals, ResolutionPlaces DEF ModelInv
  <2> QED
    BY <2>1, <2>2, <2>4 DEF ModelInv, Past, Writing
<1>4. CASE CallSubIfd
  <2>1. pc = "walk" /\ pc' = "walk" /\ F' = F /\ Base'.n = Base.n /\ g'.old = g.old
    BY <1>4, SubIfdStack, SubIfdBase, SubIfdKeeps DEF F
  <2>2. Place("Model")' = Place("Model")
    BY <2>1 DEF Place, Entries
  <2> QED
    BY <2>1, <2>2 DEF ModelInv, Past, Writing
<1>5. CASE Return
  <2>1. pc = "walk" /\ F' = F /\ g'.old = g.old /\ i <= Len(line)
    BY <1>5, ReturnStack, ReturnKeeps, TopFacts DEF F
  <2>2. Place("Model")' = Place("Model")
    BY <2>1 DEF Place, Entries
  <2>3. CASE pc' = "walk"
    <3>1. Base' = Base
      BY <1>5, <2>3, ReturnBase, ReturnStack
    <3> QED
      BY <2>1, <2>2, <2>3, <3>1 DEF ModelInv, Past, Writing
  <2>4. CASE pc' # "walk"
    <3>1. g.old = F.old
      BY <1>5, <2>1, <2>4, EndPast, ResolutionPlaces DEF ModelInv
    <3> QED
      BY <2>1, <2>4, <3>1 DEF ModelInv
  <2> QED
    BY <2>3, <2>4
<1>6. CASE Quiet
  <2>1. F' = F /\ g'.old = g.old /\ Base' = Base /\ ((pc \in Past /\ pc' \in Past) \/ pc' = pc)
    BY <1>6, QuietReads DEF Quiet, SameRead
  <2>2. Place("Model")' = Place("Model")
    BY <2>1 DEF Place, Entries
  <2> QED
    BY <2>1, <2>2 DEF ModelInv, Past, Writing
<1> QED
  BY <1>1, <1>2, <1>3, <1>4, <1>5, <1>6, QuietStep

LEMMA NextSoftware ==
  ASSUME TypeOK, ShapeInv, OrderInv, SoftwareInv, [Next]_vars
  PROVE  SoftwareInv'
<1>1. CASE pc' \notin Past \cup {"walk"}
  BY <1>1 DEF SoftwareInv
<1>2. CASE pc' \in Past \cup {"walk"}
  <2>1. F' = F
    BY <1>2, SameFile
  <2>2. Place("Software")' = Place("Software") /\ Once(F, "IFD0", "Software")' = Once(F, "IFD0", "Software")
    BY <2>1 DEF Place, Entries, Once
  <2> SUFFICES ASSUME Once(F, "IFD0", "Software")
               PROVE  /\ pc' = "walk" /\ Base'.n > Place("Software") => g'.software = F.software
                      /\ pc' \in Past => g'.software = F.software
    BY <2>1, <2>2 DEF SoftwareInv
  <2>3. /\ pc = "walk" /\ Base.n > Place("Software") => g.software = F.software
        /\ pc \in Past => g.software = F.software
    BY DEF SoftwareInv
  <2>4. CASE Open
    <3>1. pc' = "walk" /\ Base'.n = 1 /\ i <= Len(line)
      BY <2>4 DEF Open, Base, NewFrame, F
    <3>2. Place("Software") \in Nat \ {0}
      BY <2>4, <3>1, IfdPlace DEF Open
    <3> QED
      BY <3>1, <3>2 DEF Past, Writing
  <2>5. CASE EntryStep
    <3>1. AtEntry /\ pc = "walk" /\ pc' = "walk"
      BY <2>5, EntryMoves
    <3>2. Seen.tag = "Software" => D = "IFD0"
      BY <3>1, SeenHere DEF InPlace
    <3>3. Base'.n > Place("Software") => g'.software = F.software
      BY <2>3, <2>5, <3>1, <3>2, EntryPast, EntryGlobals
    <3> QED
      BY <3>1, <3>3 DEF Past, Writing
  <2>6. CASE CallSubIfd
    <3>1. pc = "walk" /\ pc' = "walk" /\ Base'.n = Base.n /\ g'.software = g.software
      BY <2>6, SubIfdStack, SubIfdBase, SubIfdKeeps
    <3> QED
      BY <2>3, <3>1 DEF Past, Writing
  <2>7. CASE Return
    <3>1. pc = "walk" /\ g'.software = g.software
      BY <2>7, ReturnStack, ReturnKeeps
    <3>2. CASE pc' = "walk"
      <4>1. Base' = Base
        BY <2>7, <3>2, ReturnBase, ReturnStack
      <4> QED
        BY <2>3, <3>1, <3>2, <4>1 DEF Past, Writing
    <3>3. CASE pc' # "walk"
      <4>1. g.software = F.software
        BY <2>3, <2>7, <3>1, <3>3, EndPast
      <4> QED
        BY <3>1, <3>3, <4>1
    <3> QED
      BY <3>2, <3>3
  <2>8. CASE Quiet
    <3>1. g'.software = g.software /\ Base' = Base /\ ((pc \in Past /\ pc' \in Past) \/ pc' = pc)
      BY <2>8, QuietReads DEF Quiet, SameRead
    <3> QED
      BY <2>3, <3>1 DEF Past, Writing
  <2> QED
    BY <1>2, <2>4, <2>5, <2>6, <2>7, <2>8, QuietStep
<1> QED
  BY <1>1, <1>2

\* Tags at which a directory is left for another one, or never.
Leads(d, tag) ==
  \/ d = "EXIF" /\ tag = "MakerNote"
  \/ d = "MAKER_NOTES" /\ tag = "ThumbIfd"
  \/ d \in SubNames \cup {"THUMBNAIL"}

LEMMA EntryAhead ==
  ASSUME TypeOK, ShapeInv, OrderInv, EntryStep,
         NEW d \in Dirs, NEW tag, Leads(d, tag), Once(F, d, tag)
  PROVE  /\ Ahead(d, tag) /\ ~Ahead(d, tag)' => D = d /\ Seen.tag = tag
         /\ D = d /\ Seen.tag = tag => Seen.value = Value(F, d, tag)
         /\ D' = d /\ D # d => Ahead(d, tag)'
<1>1. /\ AtEntry /\ pc = "walk" /\ pc' = "walk" /\ F' = F /\ i <= Len(line) /\ F \in File
      /\ Top.n \in Nat
  BY EntryMoves, TopFacts
<1> DEFINE p == First(Entries(F, d, tag))
<1>2. /\ p \in 1..Len(F.dirs[d]) /\ p \in Nat /\ Value(F, d, tag) = F.dirs[d][p].value
      /\ \A n \in 1..Len(F.dirs[d]) : F.dirs[d][n].tag = tag <=> n = p
  BY <1>1, OncePlace
<1>3. p' = p
  BY <1>1 DEF Entries
<1>4. Top' = stack'[1]
  <2>1. stack' \in Seq(Frame) /\ stack' # <<>>
    BY <1>1, EntryType DEF TypeOK
  <2> QED
    BY <2>1, FramePop DEF Top
<1>5. D = d => /\ Seen = F.dirs[d][Top.n] /\ Top.n \in 1..Len(F.dirs[d])
               /\ (Seen.tag = tag <=> Top.n = p)
  BY <1>1, <1>2, SeenHere
<1>6. Ahead(d, tag) <=> D = d /\ Top.n <= p
  BY DEF Ahead
<1>7. Ahead(d, tag)' <=> D' = d /\ Top'.n <= p
  BY <1>3 DEF Ahead
<1> HIDE DEF p
<1>8. D = d /\ Seen.tag = tag => Seen.value = Value(F, d, tag)
  BY <1>2, <1>5
<1>9. CASE AdvanceOn
  <2>1. D' = D /\ Top'.n = Top.n + 1
    BY <1>4, <1>9 DEF AdvanceOn
  <2>2. Ahead(d, tag) /\ ~Ahead(d, tag)' => Top.n = p
    BY <1>1, <1>2, <1>6, <1>7, <2>1
  <2> QED
    BY <1>5, <1>6, <1>8, <2>1, <2>2
<1>10. ASSUME NEW e \in {"EXIF", "MAKER_NOTES", "THUMBNAIL"}, EnterBy(e),
              D = d => Seen.tag = tag
       PROVE  /\ Ahead(d, tag) /\ ~Ahead(d, tag)' => D = d /\ Seen.tag = tag
              /\ D = d /\ Seen.tag = tag => Seen.value = Value(F, d, tag)
              /\ D' = d /\ D # d => Ahead(d, tag)'
  <2>1. D' = e /\ Top'.n = 1
    BY <1>4, <1>10 DEF EnterBy
  <2>2. 1 <= p
    BY <1>2
  <2> QED
    BY <1>6, <1>7, <1>8, <1>10, <2>1, <2>2
<1>11. CASE EnterBy("THUMBNAIL") /\ SetThumbIfd /\ D = "MAKER_NOTES"
  <2>1. D = d => Seen.tag = tag
    BY <1>11, EntryTags DEF Leads, SubNames
  <2> QED
    BY <1>10, <1>11, <2>1
<1>12. CASE EnterBy("EXIF") /\ CallExif /\ D = "IFD0"
  <2>1. D # d
    BY <1>12 DEF Leads, SubNames
  <2> QED
    BY <1>10, <1>12, <2>1
<1>13. CASE EnterBy("MAKER_NOTES") /\ CallMakerNote /\ D = "EXIF"
  <2>1. D = d => Seen.tag = tag
    BY <1>13, EntryTags DEF Leads, SubNames
  <2> QED
    BY <1>10, <1>13, <2>1
<1> QED
  BY <1>9, <1>11, <1>12, <1>13, EntryMoves

LEMMA NoteReadBack ==
  ASSUME TypeOK, ShapeInv, OrderInv, EntryStep, NoteRead',
         Once(F, "IFD0", "Exif"), Once(F, "EXIF", "MakerNote")
  PROVE  /\ Base.n > Place("Exif")
         /\ NoteRead \/ (CallMakerNote /\ D = "EXIF" /\ Seen.tag = "MakerNote")
<1>1. AtEntry /\ pc = "walk" /\ pc' = "walk" /\ F' = F /\ i <= Len(line)
  BY EntryMoves, TopFacts
<1>2. Base'.n > Place("Exif") /\ ~Ahead("EXIF", "MakerNote")'
  BY <1>1 DEF NoteRead, Place, Entries, Past, Writing
<1>3. Base.n > Place("Exif")
  <2> SUFFICES ASSUME ~(Base.n > Place("Exif")) PROVE FALSE
    OBVIOUS
  <2>1. D = "IFD0" /\ Seen.tag = "Exif"
    BY <1>2, EntryPast
  <2>2. EnterBy("EXIF")
    BY <2>1, EntryMoves, EntryTags
  <2>3. D' = "EXIF"
    BY <2>2 DEF EnterBy
  <2>4. Leads("EXIF", "MakerNote") /\ "EXIF" \in Dirs
    BY DirNames DEF Leads
  <2> QED
    BY <1>2, <2>1, <2>3, <2>4, EntryAhead
<1>4. CASE Ahead("EXIF", "MakerNote")
  <2>1. Leads("EXIF", "MakerNote") /\ "EXIF" \in Dirs
    BY DirNames DEF Leads
  <2>2. D = "EXIF" /\ Seen.tag = "MakerNote"
    BY <1>2, <1>4, <2>1, EntryAhead
  <2> QED
    BY <1>3, <2>2, EntryTags
<1>5. CASE ~Ahead("EXIF", "MakerNote")
  BY <1>1, <1>3, <1>5 DEF NoteRead
<1> QED
  BY <1>4, <1>5

LEMMA DirReadBack ==
  ASSUME TypeOK, ShapeInv, OrderInv, EntryStep, DirRead', NamesPreview(F)
  PROVE  /\ Base.n > Place("Exif") /\ NoteRead /\ ~CallMakerNote
         /\ (DirRead /\ Seen.tag # "ThumbIfd") \/ (D = "MAKER_NOTES" /\ Seen.tag = "ThumbIfd")
<1>1. AtEntry /\ pc = "walk" /\ pc' = "walk" /\ F' = F
  BY EntryMoves
<1>2. NoteRead' /\ ~Ahead("MAKER_NOTES", "ThumbIfd")'
  BY <1>1 DEF DirRead
<1>3. /\ Once(F, "IFD0", "Exif") /\ Once(F, "EXIF", "MakerNote")
      /\ Once(F, "MAKER_NOTES", "ThumbIfd")
  BY DEF NamesPreview
<1>4. Leads("MAKER_NOTES", "ThumbIfd") /\ "MAKER_NOTES" \in Dirs
  BY DirNames DEF Leads
<1>5. ~CallMakerNote
  <2> SUFFICES ASSUME CallMakerNote PROVE FALSE
    OBVIOUS
  <2>1. EnterBy("MAKER_NOTES") /\ D = "EXIF"
    BY EntryMoves
  <2>2. D' = "MAKER_NOTES"
    BY <2>1 DEF EnterBy
  <2> QED
    BY <1>2, <1>3, <1>4, <2>1, <2>2, EntryAhead
<1>6. NoteRead /\ Base.n > Place("Exif")
  BY <1>2, <1>3, <1>5, NoteReadBack
<1>7. Seen.tag = "ThumbIfd" => D = "MAKER_NOTES"
  BY <1>1, SeenHere DEF InPlace
<1>8. CASE Ahead("MAKER_NOTES", "ThumbIfd")
  <2>1. D = "MAKER_NOTES" /\ Seen.tag = "ThumbIfd"
    BY <1>2, <1>3, <1>4, <1>8, EntryAhead
  <2> QED
    BY <1>5, <1>6, <2>1
<1>9. CASE ~Ahead("MAKER_NOTES", "ThumbIfd")
  BY <1>1, <1>5, <1>6, <1>7, <1>9 DEF DirRead
<1> QED
  BY <1>8, <1>9

\* Behind the entry for the EXIF directory there are no SubIFDs.
LEMMA NoSubNow ==
  ASSUME TypeOK, PlaceInv, pc = "walk", NamesPreview(F), Base.n > Place("Exif")
  PROVE  D \notin SubNames
<1> SUFFICES ASSUME D \in SubNames PROVE FALSE
  OBVIOUS
<1>1. i <= Len(line) /\ F \in File
  BY TopFacts
<1>2. Followed > 0 /\ Base.n = Place("SubIfds")
  BY DEF PlaceInv
<1>3. Place("SubIfds") < Place("Exif")
  <2>1. Once(F, "IFD0", "SubIfds") /\ Once(F, "IFD0", "Exif")
    BY <1>1, <1>2, FollowedPlace DEF NamesPreview
  <2>2. /\ Place("SubIfds") \in 1..Len(F.dirs["IFD0"]) /\ Place("Exif") \in 1..Len(F.dirs["IFD0"])
        /\ F.dirs["IFD0"][Place("SubIfds")].tag = "SubIfds" /\ F.dirs["IFD0"][Place("Exif")].tag = "Exif"
    BY <1>1, <2>1, IfdPlace
  <2>3. Place("SubIfds") \in Entries(F, "IFD0", "SubIfds") /\ Place("Exif") \in Entries(F, "IFD0", "Exif")
    BY <2>2 DEF Entries
  <2> QED
    BY <2>3 DEF NamesPreview, Before
<1>4. Place("SubIfds") \in Nat /\ Place("Exif") \in Nat
  BY <1>1, <1>2, FollowedPlace, IfdPlace DEF NamesPreview
<1> QED
  BY <1>2, <1>3, <1>4

LEMMA EntryNote ==
  ASSUME TypeOK, ShapeInv, OrderInv, PlaceInv, NoteInv, EntryStep
  PROVE  NoteInv'
<1>1. AtEntry /\ pc = "walk" /\ pc' = "walk" /\ F' = F /\ i <= Len(line)
  BY EntryMoves, TopFacts
<1>2. /\ NamesPreview(F)' <=> NamesPreview(F)
      /\ NoteBase(F)' = NoteBase(F) /\ F.at["THUMBNAIL"]' = F.at["THUMBNAIL"]
  BY <1>1 DEF NamesPreview, NoteBase, Once, Before, Entries, Value
<1> SUFFICES ASSUME NamesPreview(F)
             PROVE  /\ NoteRead' => g'.calc = NoteBase(F)
                    /\ DirRead' => g'.thumbIfd = F.at["THUMBNAIL"]
  BY <1>1, <1>2 DEF NoteInv
<1>3. /\ Once(F, "IFD0", "Exif") /\ Once(F, "EXIF", "MakerNote")
      /\ Once(F, "MAKER_NOTES", "ThumbIfd")
      /\ F.at["THUMBNAIL"] = Value(F, "MAKER_NOTES", "ThumbIfd") + NoteBase(F)
  BY DEF NamesPreview
<1>4. /\ NoteRead => g.calc = NoteBase(F)
      /\ DirRead => g.thumbIfd = F.at["THUMBNAIL"]
  BY DEF NoteInv
<1>5. ASSUME NoteRead'
      PROVE  g'.calc = NoteBase(F)
  <2>1. CASE Seen.tag = "MakerNote"
    <3>1. D = "EXIF" /\ Leads("EXIF", "MakerNote") /\ "EXIF" \in Dirs
      BY <1>1, <2>1, SeenHere, DirNames DEF InPlace, Leads
    <3>2. Seen.value = Value(F, "EXIF", "MakerNote")
      BY <1>3, <2>1, <3>1, EntryAhead
    <3> QED
      BY <2>1, <3>2, EntryGlobals DEF NoteBase
  <2>2. CASE Seen.tag # "MakerNote"
    BY <1>3, <1>4, <1>5, <2>2, NoteReadBack, EntryGlobals
  <2> QED
    BY <2>1, <2>2
<1>6. ASSUME DirRead'
      PROVE  g'.thumbIfd = F.at["THUMBNAIL"]
  <2>1. NoteRead /\ Base.n > Place("Exif")
    BY <1>6, DirReadBack
  <2>2. CASE D = "MAKER_NOTES" /\ Seen.tag = "ThumbIfd"
    <3>1. Leads("MAKER_NOTES", "ThumbIfd") /\ "MAKER_NOTES" \in Dirs
      BY DirNames DEF Leads
    <3>2. Seen.value = Value(F, "MAKER_NOTES", "ThumbIfd")
      BY <1>3, <2>2, <3>1, EntryAhead
    <3>3. g'.thumbIfd = Seen.value + g.calc
      BY <2>2, EntryGlobals
    <3> QED
      BY <1>3, <1>4, <2>1, <3>2, <3>3
  <2>3. CASE DirRead /\ Seen.tag # "ThumbIfd"
    <3>1. D # "SUB_IFD0"
      BY <1>1, <2>1, NoSubNow DEF SubNames
    <3> QED
      BY <1>4, <2>3, <3>1, EntryGlobals
  <2> QED
    BY <1>6, <2>2, <2>3, DirReadBack
<1> QED
  BY <1>5, <1>6

\* Where an image tag is when a directory is one of the file's own.
LEMMA NotThere ==
  ASSUME TypeOK, OrderInv, AtEntry, Seen.tag \in ImageTags, NEW S, NoImage(F, S)
  PROVE  D \notin S
<1> SUFFICES ASSUME D \in S PROVE FALSE
  OBVIOUS
<1>1. Seen = F.dirs[D][Top.n] /\ Top.n \in 1..Len(F.dirs[D])
  BY SeenHere
<1>2. Top.n \in Entries(F, D, Seen.tag)
  BY <1>1 DEF Entries
<1> QED
  BY <1>2 DEF NoImage

\* The model is known where Exif has been followed.
LEMMA ModelKnown ==
  ASSUME TypeOK, ModelInv, pc = "walk", Before(F, "Model", "Exif"), Base.n \in Nat,
         NEW m \in Entries(F, "IFD0", "Exif"), m < Base.n
  PROVE  g.old = F.old
<1>1. i <= Len(line)
  BY TopFacts
<1>2. Place("Model") \in Nat /\ Place("Model") \in Entries(F, "IFD0", "Model")
  <2>1. Place("Model") \in 1..Len(F.dirs["IFD0"])
        /\ F.dirs["IFD0"][Place("Model")].tag = "Model" /\ Place("Model") \in Nat
    BY <1>1, ResolutionPlaces, IfdPlace
  <2> QED
    BY <2>1 DEF Entries
<1>3. m \in Nat
  BY <1>1, FileFacts, FieldFacts, DirNames DEF Entries
<1>4. Place("Model") < m
  BY <1>2 DEF Before
<1>5. Base.n > Place("Model")
  BY <1>2, <1>3, <1>4
<1> QED
  BY <1>5 DEF ModelInv

LEMMA TagReadBack ==
  ASSUME TypeOK, ShapeInv, OrderInv, ModelInv, EntryStep, F.old, NamesPreview(F),
         Before(F, "Model", "Exif"), NEW tag, Once(F, "THUMBNAIL", tag), TagRead(tag)'
  PROVE  /\ Base.n > Place("Exif")
         /\ TagRead(tag) \/ (D = "THUMBNAIL" /\ Seen.tag = tag)
<1>1. AtEntry /\ pc = "walk" /\ pc' = "walk" /\ F' = F /\ i <= Len(line)
  BY EntryMoves, TopFacts
<1>2. DirRead' /\ ~Ahead("THUMBNAIL", tag)'
  BY <1>1 DEF TagRead
<1>3. Base.n > Place("Exif")
  BY <1>2, DirReadBack
<1>4. Leads("THUMBNAIL", tag) /\ "THUMBNAIL" \in Dirs
  BY DirNames DEF Leads
<1>5. g.old
  <2>1. Place("Exif") \in Entries(F, "IFD0", "Exif") /\ Place("Exif") \in Nat
    <3>1. Place("Exif") \in 1..Len(F.dirs["IFD0"])
          /\ F.dirs["IFD0"][Place("Exif")].tag = "Exif" /\ Place("Exif") \in Nat
      BY <1>1, IfdPlace DEF NamesPreview
    <3> QED
      BY <3>1 DEF Entries
  <2>2. Base.n \in Nat /\ Place("Exif") < Base.n
    BY <1>1, <1>3, <2>1, BaseFacts
  <2> QED
    BY <1>1, <2>1, <2>2, ModelKnown
<1>6. DirRead /\ Seen.tag # "ThumbIfd"
  <2> SUFFICES ASSUME D = "MAKER_NOTES" /\ Seen.tag = "ThumbIfd" PROVE FALSE
    BY <1>2, DirReadBack
  <2>1. stack' = <<NewFrame("THUMBNAIL")>> \o Next1
    BY <1>5, EntryTags DEF SetThumbIfd, Call
  <2>2. D' = "THUMBNAIL"
    BY <1>1, <2>1, EnterStack, DirNames
  <2> QED
    BY <1>2, <1>4, <2>2, EntryAhead
<1>7. CASE Ahead("THUMBNAIL", tag)
  BY <1>2, <1>3, <1>4, <1>7, EntryAhead
<1>8. CASE ~Ahead("THUMBNAIL", tag)
  BY <1>3, <1>6, <1>8 DEF TagRead
<1> QED
  BY <1>7, <1>8

LEMMA EntryPreview ==
  ASSUME TypeOK, ShapeInv, OrderInv, PlaceInv, ModelInv, PreviewInv, EntryStep
  PROVE  PreviewInv'
<1>1. AtEntry /\ pc = "walk" /\ pc' = "walk" /\ F' = F /\ i <= Len(line) /\ D \in Dirs
  BY EntryMoves, TopFacts
<1> SUFFICES ASSUME F.old, NamesPreview(F), HasPreview(F), Before(F, "Model", "Exif")
             PROVE  /\ TagRead("ThumbOffset")' =>
                         g'.thumbOffset = Value(F, "THUMBNAIL", "ThumbOffset")
                    /\ TagRead("ThumbLength")' =>
                         g'.thumbLength = Value(F, "THUMBNAIL", "ThumbLength")
  <2>1. /\ F'.old = F.old /\ (NamesPreview(F)' <=> NamesPreview(F))
        /\ (HasPreview(F)' <=> HasPreview(F))
        /\ (Before(F, "Model", "Exif")' <=> Before(F, "Model", "Exif"))
        /\ \A tag : Value(F, "THUMBNAIL", tag)' = Value(F, "THUMBNAIL", tag)
    BY <1>1 DEF NamesPreview, HasPreview, HasImage, NoImage, NoteBase, Once, Before, Entries, Value
  <2> QED
    BY <2>1 DEF PreviewInv
<1>2. Once(F, "THUMBNAIL", "ThumbOffset") /\ Once(F, "THUMBNAIL", "ThumbLength")
      /\ NoImage(F, {"IFD0", "EXIF", "MAKER_NOTES"})
  BY DEF HasPreview, HasImage, ImageTags
<1>3. ASSUME NEW tag \in ImageTags, TagRead(tag)', Once(F, "THUMBNAIL", tag)
      PROVE  IF Seen.tag = tag THEN Seen.value = Value(F, "THUMBNAIL", tag) ELSE TagRead(tag)
  <2>1. Base.n > Place("Exif") /\ (TagRead(tag) \/ (D = "THUMBNAIL" /\ Seen.tag = tag))
    BY <1>3, TagReadBack
  <2>2. CASE Seen.tag = tag
    <3>1. D \notin {"IFD0", "EXIF", "MAKER_NOTES"} /\ D \notin SubNames
      BY <1>1, <1>2, <2>1, <2>2, NotThere, NoSubNow
    <3>2. D = "THUMBNAIL" /\ Leads("THUMBNAIL", tag) /\ "THUMBNAIL" \in Dirs
      BY <1>1, <3>1 DEF Dirs, Leads
    <3> QED
      BY <1>3, <2>2, <3>2, EntryAhead
  <2> QED
    BY <2>1, <2>2
<1>4. ASSUME TagRead("ThumbOffset")'
      PROVE  g'.thumbOffset = Value(F, "THUMBNAIL", "ThumbOffset")
  <2>1. IF Seen.tag = "ThumbOffset" THEN Seen.value = Value(F, "THUMBNAIL", "ThumbOffset")
        ELSE TagRead("ThumbOffset")
    BY <1>2, <1>3, <1>4 DEF ImageTags
  <2> QED
    BY <2>1, EntryGlobals DEF PreviewInv
<1>5. ASSUME TagRead("ThumbLength")'
      PROVE  g'.thumbLength = Value(F, "THUMBNAIL", "ThumbLength")
  <2>1. IF Seen.tag = "ThumbLength" THEN Seen.value = Value(F, "THUMBNAIL", "ThumbLength")
        ELSE TagRead("ThumbLength")
    BY <1>2, <1>3, <1>5 DEF ImageTags
  <2> QED
    BY <2>1, EntryGlobals DEF PreviewInv
<1> QED
  BY <1>4, <1>5

LEMMA EntrySubImage ==
  ASSUME TypeOK, ShapeInv, OrderInv, PlaceInv, ModelInv, SubImageInv, EntryStep
  PROVE  SubImageInv'
<1>1. AtEntry /\ pc = "walk" /\ pc' = "walk" /\ F' = F /\ i <= Len(line) /\ D \in Dirs
  BY EntryMoves, TopFacts
<1>2. /\ F'.old = F.old /\ Followed' = Followed
      /\ \A k : OnlyImage(F, SubIfd[k])' <=> OnlyImage(F, SubIfd[k])
      /\ (Before(F, "Model", "Exif")' <=> Before(F, "Model", "Exif"))
      /\ \A k, tag : Value(F, SubIfd[k], tag)' = Value(F, SubIfd[k], tag)
  BY <1>1 DEF Followed, OnlyImage, HasImage, NoImage, Once, Before, Entries, Value
<1> SUFFICES ASSUME NEW k \in 1..4, k <= Followed, ~F.old, OnlyImage(F, SubIfd[k]),
                    Before(F, "Model", "Exif")
             PROVE  /\ SubRead(k, "ThumbOffset")' =>
                         g'.thumbOffset = Value(F, SubIfd[k], "ThumbOffset")
                    /\ SubRead(k, "ThumbLength")' =>
                         g'.thumbLength = Value(F, SubIfd[k], "ThumbLength")
  BY <1>2 DEF SubImageInv
<1> DEFINE d == SubIfd[k]
<1>3. d \in SubNames /\ d \in Dirs /\ Once(F, d, "ThumbOffset") /\ Once(F, d, "ThumbLength")
      /\ NoImage(F, Dirs \ {d, "THUMBNAIL"})
  BY DirNames DEF OnlyImage, HasImage, ImageTags
<1>4. D # "THUMBNAIL"
  <2> SUFFICES ASSUME D = "THUMBNAIL" PROVE FALSE
    OBVIOUS
  <2>1. g.old /\ Base.n - 1 \in Entries(F, "IFD0", "Exif") /\ Base.n \in Nat
    BY <1>1, BaseFacts DEF PlaceInv
  <2>2. Base.n - 1 < Base.n
    BY <2>1
  <2>3. g.old = F.old
    BY <1>1, <2>1, <2>2, ModelKnown
  <2> QED
    BY <2>1, <2>3
<1>5. /\ SubRead(k, "ThumbOffset") => g.thumbOffset = Value(F, SubIfd[k], "ThumbOffset")
      /\ SubRead(k, "ThumbLength") => g.thumbLength = Value(F, SubIfd[k], "ThumbLength")
  BY DEF SubImageInv
<1>6. ASSUME NEW tag \in ImageTags, SubRead(k, tag)', Once(F, d, tag)
      PROVE  IF Seen.tag = tag THEN Seen.value = Value(F, d, tag) ELSE SubRead(k, tag)
  <2>1. Leads(d, tag)
    BY <1>3 DEF Leads
  <2>2. Reached >= k /\ ~Ahead(d, tag)'
    BY <1>1, <1>6, EntryReached DEF SubRead, Past, Writing
  <2>3. CASE Seen.tag = tag
    <3>1. D \notin Dirs \ {d, "THUMBNAIL"}
      BY <1>1, <1>3, <2>3, NotThere
    <3>2. D = d
      BY <1>1, <1>4, <3>1
    <3> HIDE DEF d
    <3> QED
      BY <1>3, <1>6, <2>1, <2>3, <3>2, EntryAhead
  <2>4. CASE Seen.tag # tag
    <3>1. ~Ahead(d, tag)
      <4> HIDE DEF d
      <4> QED
        BY <1>3, <1>6, <2>1, <2>2, <2>4, EntryAhead
    <3> QED
      BY <1>1, <2>2, <2>4, <3>1 DEF SubRead
  <2> QED
    BY <2>3, <2>4
<1>7. ASSUME SubRead(k, "ThumbOffset")'
      PROVE  g'.thumbOffset = Value(F, SubIfd[k], "ThumbOffset")
  <2>1. IF Seen.tag = "ThumbOffset" THEN Seen.value = Value(F, d, "ThumbOffset")
        ELSE SubRead(k, "ThumbOffset")
    BY <1>3, <1>6, <1>7 DEF ImageTags
  <2> QED
    BY <1>5, <2>1, EntryGlobals
<1>8. ASSUME SubRead(k, "ThumbLength")'
      PROVE  g'.thumbLength = Value(F, SubIfd[k], "ThumbLength")
  <2>1. IF Seen.tag = "ThumbLength" THEN Seen.value = Value(F, d, "ThumbLength")
        ELSE SubRead(k, "ThumbLength")
    BY <1>3, <1>6, <1>8 DEF ImageTags
  <2> QED
    BY <1>5, <2>1, EntryGlobals
<1> QED
  BY <1>7, <1>8

\* A return passes nothing: the directory it leaves is at its end.
LEMMA ReturnAhead ==
  ASSUME TypeOK, Return, NEW d \in Dirs, NEW tag, Once(F, d, tag)
  PROVE  ~Ahead(d, tag)
<1>1. /\ pc = "walk" /\ Top.n > Len(F.dirs[D]) /\ F \in File /\ Top.n \in Nat
      /\ \A e \in Dirs : Len(F.dirs[e]) \in Nat
  BY ReturnStack, TopFacts, FieldFacts
<1>2. First(Entries(F, d, tag)) \in 1..Len(F.dirs[d])
  BY <1>1, OncePlace
<1> QED
  BY <1>1, <1>2 DEF Ahead

LEMMA ReturnReads ==
  ASSUME TypeOK, ShapeInv, OrderInv, Return
  PROVE  /\ pc = "walk" /\ F' = F /\ Followed' = Followed
         /\ NamesPreview(F) => /\ NoteRead' => NoteRead
                               /\ DirRead' => DirRead
                               /\ \A tag : Once(F, "THUMBNAIL", tag) =>
                                    (TagRead(tag)' => TagRead(tag))
         /\ \A k \in 1..4 : \A tag : k <= Followed /\ Once(F, SubIfd[k], tag) =>
              (SubRead(k, tag)' => SubRead(k, tag))
<1>1. /\ pc = "walk" /\ F' = F /\ i <= Len(line) /\ Followed' = Followed
      /\ Place("SubIfds")' = Place("SubIfds") /\ Place("Exif")' = Place("Exif")
      /\ pc' \in {"walk", "end"}
  BY ReturnStack, TopFacts DEF F, Followed, Place, Entries, Return
<1>2. pc' = "walk" => Base' = Base
  BY ReturnStack, ReturnBase
<1>3. ASSUME NamesPreview(F), NoteRead'
      PROVE  NoteRead
  <2>1. Once(F, "IFD0", "Exif") /\ Once(F, "EXIF", "MakerNote")
    BY <1>3 DEF NamesPreview
  <2>2. Base.n > Place("Exif")
    <3>1. CASE pc' = "walk"
      BY <1>1, <1>2, <1>3, <3>1 DEF NoteRead, Past, Writing
    <3>2. CASE pc' # "walk"
      BY <2>1, <3>2, EndPast
    <3> QED
      BY <3>1, <3>2
  <2> QED
    BY <1>1, <2>1, <2>2, ReturnAhead, DirNames DEF NoteRead
<1>4. ASSUME NamesPreview(F), DirRead'
      PROVE  DirRead
  <2>1. Once(F, "MAKER_NOTES", "ThumbIfd") /\ NoteRead
    BY <1>3, <1>4 DEF NamesPreview, DirRead
  <2> QED
    BY <2>1, ReturnAhead, DirNames DEF DirRead
<1>5. ASSUME NamesPreview(F), NEW tag, Once(F, "THUMBNAIL", tag), TagRead(tag)'
      PROVE  TagRead(tag)
  <2>1. DirRead
    BY <1>4, <1>5 DEF TagRead
  <2> QED
    BY <1>5, <2>1, ReturnAhead, DirNames DEF TagRead
<1>6. ASSUME NEW k \in 1..4, NEW tag, k <= Followed, Once(F, SubIfd[k], tag), SubRead(k, tag)'
      PROVE  SubRead(k, tag)
  <2>1. ~Ahead(SubIfd[k], tag)
    BY <1>6, ReturnAhead, DirNames
  <2>2. Reached >= k
    <3>1. CASE pc' = "walk"
      <4>1. Reached' = Reached
        BY <1>1, <1>2, <3>1 DEF Reached
      <4> QED
        BY <1>6, <3>1, <4>1 DEF SubRead, Past, Writing
    <3>2. CASE pc' # "walk"
      <4>1. Followed > 0 => Base.n > Place("SubIfds")
        BY <1>1, <3>2, EndPast, FollowedPlace
      <4>2. Followed \in 0..4 /\ Base.n \in Nat /\ (Followed > 0 => Place("SubIfds") \in Nat)
        BY <1>1, FollowedPlace, BaseFacts
      <4>3. Reached = Followed
        BY <4>1, <4>2 DEF Reached
      <4> QED
        BY <1>6, <4>2, <4>3
    <3> QED
      BY <3>1, <3>2
  <2> QED
    BY <1>1, <2>1, <2>2 DEF SubRead
<1> QED
  BY <1>1, <1>3, <1>4, <1>5, <1>6

LEMMA SubIfdReads ==
  ASSUME TypeOK, ShapeInv, CallSubIfd
  PROVE  /\ pc = "walk" /\ F' = F /\ Followed' = Followed
         /\ NamesPreview(F) => ~NoteRead' /\ ~DirRead' /\ \A tag : ~TagRead(tag)'
         /\ \A k \in 1..4 : \A tag : Once(F, SubIfd[k], tag) => (SubRead(k, tag)' => SubRead(k, tag))
<1> DEFINE m == Top.sub + 1
<1>1. /\ pc = "walk" /\ UNCHANGED <<line, rotates, i, pc, out>> /\ m \in 1..4 /\ m <= Followed
      /\ D = "IFD0" /\ D' = SubIfd[m] /\ SubIfd[m] \in SubNames
      /\ Seen.tag = "SubIfds" /\ Seen = F.dirs[D][Top.n] /\ Top.n \in 1..Len(F.dirs[D])
  BY SubIfdStack
<1>2. F' = F /\ i <= Len(line) /\ F \in File
  BY <1>1, TopFacts DEF F
<1>3. /\ Followed' = Followed /\ Place("SubIfds")' = Place("SubIfds")
      /\ Place("Exif")' = Place("Exif")
  BY <1>2 DEF Followed, Place, Entries
<1>4. /\ Base = Top /\ Base'.n = Base.n /\ Base'.sub = Base.sub + 1 /\ Base.n \in Nat
      /\ Base.sub \in 0..4
  BY <1>1, SubIfdBase, BaseFacts
<1>5. Followed > 0 /\ Once(F, "IFD0", "SubIfds")
  BY <1>1, <1>2, FollowedPlace
<1>6. Top.n = Place("SubIfds") /\ Place("SubIfds") \in Nat
  BY <1>1, <1>2, <1>5, IfdPlace
<1>7. Reached' = m /\ Reached = m - 1
  BY <1>3, <1>4, <1>5, <1>6 DEF Reached
<1>8. ASSUME NamesPreview(F)
      PROVE  ~NoteRead'
  <2>1. Place("Exif") \in Nat /\ Place("Exif") \in 1..Len(F.dirs["IFD0"])
        /\ F.dirs["IFD0"][Place("Exif")].tag = "Exif"
    BY <1>2, <1>8, IfdPlace DEF NamesPreview
  <2>2. Top.n \in Entries(F, "IFD0", "SubIfds") /\ Place("Exif") \in Entries(F, "IFD0", "Exif")
    BY <1>1, <2>1 DEF Entries
  <2>3. Top.n < Place("Exif")
    BY <1>8, <2>2 DEF NamesPreview, Before
  <2> QED
    BY <1>1, <1>3, <1>4, <2>1, <2>3 DEF NoteRead, Past, Writing
<1>9. ASSUME NEW k \in 1..4, NEW tag, Once(F, SubIfd[k], tag), SubRead(k, tag)'
      PROVE  SubRead(k, tag)
  <2>1. m >= k /\ ~Ahead(SubIfd[k], tag)'
    BY <1>1, <1>7, <1>9 DEF SubRead, Past, Writing
  <2>2. First(Entries(F, SubIfd[k], tag)) >= 1
    BY <1>2, <1>9, OncePlace, DirNames
  <2>3. Top'.n = 1
    <3>1. Top' = NewFrame(SubIfd[m])
      <4>1. Head(stack') = NewFrame(SubIfd[m])
        <5>1. /\ NewFrame(SubIfd[m]) \in Frame /\ Tail(stack) \in Seq(Frame)
              /\ [Top EXCEPT !.sub = m] \in Frame
          <6>1. m \in 0..4 /\ SubIfd[m] \in Dirs /\ Top \in Frame
            BY <1>1, TopFacts, DirNames
          <6> HIDE DEF m
          <6> QED
            BY <1>1, <6>1, TopFacts, FrameUpdate
        <5>2. stack' = <<NewFrame(SubIfd[m]), [Top EXCEPT !.sub = m]>> \o Tail(stack)
          BY DEF CallSubIfd
        <5> DEFINE x == NewFrame(SubIfd[m])
                   y == [Top EXCEPT !.sub = m]
                   t == Tail(stack)
        <5>3. x \in Frame /\ y \in Frame /\ t \in Seq(Frame) /\ stack' = <<x, y>> \o t
          BY <5>1, <5>2
        <5> HIDE DEF x, y, t
        <5>4. Head(stack') = x
          BY <5>3, FramePair
        <5> QED
          BY <5>4 DEF x
      <4> QED
        BY <4>1 DEF Top
    <3> QED
      BY <3>1 DEF NewFrame
  <2>4. k # m
    <3> SUFFICES ASSUME k = m PROVE FALSE
      OBVIOUS
    <3>1. D' = SubIfd[k] /\ Entries(F, SubIfd[k], tag)' = Entries(F, SubIfd[k], tag)
      BY <1>1, <1>2 DEF Entries
    <3> HIDE DEF m
    <3>2. Ahead(SubIfd[k], tag)'
      BY <2>2, <2>3, <3>1 DEF Ahead
    <3> QED
      BY <2>1, <3>2
  <2>5. Reached >= k
    <3> HIDE DEF m
    <3> QED
      BY <1>1, <1>7, <2>1, <2>4
  <2>6. D # SubIfd[k]
    BY <1>1, DirNames DEF SubNames
  <2> QED
    BY <1>1, <2>5, <2>6 DEF SubRead, Ahead
<1> QED
  BY <1>1, <1>2, <1>3, <1>8, <1>9 DEF DirRead, TagRead

LEMMA OpenReads ==
  ASSUME TypeOK, Open
  PROVE  /\ F' = F /\ Followed' = Followed
         /\ NamesPreview(F) => ~NoteRead' /\ ~DirRead' /\ \A tag : ~TagRead(tag)'
         /\ \A k \in 1..4 : \A tag : ~SubRead(k, tag)'
<1>1. /\ pc' = "walk" /\ Len(stack') = 1 /\ F' = F /\ i <= Len(line)
      /\ stack'[1].n = 1 /\ stack'[1].sub = 0
  BY DEF Open, NewFrame, F
<1>2. /\ Followed' = Followed /\ Place("SubIfds")' = Place("SubIfds")
      /\ Place("Exif")' = Place("Exif")
  BY <1>1 DEF Followed, Place, Entries
<1>3. Reached' = 0
  BY <1>1, <1>2, FollowedPlace DEF Reached, Base
<1>4. Base'.n = 1
  BY <1>1 DEF Base
<1>5. NamesPreview(F) => ~NoteRead'
  <2>1. NamesPreview(F) => Place("Exif") \in 1..Len(F.dirs["IFD0"]) /\ Place("Exif") \in Nat
    BY <1>1, IfdPlace DEF NamesPreview
  <2> QED
    BY <1>1, <1>2, <1>4, <2>1 DEF NoteRead, Past, Writing
<1>6. \A k \in 1..4 : \A tag : ~SubRead(k, tag)'
  BY <1>1, <1>3 DEF SubRead, Past, Writing
<1> QED
  BY <1>1, <1>2, <1>5, <1>6 DEF DirRead, TagRead

\* What these invariants say of the file does not change with it.
LEMMA FileReads ==
  ASSUME F' = F
  PROVE  /\ F'.old = F.old /\ Followed' = Followed
         /\ (NamesPreview(F)' <=> NamesPreview(F)) /\ NoteBase(F)' = NoteBase(F)
         /\ (HasPreview(F)' <=> HasPreview(F))
         /\ (Before(F, "Model", "Exif")' <=> Before(F, "Model", "Exif"))
         /\ \A tag : Value(F, "THUMBNAIL", tag)' = Value(F, "THUMBNAIL", tag)
         /\ \A k : OnlyImage(F, SubIfd[k])' <=> OnlyImage(F, SubIfd[k])
         /\ \A k, tag : Value(F, SubIfd[k], tag)' = Value(F, SubIfd[k], tag)
BY DEF Followed, NamesPreview, HasPreview, OnlyImage, HasImage, NoImage, NoteBase, Once, Before,
       Entries, Value

ReadInv == NoteInv /\ PreviewInv /\ SubImageInv

LEMMA NextRead ==
  ASSUME TypeOK, ShapeInv, OrderInv, PlaceInv, ModelInv, ReadInv, [Next]_vars
  PROVE  ReadInv'
<1>1. CASE pc' \notin Past \cup {"walk"}
  BY <1>1 DEF ReadInv, NoteInv, PreviewInv, SubImageInv, NoteRead, DirRead, TagRead, SubRead
<1>2. CASE EntryStep
  BY <1>2, EntryNote, EntryPreview, EntrySubImage DEF ReadInv
<1>3. CASE (Open \/ CallSubIfd \/ Return \/ Quiet) /\ pc' \in Past \cup {"walk"}
  <2>1. F' = F
    BY <1>3, SameFile
  <2>2. NamesPreview(F) => /\ NoteRead' => NoteRead /\ SameRead
                           /\ DirRead' => DirRead /\ SameRead
                           /\ \A tag : Once(F, "THUMBNAIL", tag) =>
                                (TagRead(tag)' => TagRead(tag) /\ SameRead)
    <3>1. CASE Open
      BY <3>1, OpenReads
    <3>2. CASE CallSubIfd
      BY <3>2, SubIfdReads
    <3>3. CASE Return
      BY <3>3, ReturnReads, ReturnKeeps DEF SameRead
    <3>4. CASE Quiet
      BY <3>4, QuietReads DEF Quiet
    <3> QED
      BY <1>3, <3>1, <3>2, <3>3, <3>4
  <2>3. \A k \in 1..4 : \A tag : k <= Followed /\ Once(F, SubIfd[k], tag) =>
          (SubRead(k, tag)' => SubRead(k, tag) /\ SameRead)
    <3>1. CASE Open
      BY <3>1, OpenReads
    <3>2. CASE CallSubIfd
      BY <3>2, SubIfdReads, SubIfdKeeps DEF SameRead
    <3>3. CASE Return
      BY <3>3, ReturnReads, ReturnKeeps DEF SameRead
    <3>4. CASE Quiet
      BY <3>4, QuietReads DEF Quiet
    <3> QED
      BY <1>3, <3>1, <3>2, <3>3, <3>4
  <2>4. NoteInv'
    <3> SUFFICES ASSUME NamesPreview(F)
                 PROVE  /\ NoteRead' => g'.calc = NoteBase(F)
                        /\ DirRead' => g'.thumbIfd = F.at["THUMBNAIL"]
      BY <2>1, FileReads DEF NoteInv
    <3> QED
      BY <2>2 DEF ReadInv, NoteInv, SameRead
  <2>5. PreviewInv'
    <3> SUFFICES ASSUME F.old, NamesPreview(F), HasPreview(F), Before(F, "Model", "Exif")
                 PROVE  /\ TagRead("ThumbOffset")' =>
                             g'.thumbOffset = Value(F, "THUMBNAIL", "ThumbOffset")
                        /\ TagRead("ThumbLength")' =>
                             g'.thumbLength = Value(F, "THUMBNAIL", "ThumbLength")
      BY <2>1, FileReads DEF PreviewInv
    <3>1. Once(F, "THUMBNAIL", "ThumbOffset") /\ Once(F, "THUMBNAIL", "ThumbLength")
      BY DEF HasPreview, HasImage, ImageTags
    <3> QED
      BY <2>2, <3>1 DEF ReadInv, PreviewInv, SameRead
  <2>6. SubImageInv'
    <3> SUFFICES ASSUME NEW k \in 1..4, k <= Followed, ~F.old, OnlyImage(F, SubIfd[k]),
                        Before(F, "Model", "Exif")
                 PROVE  /\ SubRead(k, "ThumbOffset")' =>
                             g'.thumbOffset = Value(F, SubIfd[k], "ThumbOffset")
                        /\ SubRead(k, "ThumbLength")' =>
                             g'.thumbLength = Value(F, SubIfd[k], "ThumbLength")
      BY <2>1, FileReads DEF SubImageInv
    <3>1. Once(F, SubIfd[k], "ThumbOffset") /\ Once(F, SubIfd[k], "ThumbLength")
      BY DEF OnlyImage, HasImage, ImageTags
    <3> QED
      BY <2>3, <3>1 DEF ReadInv, SubImageInv, SameRead
  <2> QED
    BY <2>4, <2>5, <2>6 DEF ReadInv
<1> QED
  BY <1>1, <1>2, <1>3, QuietStep

\* The ranges the writer chose, until the JPG is finished.
Late == {"subs", "image", "length", "links", "written"}

Agreeing == NamesPreview(F) /\ Once(F, "IFD0", "Software") /\ F.order["IFD0"] = F.order["MAKER_NOTES"]

OwnEnd ==
  \/ F.software = "camera" /\ out.end = Value(F, "THUMBNAIL", "ThumbOffset") + NoteBase(F)
  \/ F.software = "Capture" /\ out.end = F.at["THUMBNAIL"] /\ out.end <= 61439
  \/ F.software = "Capture" /\ out.end = 61439 /\ out.end < F.at["THUMBNAIL"]

RangeInv ==
  /\ pc \in Late => out.end > 8
  /\ pc \in Late \cup {"header"} /\ Agreeing => out.end = 0 \/ OwnEnd
  /\ pc \in {"length", "links", "written"} =>
       out.image = [from |-> ImageFrom, length |-> g.thumbLength]

LEMMA EndChosen ==
  ASSUME TypeOK, OrderInv, SoftwareInv, NoteInv, pc = "end", Agreeing
  PROVE  \/ HeaderEnd = 0
         \/ F.software = "camera" /\ HeaderEnd = Value(F, "THUMBNAIL", "ThumbOffset") + NoteBase(F)
         \/ F.software = "Capture" /\ HeaderEnd = F.at["THUMBNAIL"] /\ HeaderEnd <= 61439
         \/ F.software = "Capture" /\ HeaderEnd = 61439 /\ HeaderEnd < F.at["THUMBNAIL"]
<1>1. i <= Len(line) /\ F \in File /\ F.software \in {"Capture", "camera"}
      /\ F.at["THUMBNAIL"] \in Nat
  <2>1. i <= Len(line)
    BY DEF TypeOK
  <2> QED
    BY <2>1, FileFacts, FieldFacts, DirNames
<1>2. pc \in Past /\ NoteRead /\ DirRead
  BY DEF NoteRead, DirRead, Past, Writing
<1>3. g.calc = NoteBase(F) /\ g.thumbIfd = F.at["THUMBNAIL"] /\ g.software = F.software
  BY <1>2 DEF NoteInv, SoftwareInv, Agreeing
<1>4. g.order = F.order["THUMBNAIL"]
  BY <1>1, OrderFacts DEF OrderInv, Writing, Agreeing
<1>5. PreviewOffset = Value(F, "THUMBNAIL", "ThumbOffset")
  BY <1>3, <1>4 DEF PreviewOffset
<1>6. CASE F.software = "Capture"
  <2>1. HeaderEnd = IF F.at["THUMBNAIL"] > 61439 THEN 61439 ELSE F.at["THUMBNAIL"]
    BY <1>3, <1>6 DEF HeaderEnd, Capped
  <2> QED
    BY <1>1, <1>6, <2>1
<1>7. CASE F.software = "camera"
  <2>1. g.software # "Capture"
    BY <1>3, <1>7
  <2>2. CASE PreviewOffset # 0
    BY <1>3, <1>5, <1>7, <2>1, <2>2 DEF HeaderEnd, PreviewAt
  <2>3. CASE PreviewOffset = 0
    BY <2>1, <2>3 DEF HeaderEnd
  <2> QED
    BY <2>2, <2>3
<1> QED
  BY <1>1, <1>6, <1>7

LEMMA OwnSame ==
  ASSUME F' = F, out'.end = out.end
  PROVE  (Agreeing' <=> Agreeing) /\ (OwnEnd' <=> OwnEnd)
BY DEF Agreeing, OwnEnd, NamesPreview, NoteBase, Once, Before, Entries, Value

LEMMA NextRange ==
  ASSUME TypeOK, OrderInv, SoftwareInv, NoteInv, RangeInv, [Next]_vars
  PROVE  RangeInv'
<1>0. out \in Jpg
  BY DEF TypeOK
<1>1. CASE NotOpened \/ Open \/ NextFile
  BY <1>1 DEF NotOpened, Open, NextFile, RangeInv, Late
<1>2. CASE StopStep
  BY <1>2, StopEnds DEF RangeInv, Late
<1>3. CASE EntryStep \/ CallSubIfd \/ Return
  <2>1. pc' \in {"walk", "end"}
    BY <1>3, EntryShape DEF CallSubIfd, Return, At, AtEntry
  <2> QED
    BY <2>1 DEF RangeInv, Late
<1>4. CASE ChooseEnd
  <2>1. pc = "end" /\ pc' = "header" /\ out'.end = HeaderEnd /\ F' = F
    BY <1>0, <1>4 DEF ChooseEnd, Write, Jpg, F
  <2>2. Agreeing' <=> Agreeing
    BY <2>1 DEF Agreeing, NamesPreview, NoteBase, Once, Before, Entries, Value
  <2>3. Value(F, "THUMBNAIL", "ThumbOffset")' = Value(F, "THUMBNAIL", "ThumbOffset")
        /\ NoteBase(F)' = NoteBase(F)
    BY <2>1 DEF Value, Entries, NoteBase
  <2>4. Agreeing => out'.end = 0 \/ OwnEnd'
    BY <2>1, <2>3, EndChosen DEF OwnEnd
  <2> QED
    BY <2>1, <2>2, <2>4 DEF RangeInv, Late
<1>5. CASE \/ WriteHeader \/ WriteSubIfd \/ NoSubIfd \/ WriteSoftware \/ WriteImage
           \/ UpdateLength \/ LinkSubIfd \/ NoLink \/ Finish
  <2>1. /\ out'.end = out.end
        /\ WriteImage \/ out'.image = out.image
    <3>1. CASE WriteHeader
      BY <1>0, <3>1 DEF WriteHeader, Jpg
    <3>2. CASE WriteSubIfd
      BY <1>0, <3>2 DEF WriteSubIfd, Jpg
    <3>3. CASE NoSubIfd \/ NoLink
      BY <1>0, <3>3 DEF NoSubIfd, NoLink, Jpg
    <3>4. CASE WriteSoftware
      BY <1>0, <3>4 DEF WriteSoftware, Jpg
    <3>5. CASE WriteImage
      BY <1>0, <3>5 DEF WriteImage, Jpg
    <3>6. CASE UpdateLength
      BY <1>0, <3>6 DEF UpdateLength, Jpg
    <3>7. CASE LinkSubIfd
      BY <1>0, <3>7 DEF LinkSubIfd, Jpg
    <3>8. CASE Finish
      BY <1>0, <3>8 DEF Finish, Jpg
    <3> QED
      BY <1>5, <3>1, <3>2, <3>3, <3>4, <3>5, <3>6, <3>7, <3>8
  <2>2. /\ F' = F /\ g'.old = g.old /\ g'.calc = g.calc /\ g'.thumbOffset = g.thumbOffset
        /\ g'.thumbLength = g.thumbLength
    <3>1. CASE Finish
      BY <3>1 DEF Finish, F, TypeOK, Globals
    <3>2. CASE ~Finish
      BY <1>5, <3>2, WriterKeeps DEF WriterStep
    <3> QED
      BY <3>1, <3>2
  <2>3. /\ pc \in {"header"} \cup Late
        /\ pc' \in Late /\ (pc \in Late \/ out.end > 8)
        /\ pc' \in {"length", "links", "written"} =>
             WriteImage \/ pc \in {"length", "links", "written"}
    BY <1>5 DEF WriteHeader, WriteSubIfd, NoSubIfd, WriteSoftware, WriteImage, UpdateLength,
                AtLink, LinkSubIfd, NoLink, Finish, Write, Late
  <2>4. ImageFrom' = ImageFrom
    BY <2>2 DEF ImageFrom
  <2>5. out'.end > 8
    BY <2>1, <2>3 DEF RangeInv
  <2>6. Agreeing' => out'.end = 0 \/ OwnEnd'
    BY <2>1, <2>2, <2>3, OwnSame DEF RangeInv
  <2>7. pc' \in {"length", "links", "written"} =>
          out'.image = [from |-> ImageFrom, length |-> g.thumbLength]
    <3>1. WriteImage => out'.image = [from |-> ImageFrom, length |-> g.thumbLength]
      BY <1>0 DEF WriteImage, Jpg
    <3> QED
      BY <2>1, <2>3, <3>1 DEF RangeInv
  <2> QED
    BY <2>2, <2>4, <2>5, <2>6, <2>7 DEF RangeInv
<1>6. CASE Stopped \/ UNCHANGED vars
  <2>1. UNCHANGED <<line, rotates, i, pc, g, out>> /\ F' = F
    BY <1>6 DEF Stopped, vars, F
  <2>2. (Agreeing' <=> Agreeing) /\ (OwnEnd' <=> OwnEnd) /\ ImageFrom' = ImageFrom
    BY <2>1, OwnSame DEF ImageFrom
  <2> QED
    BY <2>1, <2>2 DEF RangeInv
<1> QED
  BY <1>1, <1>2, <1>3, <1>4, <1>5, <1>6 DEF Next, EntryStep, StopStep

RangesInv ==
  TypeOK /\ SizeInv /\ ShapeInv /\ OrderInv /\ PlaceInv /\ ModelInv /\ SoftwareInv
  /\ ReadInv /\ RangeInv

LEMMA InitRanges == Init => RangesInv
BY InitType, InitOrder DEF IInv, RangesInv, Init, PlaceInv, ModelInv, SoftwareInv, ReadInv,
   NoteInv, PreviewInv, SubImageInv, NoteRead, DirRead, TagRead, SubRead, RangeInv, Past,
   Writing, Late

LEMMA NextRanges == RangesInv /\ [Next]_vars => RangesInv'
<1> SUFFICES ASSUME RangesInv, [Next]_vars PROVE RangesInv'
  OBVIOUS
<1>1. /\ TypeOK /\ SizeInv /\ ShapeInv /\ OrderInv /\ PlaceInv /\ ModelInv /\ SoftwareInv
      /\ ReadInv /\ NoteInv /\ RangeInv
  BY DEF RangesInv, ReadInv
<1>2. TypeOK' /\ SizeInv'
  BY <1>1, NextType DEF IInv
<1>3. ShapeInv' /\ OrderInv' /\ PlaceInv'
  BY <1>1, NextOrder, NextPlace
<1>4. ModelInv' /\ SoftwareInv' /\ ReadInv' /\ RangeInv'
  BY <1>1, NextModel, NextSoftware, NextRead, NextRange
<1> QED
  BY <1>2, <1>3, <1>4 DEF RangesInv

LEMMA OwnHeader == RangesInv => HeaderOwn
<1> SUFFICES ASSUME RangesInv, pc = "written", Agreeing PROVE OwnEnd
  BY DEF HeaderOwn, Agreeing, OwnEnd
<1>1. out.end > 8 /\ (out.end = 0 \/ OwnEnd)
  BY DEF RangesInv, RangeInv, Late
<1> QED
  BY <1>1

LEMMA OwnImage == RangesInv => ImageOwn
<1> SUFFICES ASSUME RangesInv, pc = "written", Before(F, "Model", "Exif")
             PROVE  /\ F.old /\ NamesPreview(F) /\ HasPreview(F) =>
                         out.image = [from |-> Value(F, "THUMBNAIL", "ThumbOffset") + NoteBase(F) + 2,
                                      length |-> Value(F, "THUMBNAIL", "ThumbLength")]
                    /\ \A k \in 1..Followed :
                         ~F.old /\ OnlyImage(F, SubIfd[k]) =>
                           out.image = [from |-> Value(F, SubIfd[k], "ThumbOffset") + 2,
                                        length |-> Value(F, SubIfd[k], "ThumbLength")]
  BY DEF ImageOwn
<1>1. /\ TypeOK /\ g.old = F.old /\ NoteInv /\ PreviewInv /\ SubImageInv
      /\ out.image = [from |-> ImageFrom, length |-> g.thumbLength]
  BY DEF RangesInv, ModelInv, ReadInv, RangeInv, Past
<1>2. /\ NoteRead /\ DirRead /\ \A tag : TagRead(tag)
      /\ \A k, tag : SubRead(k, tag)
  BY DEF NoteRead, DirRead, TagRead, SubRead, Past, Writing
<1>3. i <= Len(line) /\ F \in File
  BY <1>1, FileFacts DEF TypeOK
<1>4. g.thumbOffset \in Nat /\ g.calc \in Nat
  BY <1>1, GlobalFacts
<1>5. ASSUME F.old, NamesPreview(F), HasPreview(F)
      PROVE  out.image = [from |-> Value(F, "THUMBNAIL", "ThumbOffset") + NoteBase(F) + 2,
                          length |-> Value(F, "THUMBNAIL", "ThumbLength")]
  <2>1. g.calc = NoteBase(F) /\ g.thumbOffset = Value(F, "THUMBNAIL", "ThumbOffset")
        /\ g.thumbLength = Value(F, "THUMBNAIL", "ThumbLength")
    BY <1>1, <1>2, <1>5 DEF NoteInv, PreviewInv
  <2>2. ImageFrom = g.thumbOffset + g.calc + 2
    BY <1>1, <1>4, <1>5 DEF ImageFrom
  <2> QED
    BY <1>1, <2>1, <2>2
<1>6. ASSUME NEW k \in 1..Followed, ~F.old, OnlyImage(F, SubIfd[k])
      PROVE  out.image = [from |-> Value(F, SubIfd[k], "ThumbOffset") + 2,
                          length |-> Value(F, SubIfd[k], "ThumbLength")]
  <2>1. k \in 1..4 /\ k <= Followed
    BY <1>1, <1>3, FollowedPlace
  <2>2. /\ g.thumbOffset = Value(F, SubIfd[k], "ThumbOffset")
        /\ g.thumbLength = Value(F, SubIfd[k], "ThumbLength")
    BY <1>1, <1>2, <1>6, <2>1 DEF SubImageInv
  <2>3. ImageFrom = g.thumbOffset + 2
    BY <1>1, <1>4, <1>6 DEF ImageFrom
  <2> QED
    BY <1>1, <2>2, <2>3
<1> QED
  BY <1>5, <1>6

\* What is copied from the NEF, header and image, are its own: software_ptr,
\* tag_thumbnail_ifd_offset, the base of the maker note and the range of the image
\* are those of the file at hand when output_thumbnail uses them, whatever earlier
\* files of the command line left in these globals.
THEOREM RangesCorrect == Spec => []RangesOwn
<1>1. RangesInv => RangesOwn
  BY OwnHeader, OwnImage DEF RangesOwn
<1> QED
  BY <1>1, InitRanges, NextRanges, PTL DEF Spec
=============================================================================
