--------------------------- MODULE Gallery_proofs ---------------------------
(***************************************************************************)
(* Theorems about Gallery, for every command line, every capacity and      *)
(* every order of failures: the type invariant, the refinement of Album,   *)
(* the numbering and listing of the galleries, and the pictures; and for   *)
(* every image, the sizes and pixels of those (Pictures).                  *)
(***************************************************************************)
EXTENDS Gallery, MCAlgorithms, SequenceTheorems, FiniteSetTheorems, WellFoundedInduction, TLAPS

-----------------------------------------------------------------------------
(* The inductive invariant. *)

\* An image is at hand from ShowFile on; a record is only written to a site
\* that is there and to a gallery with room; before there is a site nothing is
\* counted and no gallery is open.
ControlInv ==
  /\ pc \in {"web", "record", "extract", "resize"} => n > 0
  /\ pc \in {"record", "extract", "resize"} => ~firstTime
  /\ firstTime => gallery = 0
  /\ gallery = 0 => webCount = 0
  /\ pc = "record" => webCount < Capacity

\* The open gallery is the newest one and webCount counts its records; when
\* none is open nothing has been written to the newest.
NewestInv ==
  IF gallery # 0
    THEN /\ gallery = Len(galleries)
         /\ webCount = Len(galleries[gallery].records)
    ELSE galleries # <<>> => galleries[Len(galleries)].records = <<>>

\* The images with records come before the one that gets a record next.
Unwritten == IF pc \in {"web", "record"} THEN n ELSE n + 1

ImagesInv ==
  \A g \in 1..Len(galleries) : \A i \in 1..Len(galleries[g].records) :
    galleries[g].records[i].image < Unwritten

\* Before there is a site every gallery is empty and -js alone decides whether
\* the arrays were created; a gallery that has been started is not started
\* again, and one that is about to be is the first one used or follows a full
\* one.
HeaderInv ==
  /\ firstTime => \A g \in 1..Len(galleries) : galleries[g].records = <<>>
  /\ (firstTime /\ ~js) => jsFirst
  /\ (firstTime /\ js /\ pc = "web") => ~jsFirst
  /\ (gallery # 0 /\ webCount > 0) => ~jsFirst
  /\ (gallery # 0 /\ webCount = 0) =>
       pc = "record" /\ jsFirst = ~(js /\ FirstUsed(gallery))

SiteInv == TypeOK /\ ControlInv /\ NewestInv
AlbumInv == SiteInv /\ ImagesInv
NumberInv == AlbumInv /\ HeaderInv /\ GalleriesWellNumbered

-----------------------------------------------------------------------------
(* Facts about listings. *)

LEMMA CommandLine ==
  ASSUME NEW s \in UNION {[1..k -> Files] : k \in 0..MaxFiles}
  PROVE  s \in Seq(Files) /\ Len(s) <= MaxFiles
<1>1. PICK k \in 0..MaxFiles : s \in [1..k -> Files]
  OBVIOUS
<1>2. k \in Nat
  BY <1>1, BoundAssumption
<1> QED
  BY <1>1, <1>2, BoundAssumption

LEMMA EmptyIsListing == EmptyListing \in Listing /\ EmptyListing.records = <<>>
  BY DEF EmptyListing, Listing, NoCount

\* Adding a record to a listing.
LEMMA AddToListing ==
  ASSUME NEW l \in Listing, NEW i \in Nat, NEW h \in BOOLEAN, n \in Number
  PROVE  /\ AddTo(l, i, h) \in Listing
         /\ AddTo(l, i, h).records =
              Append(l.records, [index |-> i, image |-> n, header |-> h])
<1> DEFINE r == [index |-> i, image |-> n, header |-> h]
<1>1. r \in Record
  BY DEF Record
<1>2. l.records \in Seq(Record)
  BY DEF Listing
<1>3. Append(l.records, r) \in Seq(Record)
  BY <1>1, <1>2
<1>4. /\ [l EXCEPT !.records = Append(l.records, r)] \in Listing
      /\ [l EXCEPT !.records = Append(l.records, r)].records = Append(l.records, r)
  <2> HIDE DEF r
  <2> QED
    BY <1>3 DEF Listing
<1> QED
  BY <1>4 DEF AddTo

\* Replacing one listing of the galleries.
LEMMA Replaced ==
  ASSUME NEW s \in Seq(Listing), NEW i \in 1..Len(s), NEW x \in Listing
  PROVE  LET t == [s EXCEPT ![i] = x]
         IN  /\ t \in Seq(Listing)
             /\ Len(t) = Len(s)
             /\ t[i] = x
             /\ \A j \in 1..Len(s) : j # i => t[j] = s[j]
  OBVIOUS

LEMMA Extended ==
  ASSUME NEW s \in Seq(Listing)
  PROVE  LET t == CreateGallery(s)
         IN  /\ t \in Seq(Listing)
             /\ Len(t) = Len(s) + 1
             /\ t[Len(t)] = EmptyListing
             /\ \A j \in 1..Len(s) : t[j] = s[j]
  BY EmptyIsListing DEF CreateGallery

\* Ending the open gallery leaves the records of every gallery alone.
ClosedGalleries == [galleries EXCEPT ![gallery].count = LastIndex(webCount)]

LEMMA Closing ==
  ASSUME SiteInv, gallery # 0
  PROVE  /\ ClosedGalleries \in Seq(Listing)
         /\ Len(ClosedGalleries) = Len(galleries)
         /\ \A g \in 1..Len(galleries) :
              ClosedGalleries[g].records = galleries[g].records
<1> DEFINE x == [galleries[gallery] EXCEPT !.count = LastIndex(webCount)]
<1>1. gallery \in 1..Len(galleries) /\ galleries \in Seq(Listing)
  BY DEF SiteInv, TypeOK
<1>2. galleries[gallery] \in Listing
  BY <1>1
<1>3. LastIndex(webCount) \in Nat \cup {NoCount}
  BY CapacityAssumption DEF LastIndex, NoCount, SiteInv, TypeOK
<1>4. x \in Listing /\ x.records = galleries[gallery].records
  BY <1>2, <1>3 DEF Listing
<1>5. ClosedGalleries = [galleries EXCEPT ![gallery] = x]
  BY <1>1 DEF ClosedGalleries
<1> HIDE DEF x
<1> QED
  BY <1>1, <1>4, <1>5, Replaced

\* Writing the record of image n to the open gallery.
LongerGalleries == [galleries EXCEPT ![gallery] = AddTo(@, webCount, jsFirst)]

LEMMA Recording ==
  ASSUME SiteInv, gallery # 0, n > 0
  PROVE  /\ LongerGalleries \in Seq(Listing)
         /\ Len(LongerGalleries) = Len(galleries)
         /\ LongerGalleries[gallery].records =
              Append(galleries[gallery].records,
                     [index |-> webCount, image |-> n, header |-> jsFirst])
         /\ \A g \in 1..Len(galleries) :
              g # gallery => LongerGalleries[g] = galleries[g]
<1> DEFINE x == AddTo(galleries[gallery], webCount, jsFirst)
<1>1. gallery \in 1..Len(galleries) /\ galleries \in Seq(Listing)
  BY DEF SiteInv, TypeOK
<1>2. galleries[gallery] \in Listing
  BY <1>1
<1>3. n \in Number /\ webCount \in Nat /\ jsFirst \in BOOLEAN
  BY BoundAssumption, CapacityAssumption DEF SiteInv, TypeOK, Number
<1>4. /\ x \in Listing
      /\ x.records = Append(galleries[gallery].records,
                     [index |-> webCount, image |-> n, header |-> jsFirst])
  BY <1>2, <1>3, AddToListing
<1>5. LongerGalleries = [galleries EXCEPT ![gallery] = x]
  BY <1>1 DEF LongerGalleries
<1> HIDE DEF x
<1> QED
  BY <1>1, <1>4, <1>5, Replaced

-----------------------------------------------------------------------------
(* Types, control and the newest gallery. *)

LEMMA InitSite == Init => SiteInv
<1> SUFFICES ASSUME Init PROVE SiteInv
  OBVIOUS
<1>1. argv \in Seq(Files) /\ Len(argv) <= MaxFiles
  BY CommandLine DEF Init
<1>2. TypeOK
  BY <1>1, EmptyIsListing, CapacityAssumption, BoundAssumption, JsAssumption
  DEF Init, TypeOK, Ended
<1>3. ControlInv /\ NewestInv
  BY CapacityAssumption DEF Init, ControlInv, NewestInv
<1> QED
  BY <1>2, <1>3 DEF SiteInv

\* What the actions rely on when image n is at hand.
LEMMA AtHand ==
  ASSUME SiteInv, n > 0
  PROVE  /\ n \in Number
         /\ 1..n \subseteq Number
         /\ webCount \in Nat /\ rootCount \in Nat
         /\ RootRecord \in Listing
         /\ NewRoot \in Listing
         /\ failed \cup {n} \subseteq 1..n
<1>1. /\ n \in Number /\ 1..n \subseteq Number
      /\ webCount \in Nat /\ rootCount \in Nat
      /\ failed \cup {n} \subseteq 1..n
  BY BoundAssumption, CapacityAssumption DEF SiteInv, TypeOK, Number
<1>2. RootRecord \in Listing
  <2>1. root \in Listing /\ FALSE \in BOOLEAN
    BY DEF SiteInv, TypeOK
  <2> QED
    BY <1>1, <2>1, AddToListing DEF RootRecord
<1>3. NewRoot \in Listing
  BY <1>1, AddToListing, EmptyIsListing DEF NewRoot
<1> QED
  BY <1>1, <1>2, <1>3

\* One more gallery, empty and not opened.
LEMMA NewEmpty ==
  ASSUME NEW s \in Seq(Listing), galleries' = CreateGallery(s)
  PROVE  /\ galleries' \in Seq(Listing)
         /\ Len(galleries') = Len(s) + 1
         /\ galleries'[Len(galleries')].records = <<>>
         /\ \A g \in 1..Len(s) : galleries'[g] = s[g]
         /\ galleries' # <<>>
  BY Extended, EmptyIsListing

\* The actions that leave the listings and their counters alone.
Quiet ==
  \/ ShowFile \/ NothingToClose \/ KeepGallery \/ NullStream
  \/ SourceGone \/ Extract \/ NotCreated \/ Resize \/ NotAJpeg
  \/ UNCHANGED vars

LEMMA QuietStep ==
  ASSUME SiteInv, Quiet
  PROVE  /\ SiteInv'
         /\ UNCHANGED <<lists, webCount, firstTime, rootCount, argv, js>>
<1> USE DEF vars, lists, counters
<1>1. UNCHANGED <<lists, webCount, firstTime, rootCount, argv, js>>
  BY DEF Quiet, ShowFile, NothingToClose, KeepGallery, NullStream, SourceGone,
    Extract, NotCreated, Resize, NotAJpeg, GiveUp
<1>2. NewestInv'
  BY <1>1 DEF SiteInv, NewestInv
<1>3. TypeOK' /\ ControlInv'
  <2>1. CASE ShowFile
    BY <2>1, BoundAssumption DEF ShowFile, SiteInv, TypeOK, ControlInv
  <2>2. CASE NothingToClose
    BY <2>2 DEF NothingToClose, SiteInv, TypeOK, ControlInv, Ended
  <2>3. CASE KeepGallery
    BY <2>3, CapacityAssumption
    DEF KeepGallery, GalleryFull, SiteInv, TypeOK, ControlInv
  <2>4. CASE NullStream
    BY <2>4 DEF NullStream, SiteInv, TypeOK, ControlInv, Ended
  <2>5. CASE SourceGone
    BY <2>5, AtHand DEF SourceGone, GiveUp, SiteInv, TypeOK, ControlInv
  <2>6. CASE Extract
    BY <2>6, AtHand DEF Extract, SiteInv, TypeOK, ControlInv
  <2>7. CASE NotCreated
    BY <2>7 DEF NotCreated, SiteInv, TypeOK, ControlInv, Ended
  <2>8. CASE Resize
    <3>1. n \in Number /\ size \in 0..MaxFiles /\ Len(galleries) \in Nat
      BY <2>8, AtHand, BoundAssumption
      DEF Resize, SiteInv, TypeOK, ControlInv, Number
    <3>2. IsTurned \in BOOLEAN
      BY DEF IsTurned
    <3>3. Saved \subseteq Picture
      BY <3>1, <3>2 DEF Saved, Picture
    <3> QED
      BY <2>8, <3>3 DEF Resize, RemoveTemp, SizeReset, SiteInv, TypeOK, ControlInv
  <2>9. CASE NotAJpeg
    BY <2>9 DEF NotAJpeg, SiteInv, TypeOK, ControlInv, Ended
  <2>10. CASE UNCHANGED vars
    BY <2>10 DEF SiteInv, TypeOK, ControlInv
  <2> QED
    BY <2>1, <2>2, <2>3, <2>4, <2>5, <2>6, <2>7, <2>8, <2>9, <2>10 DEF Quiet
<1> QED
  BY <1>1, <1>2, <1>3 DEF SiteInv

LEMMA CloseSiteStep ==
  ASSUME SiteInv, CloseSite
  PROVE  SiteInv'
<1>1. gallery # 0 /\ galleries' = ClosedGalleries /\ pc = "next"
  BY DEF CloseSite, ClosedGalleries
<1>2. root' \in Listing
  <2>1. LastIndex(rootCount) \in Nat \cup {NoCount}
    BY DEF LastIndex, NoCount, SiteInv, TypeOK
  <2> QED
    BY <2>1 DEF CloseSite, SiteInv, TypeOK, Listing
<1>3. TypeOK'
  BY <1>1, <1>2, Closing DEF CloseSite, counters, SiteInv, TypeOK, Ended
<1>4. ControlInv'
  BY DEF CloseSite, counters, SiteInv, ControlInv
<1>5. NewestInv'
  <2>1. gallery \in 1..Len(galleries)
    BY <1>1 DEF SiteInv, TypeOK
  <2> QED
    BY <1>1, <2>1, Closing DEF CloseSite, counters, SiteInv, NewestInv
<1> QED
  BY <1>3, <1>4, <1>5 DEF SiteInv

\* The three ways to make the first gallery.
LEMMA FirstGalleryStep ==
  ASSUME SiteInv, OpenSite \/ NoRoot \/ NoFirstGallery
  PROVE  SiteInv'
<1>1. pc = "web" /\ firstTime /\ n > 0 /\ gallery = 0 /\ webCount = 0
  BY DEF OpenSite, NoRoot, NoFirstGallery, SiteInv, ControlInv
<1>2. galleries' = CreateGallery(galleries) /\ galleries \in Seq(Listing)
  BY DEF OpenSite, NoRoot, NoFirstGallery, SiteInv, TypeOK
<1>3. /\ galleries' \in Seq(Listing)
      /\ Len(galleries') = Len(galleries) + 1
      /\ Len(galleries) \in Nat
      /\ galleries'[Len(galleries')].records = <<>>
  BY <1>2, NewEmpty
<1>4. CASE OpenSite
  <2>1. TypeOK'
    <3>1. root' \in Listing /\ rootCount' \in Nat
      BY <1>1, <1>4, AtHand DEF OpenSite
    <3>2. gallery' \in 0..Len(galleries')
      BY <1>3, <1>4 DEF OpenSite
    <3> QED
      BY <1>1, <1>3, <1>4, <3>1, <3>2 DEF OpenSite, SiteInv, TypeOK
  <2>2. ControlInv' /\ NewestInv'
    BY <1>1, <1>3, <1>4, CapacityAssumption
    DEF OpenSite, SiteInv, TypeOK, ControlInv, NewestInv
  <2> QED
    BY <2>1, <2>2 DEF SiteInv
<1>5. CASE NoRoot
  <2>1. TypeOK'
    BY <1>1, <1>3, <1>5, AtHand DEF NoRoot, GiveUp, counters, SiteInv, TypeOK
  <2>2. ControlInv' /\ NewestInv'
    BY <1>1, <1>3, <1>5
    DEF NoRoot, GiveUp, counters, SiteInv, ControlInv, NewestInv
  <2> QED
    BY <2>1, <2>2 DEF SiteInv
<1>6. CASE NoFirstGallery
  <2>1. TypeOK'
    <3>1. root' \in Listing /\ rootCount' \in Nat /\ failed' \subseteq 1..n
      BY <1>1, <1>6, AtHand DEF NoFirstGallery, GiveUp
    <3>2. gallery' \in 0..Len(galleries')
      BY <1>3, <1>6 DEF NoFirstGallery
    <3> QED
      BY <1>1, <1>3, <1>6, <3>1, <3>2
      DEF NoFirstGallery, GiveUp, SiteInv, TypeOK
  <2>2. ControlInv' /\ NewestInv'
    BY <1>1, <1>3, <1>6
    DEF NoFirstGallery, GiveUp, SiteInv, ControlInv, NewestInv
  <2> QED
    BY <2>1, <2>2 DEF SiteInv
<1> QED
  BY <1>4, <1>5, <1>6

\* A full gallery is the open one, and making the next one leaves its records.
LEMMA Turning ==
  ASSUME SiteInv, TurnPage
  PROVE  /\ pc = "web" /\ ~firstTime /\ n > 0 /\ gallery # 0
         /\ gallery = Len(galleries)
         /\ Len(galleries[gallery].records) = Capacity
         /\ galleries' \in Seq(Listing)
         /\ Len(galleries') = Len(galleries) + 1
         /\ galleries'[Len(galleries')].records = <<>>
         /\ \A g \in 1..Len(galleries) :
              galleries'[g].records = galleries[g].records
<1>1. pc = "web" /\ ~firstTime /\ n > 0 /\ gallery # 0
  BY CapacityAssumption DEF TurnPage, GalleryFull, SiteInv, ControlInv
<1>2. gallery = Len(galleries) /\ Len(galleries[gallery].records) = Capacity
  BY <1>1 DEF TurnPage, GalleryFull, SiteInv, NewestInv
<1>3. galleries' = CreateGallery(ClosedGalleries)
  BY DEF TurnPage, ClosedGalleries
<1>4. /\ ClosedGalleries \in Seq(Listing)
      /\ Len(ClosedGalleries) = Len(galleries)
      /\ \A g \in 1..Len(galleries) :
           ClosedGalleries[g].records = galleries[g].records
  BY <1>1, Closing
<1>5. /\ galleries' \in Seq(Listing)
      /\ Len(galleries') = Len(galleries) + 1
      /\ galleries'[Len(galleries')].records = <<>>
      /\ \A g \in 1..Len(galleries) : galleries'[g] = ClosedGalleries[g]
  BY <1>3, <1>4, NewEmpty
<1> QED
  BY <1>1, <1>2, <1>4, <1>5

LEMMA TurnPageStep ==
  ASSUME SiteInv, NextGallery \/ NoNextGallery
  PROVE  SiteInv'
<1>1. TurnPage
  BY DEF NextGallery, NoNextGallery
<1>2. /\ pc = "web" /\ ~firstTime /\ n > 0
      /\ galleries' \in Seq(Listing)
      /\ Len(galleries') = Len(galleries) + 1
      /\ Len(galleries) \in Nat
      /\ galleries'[Len(galleries')].records = <<>>
  BY <1>1, Turning DEF SiteInv, TypeOK
<1>3. CASE NextGallery
  <2>1. TypeOK'
    <3>1. root' \in Listing /\ rootCount' \in Nat
      BY <1>2, <1>3, AtHand DEF NextGallery
    <3>2. gallery' \in 0..Len(galleries') /\ webCount' \in 0..Capacity
      BY <1>2, <1>3, CapacityAssumption DEF NextGallery, TurnPage
    <3> QED
      BY <1>2, <1>3, <3>1, <3>2
      DEF NextGallery, TurnPage, HeaderAgain, SiteInv, TypeOK
  <2>2. ControlInv' /\ NewestInv'
    BY <1>2, <1>3, CapacityAssumption
    DEF NextGallery, TurnPage, SiteInv, TypeOK, ControlInv, NewestInv
  <2> QED
    BY <2>1, <2>2 DEF SiteInv
<1>4. CASE NoNextGallery
  <2>1. TypeOK'
    BY <1>2, <1>4, AtHand, CapacityAssumption
    DEF NoNextGallery, TurnPage, GiveUp, HeaderAgain, SiteInv, TypeOK
  <2>2. ControlInv' /\ NewestInv'
    BY <1>2, <1>4
    DEF NoNextGallery, TurnPage, GiveUp, SiteInv, ControlInv, NewestInv
  <2> QED
    BY <2>1, <2>2 DEF SiteInv
<1> QED
  BY <1>3, <1>4

LEMMA Writing ==
  ASSUME SiteInv, AddRecord
  PROVE  /\ gallery # 0 /\ n > 0 /\ ~firstTime
         /\ webCount < Capacity /\ webCount \in Nat
         /\ gallery \in 1..Len(galleries) /\ gallery = Len(galleries)
         /\ webCount = Len(galleries[gallery].records)
         /\ galleries[gallery].records \in Seq(Record)
<1>1. gallery # 0 /\ n > 0 /\ ~firstTime /\ webCount < Capacity
  BY DEF AddRecord, SiteInv, ControlInv
<1>2. webCount \in Nat /\ gallery \in 1..Len(galleries)
  BY <1>1, CapacityAssumption DEF SiteInv, TypeOK
<1>3. /\ gallery = Len(galleries)
      /\ webCount = Len(galleries[gallery].records)
  BY <1>1 DEF SiteInv, NewestInv
<1>4. galleries[gallery] \in Listing
  BY <1>2 DEF SiteInv, TypeOK
<1> QED
  BY <1>1, <1>2, <1>3, <1>4 DEF Listing

LEMMA AddRecordStep ==
  ASSUME SiteInv, AddRecord
  PROVE  SiteInv'
<1>1. /\ gallery # 0 /\ n > 0 /\ ~firstTime
      /\ webCount < Capacity /\ webCount \in Nat
      /\ gallery \in 1..Len(galleries) /\ gallery = Len(galleries)
      /\ webCount = Len(galleries[gallery].records)
      /\ galleries[gallery].records \in Seq(Record)
  BY Writing
<1>2. galleries' = LongerGalleries
  BY DEF AddRecord, LongerGalleries
<1>3. TypeOK'
  <2>1. /\ galleries' \in Seq(Listing)
        /\ Len(galleries') = Len(galleries)
    BY <1>1, <1>2, Recording
  <2>2. webCount' \in 0..Capacity
    BY <1>1, CapacityAssumption DEF AddRecord
  <2> QED
    BY <1>1, <2>1, <2>2 DEF AddRecord, SiteInv, TypeOK
<1>4. ControlInv'
  BY <1>1 DEF AddRecord, SiteInv, ControlInv
<1>5. NewestInv'
  <2>1. Len(galleries'[gallery].records) = webCount + 1
    BY <1>1, <1>2, Recording
  <2> QED
    BY <1>1, <1>2, <2>1, Recording DEF AddRecord, NewestInv
<1> QED
  BY <1>3, <1>4, <1>5 DEF SiteInv

LEMMA Steps ==
  ASSUME [Next]_vars
  PROVE  \/ Quiet \/ CloseSite \/ OpenSite \/ NoRoot \/ NoFirstGallery
         \/ NextGallery \/ NoNextGallery \/ AddRecord
  BY DEF Next, Quiet, Stopped

\* The types are right in every reachable state: no counter passes the
\* capacity, and a stream that is not NULL is that of a gallery that exists.
THEOREM TypeCorrect == Spec => []TypeOK
<1>1. Init => SiteInv
  BY InitSite
<1>2. SiteInv /\ [Next]_vars => SiteInv'
  BY Steps, QuietStep, CloseSiteStep, FirstGalleryStep, TurnPageStep, AddRecordStep
<1>3. SiteInv => TypeOK
  BY DEF SiteInv
<1> QED
  BY <1>1, <1>2, <1>3, PTL DEF Spec

-----------------------------------------------------------------------------
(* What a step does to the records of the galleries. *)

Before(g) == galleries[g].records
After(g) == galleries'[g].records

Kept ==
  /\ Len(galleries') = Len(galleries)
  /\ \A g \in 1..Len(galleries) : After(g) = Before(g)

Opened ==
  /\ Len(galleries') = Len(galleries) + 1
  /\ After(Len(galleries) + 1) = <<>>
  /\ \A g \in 1..Len(galleries) : After(g) = Before(g)
  /\ Len(galleries) > 0 => Len(Before(Len(galleries))) \in {0, Capacity}

NewRecord == [index |-> webCount, image |-> n, header |-> jsFirst]

Written ==
  /\ n > 0
  /\ gallery \in 1..Len(galleries)
  /\ gallery = Len(galleries)
  /\ webCount = Len(Before(gallery))
  /\ webCount < Capacity
  /\ Len(galleries') = Len(galleries)
  /\ After(gallery) = Append(Before(gallery), NewRecord)
  /\ \A g \in 1..Len(galleries) : g # gallery => After(g) = Before(g)

LEMMA QuietKeeps == ASSUME SiteInv, Quiet PROVE Kept
  BY QuietStep DEF lists, Kept, Before, After

LEMMA CloseKeeps == ASSUME SiteInv, CloseSite PROVE Kept
  BY Closing DEF CloseSite, ClosedGalleries, Kept, Before, After

LEMMA FirstOpens ==
  ASSUME SiteInv, OpenSite \/ NoRoot \/ NoFirstGallery
  PROVE  Opened
<1>1. gallery = 0 /\ galleries \in Seq(Listing)
  BY DEF OpenSite, NoRoot, NoFirstGallery, SiteInv, ControlInv, TypeOK
<1>2. galleries' = CreateGallery(galleries)
  BY DEF OpenSite, NoRoot, NoFirstGallery
<1>3. Len(galleries) > 0 => Len(Before(Len(galleries))) = 0
  BY <1>1 DEF SiteInv, NewestInv, Before, After
<1>4. /\ Len(galleries') = Len(galleries) + 1
      /\ galleries'[Len(galleries) + 1].records = <<>>
      /\ \A g \in 1..Len(galleries) : galleries'[g] = galleries[g]
  BY <1>1, <1>2, NewEmpty
<1> QED
  BY <1>3, <1>4 DEF Opened, Before, After

LEMMA TurnOpens ==
  ASSUME SiteInv, NextGallery \/ NoNextGallery
  PROVE  Opened
<1>1. TurnPage
  BY DEF NextGallery, NoNextGallery
<1> QED
  BY <1>1, Turning DEF Opened, Before, After

LEMMA RecordWrites == ASSUME SiteInv, AddRecord PROVE Written
<1>1. galleries' = LongerGalleries
  BY DEF AddRecord, LongerGalleries
<1> QED
  BY <1>1, Writing, Recording DEF Written, Before, After, NewRecord

LEMMA ThreeWays ==
  ASSUME SiteInv, [Next]_vars
  PROVE  Kept \/ Opened \/ (AddRecord /\ Written)
  BY Steps, QuietKeeps, CloseKeeps, FirstOpens, TurnOpens, RecordWrites

LEMMA SiteStep == ASSUME SiteInv, [Next]_vars PROVE SiteInv'
  BY Steps, QuietStep, CloseSiteStep, FirstGalleryStep, TurnPageStep, AddRecordStep

LEMMA ListingTypes ==
  ASSUME SiteInv
  PROVE  /\ galleries \in Seq(Listing)
         /\ Len(galleries) \in Nat
         /\ \A g \in 1..Len(galleries) :
              /\ Before(g) \in Seq(Record)
              /\ Len(Before(g)) \in Nat
<1>1. galleries \in Seq(Listing) /\ Len(galleries) \in Nat
  BY DEF SiteInv, TypeOK
<1>2. \A g \in 1..Len(galleries) : galleries[g] \in Listing
  BY <1>1
<1>3. \A g \in 1..Len(galleries) : Before(g) \in Seq(Record)
  BY <1>2 DEF Listing, Before, After
<1> QED
  BY <1>1, <1>3

-----------------------------------------------------------------------------
(* The images of the records come in order. *)

LEMMA UnwrittenGrows ==
  ASSUME SiteInv, [Next]_vars
  PROVE  Unwritten \in Nat /\ Unwritten' \in Nat /\ Unwritten' >= Unwritten
<1>1. n \in Nat
  BY DEF SiteInv, TypeOK
<1>2. n' = n \/ (pc = "next" /\ pc' = "web" /\ n' = n + 1)
  BY DEF Next, vars, ShowFile, CloseSite, NothingToClose, OpenSite, NoRoot,
    NoFirstGallery, KeepGallery, NextGallery, NoNextGallery, AddRecord,
    NullStream, SourceGone, Extract, NotCreated, Resize, NotAJpeg, Stopped
<1>3. (n' = n /\ pc' \in {"web", "record"}) => pc \in {"web", "record"}
  BY <1>1 DEF Next, vars, ShowFile, CloseSite, NothingToClose, OpenSite, NoRoot,
    NoFirstGallery, KeepGallery, NextGallery, NoNextGallery, AddRecord,
    TurnPage, GiveUp,
    NullStream, SourceGone, Extract, NotCreated, Resize, NotAJpeg, Stopped
<1> QED
  BY <1>1, <1>2, <1>3 DEF Unwritten

LEMMA ImagesStep ==
  ASSUME AlbumInv, [Next]_vars
  PROVE  ImagesInv'
<1>1. SiteInv /\ ImagesInv
  BY DEF AlbumInv
<1>2. /\ Len(galleries) \in Nat
      /\ \A g \in 1..Len(galleries) :
           Before(g) \in Seq(Record) /\ Len(Before(g)) \in Nat
  BY <1>1, ListingTypes
<1>3. /\ Unwritten \in Nat /\ Unwritten' \in Nat /\ Unwritten' >= Unwritten
  BY <1>1, UnwrittenGrows
<1>4. \A g \in 1..Len(galleries) : \A i \in 1..Len(Before(g)) :
        /\ Before(g)[i].image < Unwritten
        /\ Before(g)[i].image \in Nat
  <2>1. \A g \in 1..Len(galleries) : \A i \in 1..Len(Before(g)) :
          Before(g)[i] \in Record
    BY <1>2
  <2> QED
    BY <1>1, <2>1, BoundAssumption DEF ImagesInv, Before, After, Record, Number
<1>5. \A g \in 1..Len(galleries) : \A i \in 1..Len(Before(g)) :
        Before(g)[i].image < Unwritten'
  BY <1>3, <1>4
<1>6. CASE Kept
  BY <1>2, <1>5, <1>6 DEF Kept, ImagesInv, Before, After
<1>7. CASE Opened
  <2> SUFFICES ASSUME NEW g \in 1..Len(galleries'),
                      NEW i \in 1..Len(After(g))
               PROVE  After(g)[i].image < Unwritten'
    BY DEF ImagesInv, Before, After
  <2>1. CASE g = Len(galleries) + 1
    BY <1>7, <2>1 DEF Opened
  <2>2. CASE g \in 1..Len(galleries)
    BY <1>5, <1>7, <2>2 DEF Opened
  <2> QED
    BY <1>2, <1>7, <2>1, <2>2 DEF Opened
<1>8. CASE AddRecord /\ Written
  <2> SUFFICES ASSUME NEW g \in 1..Len(galleries'),
                      NEW i \in 1..Len(After(g))
               PROVE  After(g)[i].image < Unwritten'
    BY DEF ImagesInv, Before, After
  <2>1. g \in 1..Len(galleries)
    BY <1>8 DEF Written
  <2>2. CASE g # gallery
    BY <1>5, <1>8, <2>1, <2>2 DEF Written
  <2>3. CASE g = gallery
    <3>1. /\ Before(g) \in Seq(Record)
          /\ After(g) = Append(Before(g), NewRecord)
      BY <1>2, <1>8, <2>1, <2>3 DEF Written
    <3>2. CASE i = Len(Before(g)) + 1
      <4>1. After(g)[i].image = n
        BY <3>1, <3>2 DEF NewRecord
      <4>2. Unwritten' = n + 1 /\ n \in Nat
        BY <1>1, <1>8 DEF AddRecord, Unwritten, SiteInv, TypeOK
      <4> QED
        BY <4>1, <4>2
    <3>3. CASE i \in 1..Len(Before(g))
      BY <1>5, <2>1, <3>1, <3>3
    <3> QED
      BY <1>2, <2>1, <3>1, <3>2, <3>3
  <2> QED
    BY <2>2, <2>3
<1> QED
  BY <1>1, <1>6, <1>7, <1>8, ThreeWays

-----------------------------------------------------------------------------
(* The galleries as albums. *)

Images(r) == [i \in 1..Len(r) |-> r[i].image]
View(s) == [g \in 1..Len(s) |-> Images(s[g].records)]

LEMMA ImagesSeq ==
  ASSUME NEW r \in Seq(Record)
  PROVE  /\ Images(r) \in Seq(Number)
         /\ Len(Images(r)) = Len(r)
         /\ Len(r) \in Nat
<1>1. Len(r) \in Nat
  OBVIOUS
<1>2. \A i \in 1..Len(r) : r[i].image \in Number
  <2>1. \A i \in 1..Len(r) : r[i] \in Record
    OBVIOUS
  <2> QED
    BY <2>1 DEF Record
<1>3. Images(r) \in [1..Len(r) -> Number]
  BY <1>2 DEF Images
<1> QED
  BY <1>1, <1>3

LEMMA ImagesAppend ==
  ASSUME NEW r \in Seq(Record), NEW x \in Record
  PROVE  Images(Append(r, x)) = Append(Images(r), x.image)
<1>1. x.image \in Number
  BY DEF Record
<1>2. /\ Append(r, x) \in Seq(Record)
      /\ Len(Append(r, x)) = Len(r) + 1
      /\ Append(r, x)[Len(r) + 1] = x
      /\ \A i \in 1..Len(r) : Append(r, x)[i] = r[i]
  OBVIOUS
<1>3. /\ Images(r) \in Seq(Number)
      /\ Len(Images(r)) = Len(r)
      /\ Images(Append(r, x)) \in Seq(Number)
      /\ Len(Images(Append(r, x))) = Len(r) + 1
      /\ Len(r) \in Nat
  BY <1>2, ImagesSeq
<1>4. \A i \in 1..Len(r) + 1 :
        Images(Append(r, x))[i] = IF i = Len(r) + 1 THEN x.image ELSE r[i].image
  BY <1>2, <1>3 DEF Images
<1>5. \A i \in 1..Len(r) : Images(r)[i] = r[i].image
  BY DEF Images
<1>6. /\ Append(Images(r), x.image) \in Seq(Number)
      /\ Len(Append(Images(r), x.image)) = Len(r) + 1
      /\ \A i \in 1..Len(r) + 1 : Append(Images(r), x.image)[i] =
           IF i = Len(r) + 1 THEN x.image ELSE r[i].image
  BY <1>1, <1>3, <1>5
<1> QED
  BY <1>3, <1>4, <1>6, SeqEqual

LEMMA ViewSeq ==
  ASSUME NEW s \in Seq(Listing)
  PROVE  /\ View(s) \in Seq(Seq(Number))
         /\ Len(View(s)) = Len(s)
         /\ Len(s) \in Nat
         /\ \A g \in 1..Len(s) : View(s)[g] = Images(s[g].records)
<1>1. Len(s) \in Nat
  OBVIOUS
<1>2. \A g \in 1..Len(s) : s[g].records \in Seq(Record)
  <2>1. \A g \in 1..Len(s) : s[g] \in Listing
    OBVIOUS
  <2> QED
    BY <2>1 DEF Listing
<1>3. \A g \in 1..Len(s) : Images(s[g].records) \in Seq(Number)
  BY <1>2, ImagesSeq
<1>4. View(s) \in [1..Len(s) -> Seq(Number)]
  BY <1>3 DEF View
<1> QED
  BY <1>1, <1>4 DEF View

LEMMA AlbumsView == Albums = View(galleries) /\ Albums' = View(galleries')
  BY DEF Albums, View, Images

\* The images of a step: none moves, an empty album is added, or one image is
\* added to the newest album.
LEMMA KeptStutters ==
  ASSUME SiteInv, SiteInv', Kept
  PROVE  UNCHANGED Albums
<1>1. galleries \in Seq(Listing) /\ galleries' \in Seq(Listing)
  BY DEF SiteInv, TypeOK
<1>2. /\ View(galleries) \in Seq(Seq(Number))
      /\ View(galleries') \in Seq(Seq(Number))
      /\ Len(View(galleries)) = Len(galleries)
      /\ Len(View(galleries')) = Len(galleries)
      /\ \A g \in 1..Len(galleries) : View(galleries)[g] = Images(Before(g))
      /\ \A g \in 1..Len(galleries) : View(galleries')[g] = Images(After(g))
  BY <1>1, ViewSeq DEF Kept, Before, After
<1>3. \A g \in 1..Len(galleries) : View(galleries')[g] = View(galleries)[g]
  BY <1>2 DEF Kept
<1>4. View(galleries') = View(galleries)
  BY <1>2, <1>3, SeqEqual
<1> QED
  BY <1>4, AlbumsView

LEMMA OpenedOpens ==
  ASSUME SiteInv, SiteInv', Opened
  PROVE  Contents!OpenAlbum
<1> DEFINE L == Len(galleries)
           V == View(galleries)
           W == View(galleries')
<1>1. galleries \in Seq(Listing) /\ galleries' \in Seq(Listing)
  BY DEF SiteInv, TypeOK
<1>2. /\ V \in Seq(Seq(Number)) /\ W \in Seq(Seq(Number))
      /\ Len(V) = L /\ Len(W) = L + 1 /\ L \in Nat
      /\ \A g \in 1..L : V[g] = Images(Before(g))
      /\ \A g \in 1..L + 1 : W[g] = Images(After(g))
  BY <1>1, ViewSeq DEF Opened, Before, After
<1>3. Images(<<>>) = <<>>
  <2>1. <<>> \in Seq(Record) /\ Len(<<>>) = 0
    BY EmptySeq
  <2>2. Images(<<>>) \in Seq(Number) /\ Len(Images(<<>>)) = 0
    BY <2>1, ImagesSeq
  <2> QED
    BY <2>2, EmptySeq
<1>4. \A g \in 1..L + 1 : W[g] = IF g = L + 1 THEN <<>> ELSE V[g]
  <2>1. W[L + 1] = <<>>
    <3>1. L + 1 \in 1..L + 1 /\ After(L + 1) = <<>>
      BY <1>2 DEF Opened
    <3> QED
      BY <1>2, <1>3, <3>1
  <2>2. \A g \in 1..L : g \in 1..L + 1 /\ After(g) = Before(g)
    BY <1>2 DEF Opened
  <2>3. \A g \in 1..L : W[g] = V[g]
    BY <1>2, <2>2
  <2> HIDE DEF V, W, L
  <2> QED
    BY <1>2, <2>1, <2>3
<1>5. W = Append(V, <<>>)
  <2>1. <<>> \in Seq(Number)
    BY EmptySeq
  <2>2. /\ Append(V, <<>>) \in Seq(Seq(Number))
        /\ Len(Append(V, <<>>)) = L + 1
        /\ \A g \in 1..L + 1 :
             Append(V, <<>>)[g] = IF g = L + 1 THEN <<>> ELSE V[g]
    <3> HIDE DEF V, L
    <3> QED
      BY <1>2, <2>1
  <2> HIDE DEF V, W, L
  <2> QED
    BY <1>2, <1>4, <2>2, SeqEqual
<1>6. V = <<>> \/ Len(V[Len(V)]) \in {0, Capacity}
  <2>1. CASE L = 0
    <3> HIDE DEF V, L
    <3> QED
      BY <1>2, <2>1, EmptySeq
  <2>2. CASE L > 0
    <3>1. L \in 1..L /\ V[L] = Images(Before(L))
      BY <1>2, <2>2
    <3>2. Before(L) \in Seq(Record)
      BY <3>1, ListingTypes
    <3>3. Len(V[L]) = Len(Before(L))
      BY <3>1, <3>2, ImagesSeq
    <3> QED
      BY <1>2, <2>2, <3>3 DEF Opened
  <2> QED
    BY <1>2, <2>1, <2>2
<1> QED
  BY <1>5, <1>6, AlbumsView DEF Contents!OpenAlbum, Contents!Newest

LEMMA WrittenPlaces ==
  ASSUME AlbumInv, SiteInv', AddRecord, Written
  PROVE  \E k \in Number : Contents!Place(k)
<1> DEFINE L == Len(galleries)
           V == View(galleries)
           W == View(galleries')
<1>1. SiteInv /\ galleries \in Seq(Listing) /\ galleries' \in Seq(Listing)
  BY DEF AlbumInv, SiteInv, TypeOK
<1>2. /\ V \in Seq(Seq(Number)) /\ W \in Seq(Seq(Number))
      /\ Len(V) = L /\ Len(W) = L /\ L \in Nat
      /\ \A g \in 1..L : V[g] = Images(Before(g))
      /\ \A g \in 1..L : W[g] = Images(After(g))
  BY <1>1, ViewSeq DEF Written, Before, After
<1>3. n \in Number /\ gallery = L /\ L \in 1..L /\ NewRecord \in Record
  <2>1. n \in Number /\ gallery = L /\ L \in 1..L
    BY <1>1, AtHand DEF Written
  <2>2. webCount \in Nat /\ jsFirst \in BOOLEAN
    BY <1>1, CapacityAssumption DEF SiteInv, TypeOK
  <2> QED
    BY <2>1, <2>2 DEF NewRecord, Record
<1>4. /\ Before(L) \in Seq(Record)
      /\ Len(V[L]) = webCount
      /\ webCount < Capacity
  <2>1. Before(L) \in Seq(Record)
    BY <1>1, <1>3, ListingTypes
  <2> QED
    BY <1>2, <1>3, <2>1, ImagesSeq DEF Written
<1>5. W[L] = Append(V[L], n)
  <2>1. After(L) = Append(Before(L), NewRecord)
    BY <1>3 DEF Written
  <2>2. NewRecord.image = n
    BY DEF NewRecord
  <2> QED
    BY <1>2, <1>3, <1>4, <2>1, <2>2, ImagesAppend
<1>6. \A g \in 1..L : g # L => W[g] = V[g]
  BY <1>2, <1>3 DEF Written
<1>7. W = [V EXCEPT ![L] = Append(V[L], n)]
  <2>1. Append(V[L], n) \in Seq(Number)
    BY <1>2, <1>3, <1>5
  <2> HIDE DEF V, W, L
  <2>2. /\ [V EXCEPT ![L] = Append(V[L], n)] \in Seq(Seq(Number))
        /\ Len([V EXCEPT ![L] = Append(V[L], n)]) = L
        /\ \A g \in 1..L : [V EXCEPT ![L] = Append(V[L], n)][g] =
             IF g = L THEN Append(V[L], n) ELSE V[g]
    BY <1>2, <1>3, <2>1, ExceptSeq
  <2> QED
    BY <1>2, <1>5, <1>6, <2>2, SeqEqual
<1>8. \A g \in 1..L : \A i \in 1..Len(V[g]) : V[g][i] < n
  <2> SUFFICES ASSUME NEW g \in 1..L, NEW i \in 1..Len(V[g]) PROVE V[g][i] < n
    OBVIOUS
  <2>1. Before(g) \in Seq(Record) /\ V[g] = Images(Before(g))
    BY <1>1, <1>2, ListingTypes
  <2>2. i \in 1..Len(Before(g))
    BY <2>1, ImagesSeq
  <2>3. V[g][i] = Before(g)[i].image
    BY <2>1, <2>2 DEF Images
  <2>4. Before(g)[i].image < Unwritten
    BY <2>2 DEF AlbumInv, ImagesInv, Before
  <2>5. Unwritten = n
    BY DEF AddRecord, Unwritten
  <2> QED
    BY <2>3, <2>4, <2>5
<1>9. V # <<>>
  <2> HIDE DEF V
  <2> QED
    BY <1>2, <1>3, EmptySeq
<1>10. Contents!Place(n)
  BY <1>2, <1>4, <1>7, <1>8, <1>9, AlbumsView
  DEF Contents!Place, Contents!Newest, Contents!AllEarlier
<1> QED
  BY <1>3, <1>10

LEMMA InitAlbum == Init => AlbumInv /\ Contents!Init
<1> SUFFICES ASSUME Init PROVE AlbumInv /\ Contents!Init
  OBVIOUS
<1>1. galleries = <<>> /\ galleries \in Seq(Listing) /\ Len(galleries) = 0
  BY InitSite, EmptySeq DEF Init, SiteInv, TypeOK
<1>2. AlbumInv
  BY <1>1, InitSite DEF AlbumInv, ImagesInv
<1>3. View(galleries) = <<>>
  BY <1>1, ViewSeq, EmptySeq
<1> QED
  BY <1>2, <1>3, AlbumsView DEF Contents!Init

LEMMA AlbumStep ==
  ASSUME AlbumInv, [Next]_vars
  PROVE  AlbumInv' /\ [Contents!Next]_Albums
<1>1. SiteInv /\ SiteInv'
  BY SiteStep DEF AlbumInv
<1>2. AlbumInv'
  BY <1>1, ImagesStep DEF AlbumInv
<1>3. [Contents!Next]_Albums
  <2>1. CASE Kept
    BY <1>1, <2>1, KeptStutters
  <2>2. CASE Opened
    BY <1>1, <2>2, OpenedOpens DEF Contents!Next
  <2>3. CASE AddRecord /\ Written
    BY <1>1, <2>3, WrittenPlaces DEF Contents!Next
  <2> QED
    BY <1>1, <2>1, <2>2, <2>3, ThreeWays
<1> QED
  BY <1>2, <1>3

\* The galleries implement the albums, whatever could not be opened: a record
\* is only added to the newest gallery and while it has room, in the order of
\* the command line, and a gallery is only made when the newest is full or
\* empty.
THEOREM ImplementsAlbum == Spec => AlbumSpec
<1>1. Init => AlbumInv /\ Contents!Init
  BY InitAlbum
<1>2. AlbumInv /\ [Next]_vars => AlbumInv' /\ [Contents!Next]_Albums
  BY AlbumStep
<1> QED
  BY <1>1, <1>2, PTL DEF Spec, AlbumSpec, Contents!Spec

-----------------------------------------------------------------------------
(* The numbering of the records and the creation of the arrays. *)

Arrays(g) == ~(js /\ FirstUsed(g))

LEMMA QuietHeader == ASSUME NumberInv, Quiet PROVE HeaderInv'
<1>1. SiteInv /\ ControlInv /\ HeaderInv
  BY DEF NumberInv, AlbumInv, SiteInv
<1>2. UNCHANGED <<galleries, gallery, webCount, firstTime, js>>
  BY <1>1, QuietStep DEF lists
<1>3. UNCHANGED FirstUsed(gallery)
  BY <1>2 DEF FirstUsed
<1>4. js \in BOOLEAN /\ jsFirst \in BOOLEAN
  BY <1>1 DEF SiteInv, TypeOK
<1>5. CASE ShowFile
  <2>1. pc = "next" /\ pc' = "web" /\ jsFirst' = (jsFirst /\ ~js)
    BY <1>5 DEF ShowFile
  <2> QED
    BY <1>1, <1>2, <1>3, <1>4, <2>1 DEF HeaderInv
<1>6. CASE UNCHANGED jsFirst /\ pc' # "web" /\ pc # "record"
  BY <1>1, <1>2, <1>3, <1>6 DEF HeaderInv
<1>7. CASE NullStream
  <2>1. gallery = 0 /\ ~firstTime
    BY <1>1, <1>7 DEF NullStream, ControlInv
  <2> QED
    BY <1>2, <2>1 DEF HeaderInv
<1>8. CASE UNCHANGED vars
  BY <1>1, <1>2, <1>3, <1>8 DEF HeaderInv, vars, counters
<1> QED
  BY <1>5, <1>6, <1>7, <1>8
  DEF Quiet, NothingToClose, KeepGallery, SourceGone, Extract, NotCreated,
    Resize, NotAJpeg, GiveUp, counters

LEMMA CloseHeader == ASSUME NumberInv, CloseSite PROVE HeaderInv'
<1>1. SiteInv /\ ControlInv /\ HeaderInv
  BY DEF NumberInv, AlbumInv, SiteInv
<1>2. /\ pc = "next" /\ gallery # 0
      /\ UNCHANGED <<gallery, webCount, firstTime, js, jsFirst>>
  BY DEF CloseSite, counters
<1>3. ~firstTime /\ ~(webCount = 0)
  BY <1>1, <1>2 DEF ControlInv, HeaderInv
<1> QED
  BY <1>1, <1>2, <1>3 DEF HeaderInv

LEMMA OpenedHeader ==
  ASSUME NumberInv,
         OpenSite \/ NoRoot \/ NoFirstGallery \/ NextGallery \/ NoNextGallery
  PROVE  HeaderInv'
<1>1. SiteInv /\ ControlInv /\ HeaderInv /\ Len(galleries) \in Nat
  BY DEF NumberInv, AlbumInv, SiteInv, TypeOK
<1>2. Opened
  BY <1>1, FirstOpens, TurnOpens
<1>3. js \in BOOLEAN /\ jsFirst \in BOOLEAN
  BY <1>1 DEF SiteInv, TypeOK
<1>4. CASE OpenSite \/ NoRoot \/ NoFirstGallery
  <2>1. \A g \in 1..Len(galleries') : After(g) = <<>>
    <3>1. \A g \in 1..Len(galleries) : Before(g) = <<>>
      BY <1>1, <1>4 DEF OpenSite, NoRoot, NoFirstGallery, HeaderInv, Before
    <3>2. \A g \in 1..Len(galleries') :
            g = Len(galleries) + 1 \/ g \in 1..Len(galleries)
      BY <1>1, <1>2 DEF Opened
    <3> QED
      BY <1>2, <3>1, <3>2 DEF Opened
  <2>2. pc = "web" /\ firstTime /\ gallery = 0 /\ webCount = 0 /\ jsFirst = ~js
    BY <1>1, <1>3, <1>4
    DEF OpenSite, NoRoot, NoFirstGallery, ControlInv, HeaderInv
  <2>3. UNCHANGED <<js, jsFirst, webCount>>
    BY <1>4 DEF OpenSite, NoRoot, NoFirstGallery, counters
  <2>4. CASE OpenSite
    <3>1. gallery' = Len(galleries') /\ pc' = "record" /\ ~firstTime'
      BY <2>4 DEF OpenSite
    <3>2. FirstUsed(gallery)'
      <4>1. \A h \in 1..(Len(galleries') - 1) : h \in 1..Len(galleries')
        BY <1>1, <1>2 DEF Opened
      <4> QED
        BY <2>1, <3>1, <4>1 DEF FirstUsed, After
    <3> QED
      BY <2>2, <2>3, <3>1, <3>2 DEF HeaderInv
  <2>5. CASE NoRoot \/ NoFirstGallery
    <3>1. gallery' = 0 /\ pc' = "next"
      BY <2>2, <2>5 DEF NoRoot, NoFirstGallery, GiveUp
    <3> QED
      BY <2>1, <2>2, <2>3, <3>1 DEF HeaderInv, After
  <2> QED
    BY <1>4, <2>4, <2>5
<1>5. CASE NextGallery
  <2>1. TurnPage
    BY <1>5 DEF NextGallery
  <2>2. Len(galleries) > 0 /\ Len(Before(Len(galleries))) = Capacity
    BY <1>1, <2>1, Turning DEF SiteInv, TypeOK, Before
  <2>3. Before(Len(galleries)) # <<>>
    BY <2>2, CapacityAssumption, EmptySeq
  <2>4. After(Len(galleries)) # <<>>
    BY <1>1, <1>2, <2>2, <2>3 DEF Opened
  <2>5. /\ gallery' = Len(galleries) + 1 /\ pc' = "record" /\ ~firstTime'
        /\ webCount' = 0 /\ jsFirst' = TRUE /\ js' = js
    BY <1>2, <1>5 DEF NextGallery, TurnPage, HeaderAgain, Opened
  <2>6. ~FirstUsed(gallery)'
    <3>1. Len(galleries) \in 1..(gallery' - 1)
      BY <1>1, <2>2, <2>5
    <3> QED
      BY <2>4, <3>1 DEF FirstUsed, After
  <2>7. jsFirst' = ~(js' /\ FirstUsed(gallery)')
    BY <2>5, <2>6, Zenon
  <2>8. ~(webCount' > 0)
    BY <2>5
  <2> QED
    BY <2>5, <2>7, <2>8, Zenon DEF HeaderInv
<1>6. CASE NoNextGallery
  <2>1. gallery' = 0 /\ ~firstTime'
    BY <1>6 DEF NoNextGallery, TurnPage
  <2> QED
    BY <2>1 DEF HeaderInv
<1> QED
  BY <1>4, <1>5, <1>6

LEMMA RecordHeader == ASSUME NumberInv, AddRecord PROVE HeaderInv'
<1>1. SiteInv
  BY DEF NumberInv, AlbumInv
<1>2. ~firstTime /\ webCount \in Nat
  BY <1>1, Writing
<1>3. firstTime' = firstTime /\ jsFirst' = FALSE /\ webCount' = webCount + 1
  BY DEF AddRecord
<1>4. webCount' # 0
  BY <1>2, <1>3
<1> QED
  BY <1>2, <1>3, <1>4 DEF HeaderInv

\* The numbering of one list of records.
Numbered(r, arrays) ==
  \A i \in 1..Len(r) :
    /\ r[i].index = i - 1
    /\ r[i].header = (i = 1 /\ arrays)
    /\ i > 1 => r[i - 1].image < r[i].image

LEMMA NumberedAppend ==
  ASSUME NEW r \in Seq(Record), NEW x \in Record, NEW arrays \in BOOLEAN,
         Numbered(r, arrays),
         x.index = Len(r),
         x.header = (Len(r) = 0 /\ arrays),
         \A i \in 1..Len(r) : r[i].image < x.image
  PROVE  Numbered(Append(r, x), arrays)
<1>1. /\ Len(r) \in Nat
      /\ Len(Append(r, x)) = Len(r) + 1
      /\ Append(r, x)[Len(r) + 1] = x
      /\ \A i \in 1..Len(r) : Append(r, x)[i] = r[i]
  OBVIOUS
<1> SUFFICES ASSUME NEW i \in 1..Len(r) + 1
             PROVE  /\ Append(r, x)[i].index = i - 1
                    /\ Append(r, x)[i].header = (i = 1 /\ arrays)
                    /\ i > 1 => Append(r, x)[i - 1].image < Append(r, x)[i].image
  BY <1>1 DEF Numbered
<1>2. CASE i \in 1..Len(r)
  <2>1. i > 1 => i - 1 \in 1..Len(r)
    BY <1>1, <1>2
  <2> QED
    BY <1>1, <1>2, <2>1 DEF Numbered
<1>3. CASE i = Len(r) + 1
  <2>1. i > 1 => i - 1 \in 1..Len(r)
    BY <1>1, <1>3
  <2>2. (i = 1) = (Len(r) = 0)
    BY <1>1, <1>3
  <2>3. Append(r, x)[i].index = i - 1
    BY <1>1, <1>3
  <2>4. Append(r, x)[i].header = (i = 1 /\ arrays)
    BY <1>1, <1>3, <2>2
  <2>5. i > 1 => Append(r, x)[i - 1].image < Append(r, x)[i].image
    BY <1>1, <1>3, <2>1
  <2> QED
    BY <2>3, <2>4, <2>5
<1> QED
  BY <1>1, <1>2, <1>3

GalleryNumbered(g) ==
  Len(Before(g)) <= Capacity /\ Numbered(Before(g), Arrays(g))

LEMMA NumberingOfGalleries ==
  GalleriesWellNumbered <=> \A g \in 1..Len(galleries) : GalleryNumbered(g)
  BY DEF GalleriesWellNumbered, WellNumbered, GalleryNumbered, Numbered, Before,
    Arrays

\* The galleries before g are the same after the step, so that it creates its
\* arrays after the step if it does before.
LEMMA SameArrays ==
  ASSUME NEW g \in 1..Len(galleries), Len(galleries) \in Nat,
         \A h \in 1..(g - 1) : After(h) = Before(h), js' = js
  PROVE  Arrays(g)' = Arrays(g)
<1>1. FirstUsed(g)' = FirstUsed(g)
  BY DEF FirstUsed, After, Before
<1> QED
  BY <1>1 DEF Arrays

LEMMA NumberingAfter ==
  ASSUME \A g \in 1..Len(galleries') :
           Len(After(g)) <= Capacity /\ Numbered(After(g), Arrays(g)')
  PROVE  GalleriesWellNumbered'
  BY DEF GalleriesWellNumbered, WellNumbered, Numbered, After, Arrays

LEMMA NumberStep ==
  ASSUME NumberInv, [Next]_vars
  PROVE  GalleriesWellNumbered'
<1>1. SiteInv /\ AlbumInv /\ HeaderInv
  BY DEF NumberInv, AlbumInv
<1>2. /\ Len(galleries) \in Nat
      /\ \A g \in 1..Len(galleries) :
           /\ Before(g) \in Seq(Record)
           /\ GalleryNumbered(g)
  BY <1>1, ListingTypes, NumberingOfGalleries DEF NumberInv
<1>3. js' = js
  BY DEF Next, vars, ShowFile, CloseSite, NothingToClose, OpenSite, NoRoot,
    NoFirstGallery, KeepGallery, NextGallery, NoNextGallery, AddRecord,
    NullStream, SourceGone, Extract, NotCreated, Resize, NotAJpeg, Stopped
<1>4. ASSUME NEW g \in 1..Len(galleries),
             \A h \in 1..g : After(h) = Before(h)
      PROVE  Len(After(g)) <= Capacity /\ Numbered(After(g), Arrays(g)')
  <2>1. g \in 1..g /\ \A h \in 1..(g - 1) : h \in 1..g
    BY <1>2
  <2>2. After(g) = Before(g) /\ \A h \in 1..(g - 1) : After(h) = Before(h)
    BY <1>4, <2>1
  <2>3. Arrays(g)' = Arrays(g)
    BY <1>2, <1>3, <2>2, SameArrays
  <2> QED
    BY <1>2, <2>2, <2>3 DEF GalleryNumbered
<1>5. CASE Kept
  <2> SUFFICES ASSUME NEW g \in 1..Len(galleries')
               PROVE  Len(After(g)) <= Capacity /\ Numbered(After(g), Arrays(g)')
    BY NumberingAfter
  <2>1. g \in 1..Len(galleries) /\ \A h \in 1..g : h \in 1..Len(galleries)
    BY <1>2, <1>5 DEF Kept
  <2>2. \A h \in 1..g : After(h) = Before(h)
    BY <1>5, <2>1 DEF Kept
  <2> QED
    BY <1>4, <2>1, <2>2
<1>6. CASE Opened
  <2> SUFFICES ASSUME NEW g \in 1..Len(galleries')
               PROVE  Len(After(g)) <= Capacity /\ Numbered(After(g), Arrays(g)')
    BY NumberingAfter
  <2>1. CASE g \in 1..Len(galleries)
    <3>1. \A h \in 1..g : h \in 1..Len(galleries)
      BY <1>2, <2>1
    <3>2. \A h \in 1..g : After(h) = Before(h)
      BY <1>6, <3>1 DEF Opened
    <3> QED
      BY <1>4, <2>1, <3>2
  <2>2. CASE g = Len(galleries) + 1
    <3>1. After(g) = <<>> /\ Len(<<>>) = 0
      BY <1>6, <2>2, EmptySeq DEF Opened
    <3> QED
      BY <3>1, CapacityAssumption DEF Numbered
  <2> QED
    BY <1>2, <1>6, <2>1, <2>2 DEF Opened
<1>7. CASE AddRecord /\ Written
  <2> SUFFICES ASSUME NEW g \in 1..Len(galleries')
               PROVE  Len(After(g)) <= Capacity /\ Numbered(After(g), Arrays(g)')
    BY NumberingAfter
  <2>1. g \in 1..Len(galleries) /\ gallery = Len(galleries)
    BY <1>7 DEF Written
  <2>2. \A h \in 1..(g - 1) : h \in 1..Len(galleries) /\ h # gallery
    BY <1>2, <2>1
  <2>3. \A h \in 1..(g - 1) : After(h) = Before(h)
    BY <1>7, <2>2 DEF Written
  <2>4. CASE g # gallery
    <3>1. After(g) = Before(g)
      BY <1>7, <2>1, <2>4 DEF Written
    <3>2. \A h \in 1..g : h = g \/ h \in 1..(g - 1)
      BY <1>2
    <3> QED
      BY <1>4, <2>1, <2>3, <3>1, <3>2
  <2>5. CASE g = gallery
    <3>1. /\ After(g) = Append(Before(g), NewRecord)
          /\ Len(Before(g)) = webCount /\ webCount < Capacity
          /\ Before(g) \in Seq(Record)
      BY <1>2, <1>7, <2>1, <2>5 DEF Written
    <3>2. NewRecord \in Record
      <4>1. n \in Number /\ webCount \in Nat /\ jsFirst \in BOOLEAN
        BY <1>1, <1>7, AtHand DEF Written, SiteInv, TypeOK
      <4> QED
        BY <4>1 DEF NewRecord, Record
    <3>3. Arrays(g)' = Arrays(g) /\ Arrays(g) \in BOOLEAN
      BY <1>2, <1>3, <2>1, <2>3, SameArrays DEF Arrays
    <3>4. Numbered(Before(g), Arrays(g))
      BY <1>2, <2>1 DEF GalleryNumbered
    <3>5. NewRecord.index = Len(Before(g)) /\ NewRecord.image = n
      BY <3>1 DEF NewRecord
    <3>6. NewRecord.header = (Len(Before(g)) = 0 /\ Arrays(g))
      <4>1. gallery # 0 /\ gallery = g /\ NewRecord.header = jsFirst
        BY <1>7, <2>5 DEF AddRecord, NewRecord
      <4>2. webCount = 0 => jsFirst = Arrays(g)
        BY <1>1, <4>1 DEF HeaderInv, Arrays
      <4>3. webCount # 0 => jsFirst = FALSE
        BY <1>1, <3>1, <4>1, CapacityAssumption DEF HeaderInv, SiteInv, TypeOK
      <4> QED
        BY <3>1, <3>3, <4>1, <4>2, <4>3
    <3>7. \A i \in 1..Len(Before(g)) : Before(g)[i].image < n
      <4>1. Unwritten = n
        BY <1>7 DEF AddRecord, Unwritten
      <4> QED
        BY <1>1, <2>1, <4>1 DEF AlbumInv, ImagesInv, Before
    <3>8. Numbered(After(g), Arrays(g)')
      BY <3>1, <3>2, <3>3, <3>4, <3>5, <3>6, <3>7, NumberedAppend
    <3>9. Len(After(g)) <= Capacity
      BY <3>1, <3>2, CapacityAssumption
    <3> QED
      BY <3>8, <3>9
  <2> QED
    BY <2>4, <2>5
<1> QED
  BY <1>1, <1>5, <1>6, <1>7, ThreeWays

LEMMA InitNumber == Init => NumberInv
<1> SUFFICES ASSUME Init PROVE NumberInv
  OBVIOUS
<1>1. galleries = <<>> /\ Len(galleries) = 0
  BY EmptySeq DEF Init
<1>2. HeaderInv
  BY <1>1 DEF Init, HeaderInv
<1>3. GalleriesWellNumbered
  BY <1>1 DEF GalleriesWellNumbered
<1> QED
  BY <1>2, <1>3, InitAlbum DEF NumberInv

\* In every gallery the arrays are created by the first record and by no
\* other, unless -js used up the flag for the first gallery; the records are
\* numbered from 0 in the order of the command line, and there are at most
\* Capacity of them: for every number of images and every order of failures.
THEOREM NumberingCorrect == Spec => []GalleriesWellNumbered
<1>1. Init => NumberInv
  BY InitNumber
<1>2. NumberInv /\ [Next]_vars => NumberInv'
  <2> SUFFICES ASSUME NumberInv, [Next]_vars PROVE NumberInv'
    OBVIOUS
  <2>1. AlbumInv /\ SiteInv
    BY DEF NumberInv, AlbumInv
  <2>2. AlbumInv'
    BY <2>1, AlbumStep
  <2>3. HeaderInv'
    BY Steps, QuietHeader, CloseHeader, OpenedHeader, RecordHeader
  <2> QED
    BY <2>2, <2>3, NumberStep DEF NumberInv
<1>3. NumberInv => GalleriesWellNumbered
  BY DEF NumberInv
<1> QED
  BY <1>1, <1>2, <1>3, PTL DEF Spec

-----------------------------------------------------------------------------
(* The indices that end the listings, and the listing of the site. *)

\* While every file could be opened, the site has one record per gallery, that of its
\* first image, which is at hand as long as the gallery is empty; only the open gallery
\* and the site lack the index that ends them.
GoodSite ==
  /\ firstTime => galleries = <<>>
  /\ ~firstTime => gallery # 0
  /\ Len(root.records) = rootCount /\ Len(galleries) = rootCount
  /\ CountRight(root)
  /\ WellNumbered(root, TRUE)
  /\ \A g \in 1..Len(galleries) :
       IF Before(g) = <<>>
         THEN pc = "record" /\ g = Len(galleries) /\ root.records[g].image = n
         ELSE root.records[g].image = Before(g)[1].image
  /\ \A g \in 1..Len(galleries) : g # gallery => galleries[g].count # NoCount
  /\ (pc = "finished" /\ galleries # <<>>) =>
       root.count # NoCount /\ galleries[gallery].count # NoCount

ListingInv ==
  /\ \A g \in 1..Len(galleries) : CountRight(galleries[g])
  /\ pc # "finished" /\ gallery # 0 => galleries[gallery].count = NoCount
  /\ pc # "finished" => root.count = NoCount
  /\ failed = {} => GoodSite

ListsInv == NumberInv /\ ListingInv

LEMMA AddToCount ==
  ASSUME NEW l \in Listing, NEW i, NEW h
  PROVE  AddTo(l, i, h).count = l.count
  BY DEF AddTo, Listing

LEMMA InitLists == Init => ListsInv
<1> SUFFICES ASSUME Init PROVE ListsInv
  OBVIOUS
<1>1. galleries = <<>> /\ Len(galleries) = 0 /\ gallery = 0 /\ firstTime /\ rootCount = 0
  BY EmptySeq DEF Init
<1>2. root.records = <<>> /\ Len(root.records) = 0 /\ root.count = NoCount
  BY EmptySeq DEF Init, EmptyListing
<1>3. GoodSite
  BY <1>1, <1>2 DEF GoodSite, CountRight, WellNumbered
<1> QED
  BY <1>1, <1>2, <1>3, InitNumber DEF ListsInv, ListingInv

LEMMA QuietLists == ASSUME ListsInv, Quiet PROVE ListingInv'
<1>1. SiteInv /\ ControlInv /\ HeaderInv /\ ListingInv
  BY DEF ListsInv, NumberInv, AlbumInv, SiteInv
<1>2. UNCHANGED <<galleries, gallery, root, firstTime, rootCount>>
  BY <1>1, QuietStep DEF lists
<1>3. CASE UNCHANGED vars
  BY <1>1, <1>2, <1>3
  DEF vars, ListingInv, GoodSite, CountRight, WellNumbered, Before
<1>4. CASE ~UNCHANGED vars
  <2>1. /\ pc # "finished"
        /\ pc' = "finished" => gallery = 0
        /\ pc = "record" => gallery = 0 /\ ~firstTime
        /\ failed' = {} => failed = {}
    BY <1>1, <1>4
    DEF Quiet, ShowFile, NothingToClose, KeepGallery, NullStream, SourceGone, Extract,
      NotCreated, Resize, NotAJpeg, GiveUp, ControlInv
  <2>2. /\ \A g \in 1..Len(galleries') : CountRight(galleries[g])'
        /\ pc' # "finished" /\ gallery' # 0 => galleries'[gallery'].count = NoCount
        /\ pc' # "finished" => (root.count)' = NoCount
    BY <1>1, <1>2, <2>1 DEF ListingInv, CountRight
  <2>3. ASSUME failed' = {} PROVE GoodSite'
    <3>1. GoodSite
      BY <1>1, <2>1, <2>3 DEF ListingInv
    <3>2. pc # "record" /\ (pc' = "finished" => galleries = <<>>)
      BY <2>1, <3>1 DEF GoodSite
    <3>3. \A g \in 1..Len(galleries) :
            Before(g) # <<>> /\ root.records[g].image = Before(g)[1].image
      BY <3>1, <3>2 DEF GoodSite
    <3> QED
      BY <1>2, <3>1, <3>2, <3>3 DEF GoodSite, CountRight, WellNumbered, Before
  <2> QED
    BY <2>2, <2>3 DEF ListingInv
<1> QED
  BY <1>3, <1>4

\* What ending the open gallery does to the indices.
LEMMA ClosingCounts ==
  ASSUME SiteInv, gallery # 0
  PROVE  /\ ClosedGalleries[gallery].count = webCount - 1
         /\ \A g \in 1..Len(galleries) : g # gallery => ClosedGalleries[g] = galleries[g]
<1>1. gallery \in 1..Len(galleries) /\ galleries \in Seq(Listing)
  BY DEF SiteInv, TypeOK
<1>2. galleries[gallery] \in Listing
  BY <1>1
<1> QED
  BY <1>1, <1>2 DEF ClosedGalleries, LastIndex, Listing

\* A gallery that is ended has the index of its last record, and one at least.
LEMMA ClosedRight ==
  ASSUME ListsInv, gallery # 0, pc \in {"next", "web"}
  PROVE  /\ \A g \in 1..Len(galleries) : CountRight(ClosedGalleries[g])
         /\ ClosedGalleries[gallery].count # NoCount
<1>1. SiteInv /\ HeaderInv /\ ListingInv
  BY DEF ListsInv, NumberInv, AlbumInv
<1>2. /\ webCount \in Nat \ {0} /\ webCount = Len(galleries[gallery].records)
      /\ gallery \in 1..Len(galleries)
  BY <1>1, CapacityAssumption DEF SiteInv, TypeOK, NewestInv, HeaderInv
<1>3. /\ ClosedGalleries[gallery].count = webCount - 1
      /\ \A g \in 1..Len(galleries) : g # gallery => ClosedGalleries[g] = galleries[g]
  BY <1>1, ClosingCounts
<1>4. \A g \in 1..Len(galleries) : ClosedGalleries[g].records = galleries[g].records
  BY <1>1, Closing
<1>5. webCount - 1 # NoCount
  BY <1>2 DEF NoCount
<1>6. \A g \in 1..Len(galleries) : CountRight(ClosedGalleries[g])
  <2> TAKE g \in 1..Len(galleries)
  <2>1. CASE g = gallery
    BY <1>2, <1>3, <1>4, <2>1 DEF CountRight
  <2>2. CASE g # gallery
    BY <1>1, <1>3, <2>2 DEF ListingInv
  <2> QED
    BY <2>1, <2>2
<1> QED
  BY <1>3, <1>5, <1>6

LEMMA CloseLists == ASSUME ListsInv, CloseSite PROVE ListingInv'
<1>1. SiteInv /\ HeaderInv /\ ListingInv
  BY DEF ListsInv, NumberInv, AlbumInv
<1>2. /\ gallery # 0 /\ galleries' = ClosedGalleries /\ pc = "next" /\ pc' = "finished"
      /\ UNCHANGED <<gallery, firstTime, rootCount, failed, n>>
      /\ root' = [root EXCEPT !.count = LastIndex(rootCount)]
  BY DEF CloseSite, ClosedGalleries, counters
<1>3. /\ Len(galleries') = Len(galleries)
      /\ \A g \in 1..Len(galleries) : galleries'[g].records = galleries[g].records
      /\ \A g \in 1..Len(galleries) : CountRight(galleries'[g])
      /\ galleries'[gallery].count # NoCount
      /\ \A g \in 1..Len(galleries) : g # gallery => galleries'[g] = galleries[g]
  BY <1>1, <1>2, Closing, ClosingCounts, ClosedRight
<1>4. root'.records = root.records /\ root'.count = rootCount - 1
  BY <1>1, <1>2 DEF SiteInv, TypeOK, Listing, LastIndex
<1>5. ASSUME failed = {} PROVE GoodSite'
  <2>1. GoodSite
    BY <1>1, <1>5 DEF ListingInv
  <2>2. rootCount \in Nat \ {0} /\ gallery \in 1..Len(galleries)
    BY <1>1, <1>2, <2>1 DEF GoodSite, SiteInv, TypeOK
  <2>3. root'.count # NoCount /\ CountRight(root')
    BY <1>4, <2>1, <2>2 DEF GoodSite, CountRight, NoCount
  <2>4. \A g \in 1..Len(galleries) :
          Before(g) # <<>> /\ root.records[g].image = Before(g)[1].image
    BY <1>2, <2>1 DEF GoodSite
  <2>5. WellNumbered(root', TRUE)
    BY <1>4, <2>1 DEF GoodSite, WellNumbered
  <2>6. galleries' # <<>>
    BY <1>3, <2>2, EmptySeq
  <2>7. \A g \in 1..Len(galleries') :
          /\ After(g) # <<>> /\ root'.records[g].image = After(g)[1].image
          /\ g # gallery => galleries'[g].count # NoCount
    BY <1>3, <1>4, <2>1, <2>4 DEF GoodSite, Before, After
  <2>8. \A g \in 1..Len(galleries') :
          IF (Before(g))' = <<>>
            THEN pc' = "record" /\ g = Len(galleries') /\ root'.records[g].image = n'
            ELSE root'.records[g].image = (Before(g))'[1].image
    BY <2>7 DEF Before, After
  <2>9. /\ firstTime' => galleries' = <<>>
        /\ ~firstTime' => gallery' # 0
        /\ Len(root'.records) = rootCount' /\ Len(galleries') = rootCount'
    BY <1>2, <1>3, <1>4, <2>1 DEF GoodSite
  <2> QED
    BY <1>2, <1>3, <2>3, <2>5, <2>7, <2>8, <2>9, Zenon DEF GoodSite
<1> QED
  BY <1>2, <1>3, <1>5 DEF ListingInv

LEMMA RecordsAppend ==
  ASSUME NEW s \in Seq(Record), NEW x \in Record
  PROVE  /\ Len(Append(s, x)) = Len(s) + 1
         /\ Append(s, x)[Len(s) + 1] = x
         /\ \A i \in 1..Len(s) : Append(s, x)[i] = s[i]
  OBVIOUS

\* A new gallery is not ended.
LEMMA NewCounts ==
  ASSUME NEW s \in Seq(Listing), galleries' = CreateGallery(s),
         \A g \in 1..Len(s) : CountRight(s[g])
  PROVE  /\ \A g \in 1..Len(galleries') : CountRight(galleries'[g])
         /\ galleries'[Len(galleries')].count = NoCount
<1>1. /\ Len(galleries') = Len(s) + 1 /\ Len(s) \in Nat
      /\ galleries'[Len(galleries')] = EmptyListing
      /\ \A g \in 1..Len(s) : galleries'[g] = s[g]
  BY Extended
<1>2. EmptyListing.count = NoCount
  BY DEF EmptyListing
<1>3. \A g \in 1..Len(galleries') : g \in 1..Len(s) \/ g = Len(galleries')
  BY <1>1
<1> QED
  BY <1>1, <1>2, <1>3 DEF CountRight

LEMMA FirstGalleryLists ==
  ASSUME ListsInv, OpenSite \/ NoRoot \/ NoFirstGallery
  PROVE  ListingInv'
<1>1. SiteInv /\ ListingInv /\ n \in Number
  <2>1. SiteInv /\ ListingInv /\ n > 0
    BY DEF ListsInv, NumberInv, AlbumInv, SiteInv, ControlInv, OpenSite, NoRoot,
      NoFirstGallery
  <2> QED
    BY <2>1, AtHand
<1>2. /\ galleries' = CreateGallery(galleries) /\ galleries \in Seq(Listing)
      /\ pc = "web" /\ firstTime /\ gallery = 0 /\ rootCount \in Nat
  BY <1>1 DEF OpenSite, NoRoot, NoFirstGallery, SiteInv, TypeOK, ControlInv
<1>3. /\ \A g \in 1..Len(galleries') : CountRight(galleries'[g])
      /\ galleries'[Len(galleries')].count = NoCount
  BY <1>1, <1>2, NewCounts DEF ListingInv
<1>4. CASE NoRoot \/ NoFirstGallery
  <2>1. gallery' = 0 /\ pc' = "next" /\ failed' # {}
    BY <1>2, <1>4 DEF NoRoot, NoFirstGallery, GiveUp
  <2>2. root'.count = NoCount
    <3>1. root' = root \/ root' = NewRoot
      BY <1>4 DEF NoRoot, NoFirstGallery
    <3>2. NewRoot.count = NoCount
      BY <1>2, AddToCount, EmptyIsListing DEF NewRoot, EmptyListing
    <3> QED
      BY <1>1, <1>2, <3>1, <3>2 DEF ListingInv
  <2> QED
    BY <1>3, <2>1, <2>2 DEF ListingInv, CountRight
<1>5. CASE OpenSite
  <2>1. /\ gallery' = Len(galleries') /\ root' = NewRoot /\ rootCount' = rootCount + 1
        /\ ~firstTime' /\ pc' = "record" /\ failed' = failed /\ n' = n
    BY <1>5 DEF OpenSite
  <2> DEFINE x == [index |-> rootCount, image |-> n, header |-> TRUE]
  <2>2. root'.count = NoCount /\ root'.records = Append(<<>>, x)
    <3>1. NewRoot.count = NoCount
      BY <1>2, AddToCount, EmptyIsListing DEF NewRoot, EmptyListing
    <3>2. NewRoot.records = Append(EmptyListing.records, x)
      BY <1>1, <1>2, AddToListing, EmptyIsListing DEF NewRoot
    <3> QED
      BY <2>1, <3>1, <3>2, EmptyIsListing
  <2>3. ASSUME failed = {} PROVE GoodSite'
    <3>1. galleries = <<>> /\ rootCount = 0 /\ Len(galleries) = 0
      BY <1>1, <1>2, <2>3, EmptySeq DEF ListingInv, GoodSite
    <3>2. /\ Len(galleries') = 1
          /\ galleries'[1].records = <<>>
      <4>1. /\ Len(galleries') = Len(galleries) + 1
            /\ galleries'[Len(galleries')].records = <<>>
        BY <1>2, NewEmpty
      <4> QED
        BY <3>1, <4>1
    <3>3. x \in Record /\ x.index = 0 /\ x.image = n /\ x.header = TRUE
      BY <1>1, <3>1 DEF Record
    <3>4. /\ Len(root'.records) = 1 /\ root'.records[1] = x
      <4>1. <<>> \in Seq(Record) /\ Len(<<>>) = 0
        BY EmptySeq
      <4> HIDE DEF x
      <4>2. /\ Len(Append(<<>>, x)) = 0 + 1
            /\ Append(<<>>, x)[0 + 1] = x
        BY <3>3, <4>1
      <4> QED
        BY <2>2, <4>2
    <3> HIDE DEF x
    <3>5. WellNumbered(root', TRUE)
      <4>1. \A i \in 1..Len(root'.records) : i = 1
        BY <3>4
      <4>2. x.header = (1 = 1 /\ TRUE) /\ x.index = 1 - 1 /\ ~(1 > 1)
        <5>1. x.index = 1 - 1 /\ ~(1 > 1)
          BY <3>3
        <5>2. x.header = (1 = 1 /\ TRUE)
          BY <3>3, Zenon
        <5> QED
          BY <5>1, <5>2
      <4>3. \A i \in 1..Len(root'.records) :
              /\ root'.records[i].index = i - 1
              /\ root'.records[i].header = (i = 1 /\ TRUE)
              /\ ~(i > 1)
        BY <3>4, <4>1, <4>2, Zenon
      <4> QED
        BY <4>3, Zenon DEF WellNumbered
    <3>6. \A g \in 1..Len(galleries') :
            /\ g = Len(galleries') /\ (Before(g))' = <<>> /\ root'.records[g].image = n'
            /\ ~(g # gallery')
      BY <2>1, <3>2, <3>3, <3>4 DEF Before
    <3>7. /\ Len(root'.records) = rootCount' /\ Len(galleries') = rootCount'
          /\ gallery' # 0 /\ CountRight(root') /\ pc' # "finished"
      BY <2>1, <2>2, <3>1, <3>2, <3>4 DEF CountRight
    <3> QED
      BY <2>1, <3>5, <3>6, <3>7, Zenon DEF GoodSite
  <2>4. gallery' # 0 => galleries'[gallery'].count = NoCount
    BY <1>3, <2>1
  <2> QED
    BY <1>3, <2>1, <2>2, <2>3, <2>4 DEF ListingInv
<1> QED
  BY <1>4, <1>5

LEMMA TurnPageLists ==
  ASSUME ListsInv, NextGallery \/ NoNextGallery
  PROVE  ListingInv'
<1>1. TurnPage
  BY DEF NextGallery, NoNextGallery
<1>2. SiteInv /\ ImagesInv /\ ListingInv
  BY DEF ListsInv, NumberInv, AlbumInv
<1>3. /\ pc = "web" /\ ~firstTime /\ n > 0 /\ n \in Number /\ gallery # 0
      /\ gallery = Len(galleries)
      /\ Len(galleries') = Len(galleries) + 1
      /\ galleries'[Len(galleries')].records = <<>>
      /\ \A g \in 1..Len(galleries) : galleries'[g].records = galleries[g].records
      /\ Len(galleries) \in Nat /\ rootCount \in Nat /\ root \in Listing
  BY <1>1, <1>2, Turning, AtHand DEF SiteInv, TypeOK
<1>4. galleries' = CreateGallery(ClosedGalleries)
  BY <1>1 DEF TurnPage, ClosedGalleries
<1>5. /\ ClosedGalleries \in Seq(Listing)
      /\ Len(ClosedGalleries) = Len(galleries)
      /\ \A g \in 1..Len(galleries) : CountRight(ClosedGalleries[g])
      /\ ClosedGalleries[gallery].count # NoCount
      /\ \A g \in 1..Len(galleries) : g # gallery => ClosedGalleries[g] = galleries[g]
  BY <1>2, <1>3, Closing, ClosingCounts, ClosedRight
<1>6. /\ \A g \in 1..Len(galleries') : CountRight(galleries'[g])
      /\ galleries'[Len(galleries')].count = NoCount
  BY <1>4, <1>5, NewCounts
<1>7. CASE NoNextGallery
  <2>1. gallery' = 0 /\ pc' = "next" /\ failed' # {} /\ root' = root
    BY <1>7 DEF NoNextGallery, GiveUp
  <2> QED
    BY <1>2, <1>3, <1>6, <2>1 DEF ListingInv
<1>8. CASE NextGallery
  <2>1. /\ gallery' = Len(galleries') /\ root' = RootRecord /\ rootCount' = rootCount + 1
        /\ firstTime' = firstTime /\ pc' = "record" /\ failed' = failed /\ n' = n
    BY <1>8 DEF NextGallery
  <2> DEFINE x == [index |-> rootCount, image |-> n, header |-> FALSE]
  <2>2. root'.count = NoCount /\ root'.records = Append(root.records, x)
    <3>1. RootRecord.count = root.count
      BY <1>3, AddToCount DEF RootRecord
    <3>2. RootRecord.records = Append(root.records, x)
      BY <1>3, AddToListing DEF RootRecord
    <3> QED
      BY <1>2, <1>3, <2>1, <3>1, <3>2 DEF ListingInv
  <2>3. ASSUME failed = {} PROVE GoodSite'
    <3>1. GoodSite
      BY <1>2, <2>3 DEF ListingInv
    <3>2. PICK m \in Nat \ {0} : /\ m = Len(galleries) /\ m = rootCount
                                 /\ m = Len(root.records) /\ m = gallery
      BY <1>3, <3>1 DEF GoodSite
    <3>3. \A g \in 1..m : Before(g) # <<>> /\ root.records[g].image = Before(g)[1].image
      BY <1>3, <3>1, <3>2 DEF GoodSite
    <3>4. root.records \in Seq(Record)
      BY <1>3 DEF Listing
    <3>5. x \in Record /\ x.index = m /\ x.image = n /\ x.header = FALSE
      BY <1>3, <3>2 DEF Record
    <3> HIDE DEF x
    <3>6. /\ Len(root'.records) = m + 1
          /\ root'.records[m + 1] = x
          /\ \A g \in 1..m : root'.records[g] = root.records[g]
      <4>1. /\ Len(Append(root.records, x)) = Len(root.records) + 1
            /\ Append(root.records, x)[Len(root.records) + 1] = x
            /\ \A g \in 1..Len(root.records) :
                 Append(root.records, x)[g] = root.records[g]
        BY <3>4, <3>5, RecordsAppend
      <4>2. Len(root.records) = m /\ root'.records = Append(root.records, x)
        BY <2>2, <3>2
      <4> QED
        BY <4>1, <4>2
    <3>7. \A g \in 1..m : root.records[g].image < x.image
      <4> TAKE g \in 1..m
      <4>1. Before(g) \in Seq(Record) /\ Before(g) # <<>>
        BY <1>2, <3>2, <3>3, ListingTypes
      <4>2. 1 \in 1..Len(Before(g))
        BY <4>1, EmptySeq
      <4>3. Before(g)[1].image < Unwritten
        BY <1>2, <3>2, <4>2 DEF ImagesInv, Before
      <4> QED
        BY <1>3, <3>3, <3>5, <4>3 DEF Unwritten
    <3>8. Numbered(root'.records, TRUE)
      <4>1. Numbered(root.records, TRUE)
        BY <3>1 DEF GoodSite, WellNumbered, Numbered
      <4>2. x.header = (Len(root.records) = 0 /\ TRUE)
        BY <3>2, <3>5
      <4> QED
        BY <2>2, <3>2, <3>4, <3>5, <3>7, <4>1, <4>2, NumberedAppend
    <3>9. WellNumbered(root', TRUE)
      BY <3>8 DEF WellNumbered, Numbered
    <3>10. \A g \in 1..Len(galleries') : g \in 1..m \/ g = m + 1
      BY <1>3, <3>2
    <3>11. \A g \in 1..m : /\ (Before(g))' = Before(g) /\ (Before(g))' # <<>>
                           /\ root'.records[g].image = (Before(g))'[1].image
      BY <1>3, <3>2, <3>3, <3>6 DEF Before
    <3>12. (Before(m + 1))' = <<>> /\ root'.records[m + 1].image = n'
      BY <1>3, <2>1, <3>2, <3>5, <3>6 DEF Before
    <3>13. \A g \in 1..Len(galleries') :
             IF (Before(g))' = <<>>
               THEN pc' = "record" /\ g = Len(galleries') /\ root'.records[g].image = n'
               ELSE root'.records[g].image = (Before(g))'[1].image
      BY <1>3, <2>1, <3>2, <3>10, <3>11, <3>12
    <3>14. \A g \in 1..Len(galleries') : g # gallery' => galleries'[g].count # NoCount
      <4>1. \A g \in 1..m : galleries'[g] = ClosedGalleries[g]
        BY <1>4, <1>5, <3>2, Extended
      <4>2. \A g \in 1..m : ClosedGalleries[g].count # NoCount
        BY <1>5, <3>1, <3>2 DEF GoodSite
      <4> QED
        BY <1>3, <2>1, <3>2, <3>10, <4>1, <4>2
    <3>15. /\ Len(root'.records) = rootCount' /\ Len(galleries') = rootCount'
           /\ gallery' # 0 /\ CountRight(root') /\ pc' # "finished" /\ ~firstTime'
      BY <1>3, <2>1, <2>2, <3>2, <3>6 DEF CountRight
    <3> QED
      BY <3>9, <3>13, <3>14, <3>15, Zenon DEF GoodSite
  <2>4. gallery' # 0 => galleries'[gallery'].count = NoCount
    BY <1>6, <2>1
  <2> QED
    BY <1>6, <2>1, <2>2, <2>3, <2>4 DEF ListingInv
<1> QED
  BY <1>7, <1>8

LEMMA RecordLists == ASSUME ListsInv, AddRecord PROVE ListingInv'
<1>1. SiteInv /\ ListingInv
  BY DEF ListsInv, NumberInv, AlbumInv
<1>2. /\ Written /\ gallery # 0 /\ n > 0 /\ gallery = Len(galleries)
      /\ gallery \in 1..Len(galleries) /\ pc = "record" /\ pc' # "finished"
      /\ pc' # "record"
      /\ UNCHANGED <<n, firstTime, rootCount, gallery, root, failed>>
  BY <1>1, RecordWrites, Writing DEF AddRecord
<1>3. /\ galleries \in Seq(Listing) /\ galleries[gallery] \in Listing
      /\ webCount \in Nat /\ jsFirst \in BOOLEAN
  BY <1>1, <1>2, Writing DEF SiteInv, TypeOK
<1>4. /\ Len(galleries') = Len(galleries)
      /\ galleries'[gallery].count = NoCount
      /\ \A g \in 1..Len(galleries) : g # gallery => galleries'[g] = galleries[g]
  <2>1. galleries' = LongerGalleries
    BY DEF AddRecord, LongerGalleries
  <2>2. LongerGalleries[gallery] = AddTo(galleries[gallery], webCount, jsFirst)
    BY <1>2, <1>3 DEF LongerGalleries
  <2>3. galleries'[gallery].count = NoCount
    BY <1>1, <1>2, <1>3, <2>1, <2>2, AddToCount DEF ListingInv
  <2> QED
    BY <1>1, <1>2, <2>1, <2>3, Recording
<1>5. \A g \in 1..Len(galleries') : CountRight(galleries'[g])
  BY <1>1, <1>4 DEF ListingInv, CountRight
<1>6. ASSUME failed = {} PROVE GoodSite'
  <2>1. GoodSite
    BY <1>1, <1>6 DEF ListingInv
  <2>2. NewRecord \in Record /\ NewRecord.image = n
    <3>1. n \in Number
      BY <1>1, <1>2, AtHand
    <3> QED
      BY <1>3, <3>1 DEF NewRecord, Record
  <2>3. Before(gallery) \in Seq(Record) /\ After(gallery) = Append(Before(gallery), NewRecord)
    BY <1>1, <1>2, ListingTypes DEF Written
  <2>4. After(gallery) # <<>> /\ root.records[gallery].image = After(gallery)[1].image
    <3>1. PICK m \in Nat : m = Len(Before(gallery))
      BY <2>3
    <3>2. /\ Len(After(gallery)) = m + 1 /\ After(gallery)[m + 1] = NewRecord
          /\ \A i \in 1..m : After(gallery)[i] = Before(gallery)[i]
      BY <2>2, <2>3, <3>1, RecordsAppend
    <3>3. After(gallery) # <<>>
      BY <3>1, <3>2, EmptySeq
    <3>4. CASE Before(gallery) = <<>>
      <4>1. root.records[gallery].image = n /\ m = 0
        BY <1>2, <2>1, <3>1, <3>4, EmptySeq DEF GoodSite
      <4> QED
        BY <2>2, <3>2, <3>3, <4>1
    <3>5. CASE Before(gallery) # <<>>
      <4>1. root.records[gallery].image = Before(gallery)[1].image
        BY <1>2, <2>1, <3>5 DEF GoodSite
      <4>2. 1 \in 1..m
        BY <2>3, <3>1, <3>5, EmptySeq
      <4> QED
        BY <3>2, <3>3, <4>1, <4>2
    <3> QED
      BY <3>4, <3>5
  <2>5. \A g \in 1..Len(galleries) : g # gallery =>
          After(g) # <<>> /\ root.records[g].image = After(g)[1].image
    BY <1>2, <2>1 DEF GoodSite, Written
  <2>6. \A g \in 1..Len(galleries') :
          (Before(g))' # <<>> /\ root'.records[g].image = (Before(g))'[1].image
    BY <1>2, <1>4, <2>4, <2>5 DEF Before, After
  <2>7. \A g \in 1..Len(galleries') : g # gallery' => galleries'[g].count # NoCount
    BY <1>2, <1>4, <2>1 DEF GoodSite
  <2>8. /\ Len(root'.records) = rootCount' /\ Len(galleries') = rootCount'
        /\ gallery' # 0 /\ CountRight(root') /\ WellNumbered(root', TRUE)
        /\ firstTime' => galleries' = <<>>
    BY <1>2, <1>4, <2>1, EmptySeq DEF GoodSite
  <2> QED
    BY <1>2, <2>6, <2>7, <2>8, Zenon DEF GoodSite
<1> QED
  BY <1>1, <1>2, <1>4, <1>5, <1>6 DEF ListingInv

LEMMA ListsInvariant == Spec => []ListsInv
<1>1. NumberInv /\ [Next]_vars => NumberInv'
  <2> SUFFICES ASSUME NumberInv, [Next]_vars PROVE NumberInv'
    OBVIOUS
  <2>1. AlbumInv /\ SiteInv
    BY DEF NumberInv, AlbumInv
  <2>2. AlbumInv'
    BY <2>1, AlbumStep
  <2>3. HeaderInv'
    BY Steps, QuietHeader, CloseHeader, OpenedHeader, RecordHeader
  <2> QED
    BY <2>2, <2>3, NumberStep DEF NumberInv
<1>2. ListsInv /\ [Next]_vars => ListsInv'
  BY <1>1, Steps, QuietLists, CloseLists, FirstGalleryLists, TurnPageLists, RecordLists
  DEF ListsInv
<1> QED
  BY <1>2, InitLists, PTL DEF Spec

\* An index that ends a listing is that of its last record, and at the end no listing
\* lacks it; the site has one record per gallery, that of its first image: as long as
\* every file could be opened, however many images there are.
THEOREM ListingsCorrect == Spec => []ListingsRight
<1>1. ListsInv => ListingsRight
  <2> SUFFICES ASSUME ListsInv PROVE CountsRight /\ RootListsGalleries
    BY DEF ListingsRight
  <2>1. SiteInv /\ ListingInv
    BY DEF ListsInv, NumberInv, AlbumInv
  <2>2. CountsRight
    <3>1. failed = {} => CountRight(root)
      BY <2>1 DEF ListingInv, GoodSite
    <3>2. ASSUME pc = "finished", failed = {}, galleries # <<>>
          PROVE  /\ root.count # NoCount
                 /\ \A g \in 1..Len(galleries) : galleries[g].count # NoCount
      <4>1. GoodSite
        BY <2>1, <3>2 DEF ListingInv
      <4> QED
        BY <3>2, <4>1 DEF GoodSite
    <3> QED
      BY <2>1, <3>1, <3>2 DEF ListingInv, CountsRight
  <2>3. RootListsGalleries
    BY <2>1 DEF ListingInv, GoodSite, RootListsGalleries, Before
  <2> QED
    BY <2>2, <2>3
<1> QED
  BY <1>1, ListsInvariant, PTL

-----------------------------------------------------------------------------
(* The places of the images, and their pictures. *)

At(k, g) == \E i \in 1..Len(galleries[g].records) : galleries[g].records[i].image = k

Between == {"next", "finished"}
Recorded == {"extract", "resize"}

\* An image that is not given up is in one gallery from AddRecord on.
PlaceInv ==
  /\ \A k \in 1..n \ failed :
       k < n \/ pc \in Between \cup Recorded => \E g \in 1..Len(galleries) : At(k, g)
  /\ \A g, h \in 1..Len(galleries) : \A k \in Number : At(k, g) /\ At(k, h) => g = h
  /\ pc \in Recorded => Len(galleries) > 0 /\ At(n, Len(galleries))

\* A picture is in the gallery of its image, and from Resize on there is one.
PictureInv ==
  /\ \A p \in pictures : p.gallery \in 1..Len(galleries) /\ At(p.image, p.gallery)
  /\ \A k \in 1..n \ failed :
       (k < n \/ pc \in Between) /\ ~Image[argv[k]].inDir => \E p \in pictures : p.image = k

\* The dimensions are those of the image at hand.
SizeInv ==
  failed = {} =>
    /\ pc \in Between => size = 0
    /\ pc \in {"web", "record"} \cup Recorded => size = IF Img.sof THEN n ELSE 0
    /\ \A p \in pictures : p.size = IF Image[argv[p.image]].sof THEN p.image ELSE 0

TempInv ==
  /\ pc \in Between \cup {"web", "record", "extract"} => temp = {}
  /\ pc = "resize" => temp \subseteq {n}

PicturesInv == AlbumInv /\ PlaceInv /\ PictureInv /\ SizeInv /\ TempInv

\* What a step does to the image at hand.
GivesUp ==
  /\ failed' = failed \cup {n} /\ pc' = "next"
  /\ pc \in {"web", "extract"}

Proceeds ==
  /\ failed' = failed
  /\ pc' \in Between => pc \in Between
  /\ pc' \in {"web", "record"} => pc \in {"web", "record"}
  /\ pc' \in Recorded => pc \in Recorded \/ AddRecord

LEMMA StepKinds ==
  ASSUME [Next]_vars
  PROVE  /\ argv' = argv
         /\ \/ ShowFile
            \/ Resize
            \/ UNCHANGED <<n, size, pictures>> /\ (GivesUp \/ Proceeds)
<1>1. argv' = argv
  BY DEF Next, vars, ShowFile, CloseSite, NothingToClose, OpenSite, NoRoot,
    NoFirstGallery, KeepGallery, NextGallery, NoNextGallery, AddRecord,
    NullStream, SourceGone, Extract, NotCreated, Resize, NotAJpeg, Stopped
<1>2. CASE NoRoot \/ NoFirstGallery \/ NoNextGallery \/ SourceGone
  BY <1>1, <1>2 DEF NoRoot, NoFirstGallery, NoNextGallery, TurnPage, SourceGone, GiveUp, GivesUp
<1>3. CASE \/ CloseSite \/ NothingToClose \/ OpenSite \/ KeepGallery \/ NextGallery
           \/ AddRecord \/ NullStream \/ Extract \/ NotCreated \/ NotAJpeg \/ UNCHANGED vars
  <2>1. UNCHANGED <<n, size, pictures, failed>>
    BY <1>3 DEF vars, CloseSite, NothingToClose, OpenSite, KeepGallery, NextGallery,
      AddRecord, NullStream, Extract, NotCreated, NotAJpeg
  <2>2. CASE AddRecord
    BY <1>1, <2>1, <2>2 DEF Proceeds, AddRecord, Between
  <2>3. CASE UNCHANGED vars
    BY <1>1, <2>1, <2>3 DEF Proceeds, vars
  <2>4. CASE \/ CloseSite \/ NothingToClose \/ OpenSite \/ KeepGallery \/ NextGallery
             \/ NullStream \/ Extract \/ NotCreated \/ NotAJpeg
    BY <1>1, <2>1, <2>4
    DEF Proceeds, Between, Recorded, CloseSite, NothingToClose, OpenSite, KeepGallery,
      NextGallery, TurnPage, NullStream, Extract, NotCreated, NotAJpeg
  <2> QED
    BY <1>3, <2>2, <2>3, <2>4
<1> QED
  BY <1>1, <1>2, <1>3 DEF Next, Stopped

\* A step that writes no record leaves every image where it is.
LEMMA AtKept ==
  ASSUME SiteInv, [Next]_vars, ~AddRecord
  PROVE  /\ Len(galleries) \in Nat /\ 1..Len(galleries) \subseteq 1..Len(galleries')
         /\ \A g \in 1..Len(galleries') : \A k :
              At(k, g)' <=> g \in 1..Len(galleries) /\ At(k, g)
<1>1. Len(galleries) \in Nat
  BY ListingTypes
<1>2. Kept \/ Opened
  BY ThreeWays
<1>3. CASE Kept
  BY <1>1, <1>3 DEF Kept, Before, After, At
<1>4. CASE Opened
  <2>1. Len(galleries') = Len(galleries) + 1
    BY <1>4 DEF Opened
  <2>2. \A g \in 1..Len(galleries) : galleries'[g].records = galleries[g].records
    BY <1>4 DEF Opened, Before, After
  <2>3. ASSUME NEW k, NEW g, g = Len(galleries) + 1 PROVE ~At(k, g)'
    <3>1. galleries'[Len(galleries) + 1].records = <<>> /\ Len(<<>>) = 0
      BY <1>4, EmptySeq DEF Opened, After
    <3> QED
      BY <2>3, <3>1 DEF At
  <2>4. \A g \in 1..Len(galleries') : g \in 1..Len(galleries) \/ g = Len(galleries) + 1
    BY <1>1, <2>1
  <2>5. Len(galleries) + 1 \notin 1..Len(galleries)
    BY <1>1
  <2>6. \A g \in 1..Len(galleries) : \A k : At(k, g)' <=> At(k, g)
    BY <2>2 DEF At
  <2>7. 1..Len(galleries) \subseteq 1..Len(galleries')
    BY <1>1, <2>1
  <2> QED
    BY <1>1, <2>3, <2>4, <2>5, <2>6, <2>7
<1> QED
  BY <1>2, <1>3, <1>4

\* A record puts the image at hand into the newest gallery.
LEMMA AtWritten ==
  ASSUME SiteInv, AddRecord
  PROVE  /\ Len(galleries) \in Nat /\ Len(galleries') = Len(galleries)
         /\ gallery = Len(galleries) /\ gallery \in 1..Len(galleries) /\ n \in Number
         /\ \A g \in 1..Len(galleries) : \A k :
              At(k, g)' <=> At(k, g) \/ (g = gallery /\ k = n)
<1>1. /\ Written /\ Len(galleries) \in Nat /\ gallery \in 1..Len(galleries)
      /\ \A g \in 1..Len(galleries) : Before(g) \in Seq(Record)
  BY RecordWrites, ListingTypes DEF Written
<1>2. n \in Number /\ NewRecord \in Record /\ NewRecord.image = n
  <2>1. n \in Number /\ webCount \in Nat /\ jsFirst \in BOOLEAN
    BY <1>1, AtHand, CapacityAssumption DEF Written, SiteInv, TypeOK
  <2> QED
    BY <2>1 DEF NewRecord, Record
<1>3. \A g \in 1..Len(galleries) : g # gallery => \A k : At(k, g)' <=> At(k, g)
  BY <1>1 DEF Written, Before, After, At
<1>4. ASSUME NEW k, NEW g, g = gallery PROVE At(k, g)' <=> At(k, g) \/ k = n
  <2>1. PICK m \in Nat : m = Len(Before(gallery))
    BY <1>1
  <2>2. /\ Len(After(gallery)) = m + 1 /\ After(gallery)[m + 1] = NewRecord
        /\ \A i \in 1..m : After(gallery)[i] = Before(gallery)[i]
    BY <1>1, <1>2, <2>1, RecordsAppend DEF Written
  <2>3. \A i \in 1..(m + 1) : i \in 1..m \/ i = m + 1
    BY <2>1
  <2>4. 1..m \subseteq 1..(m + 1) /\ m + 1 \in 1..(m + 1)
    BY <2>1
  <2>5. At(k, g) <=> \E i \in 1..m : Before(gallery)[i].image = k
    BY <1>4, <2>1 DEF At, Before
  <2>6. At(k, g)' <=> \E i \in 1..(m + 1) : After(gallery)[i].image = k
    BY <1>4, <2>2 DEF At, After
  <2> QED
    BY <1>2, <2>2, <2>3, <2>4, <2>5, <2>6
<1>5. \A g \in 1..Len(galleries) : \A k :
        At(k, g)' <=> At(k, g) \/ (g = gallery /\ k = n)
  BY <1>3, <1>4
<1> QED
  BY <1>1, <1>2, <1>5 DEF Written

\* The images of the records are earlier ones.
LEMMA AtEarlier ==
  ASSUME AlbumInv, NEW g \in 1..Len(galleries), NEW k, At(k, g)
  PROVE  k < Unwritten
  BY DEF AlbumInv, ImagesInv, At

LEMMA PlaceStep ==
  ASSUME PicturesInv, [Next]_vars
  PROVE  PlaceInv'
<1>1. AlbumInv /\ SiteInv /\ PlaceInv /\ n \in Nat
  BY DEF PicturesInv, AlbumInv, SiteInv, TypeOK
\* An image stays where it is.
<1>2. ASSUME NEW g \in 1..Len(galleries), NEW k, At(k, g)
      PROVE  g \in 1..Len(galleries') /\ At(k, g)'
  <2>1. CASE AddRecord
    BY <1>1, <1>2, <2>1, AtWritten
  <2>2. CASE ~AddRecord
    BY <1>1, <1>2, <2>2, AtKept
  <2> QED
    BY <2>1, <2>2
<1>3. ASSUME NEW k \in 1..n' \ failed', k < n' \/ pc' \in Between \cup Recorded
      PROVE  \E g \in 1..Len(galleries') : At(k, g)'
  <2>1. SUFFICES ASSUME ~(k = n /\ AddRecord)
                 PROVE  \E g \in 1..Len(galleries) : At(k, g)
    <3>1. ASSUME k = n, AddRecord PROVE \E g \in 1..Len(galleries') : At(k, g)'
      BY <1>1, <3>1, AtWritten
    <3>2. (\E g \in 1..Len(galleries) : At(k, g)) => \E g \in 1..Len(galleries') : At(k, g)'
      BY <1>2
    <3> QED
      BY <3>1, <3>2
  <2>2. k \in 1..n \ failed /\ (k < n \/ pc \in Between \cup Recorded)
    <3>1. CASE ShowFile
      <4>1. n' = n + 1 /\ pc = "next" /\ pc' = "web" /\ failed' = failed
        BY <3>1 DEF ShowFile
      <4>2. k < n + 1
        BY <1>3, <4>1 DEF Between, Recorded
      <4> QED
        BY <1>1, <1>3, <4>1, <4>2 DEF Between
    <3>2. CASE Resize
      BY <1>1, <1>3, <3>2 DEF Resize, Between, Recorded
    <3>3. CASE n' = n /\ GivesUp
      <4>1. k # n /\ k \in 1..n
        BY <1>3, <3>3 DEF GivesUp
      <4> QED
        BY <1>1, <1>3, <3>3, <4>1 DEF GivesUp
    <3>4. CASE n' = n /\ Proceeds
      <4>1. k < n \/ pc \in Between \cup Recorded \/ (k = n /\ AddRecord)
        BY <1>1, <1>3, <3>4 DEF Proceeds
      <4> QED
        BY <1>3, <2>1, <3>4, <4>1 DEF Proceeds
    <3> QED
      BY <3>1, <3>2, <3>3, <3>4, StepKinds
  <2> QED
    BY <1>1, <2>2 DEF PlaceInv
<1>4. ASSUME NEW g \in 1..Len(galleries'), NEW h \in 1..Len(galleries'), NEW k \in Number,
             At(k, g)', At(k, h)'
      PROVE  g = h
  <2>1. CASE ~AddRecord
    <3>1. /\ g \in 1..Len(galleries) /\ At(k, g)
          /\ h \in 1..Len(galleries) /\ At(k, h)
      BY <1>1, <1>4, <2>1, AtKept
    <3> QED
      BY <1>1, <3>1 DEF PlaceInv
  <2>2. CASE AddRecord
    <3>1. /\ g \in 1..Len(galleries) /\ h \in 1..Len(galleries)
          /\ At(k, g) \/ (g = gallery /\ k = n)
          /\ At(k, h) \/ (h = gallery /\ k = n)
      BY <1>1, <1>4, <2>2, AtWritten
    <3>2. Unwritten = n
      BY <2>2 DEF AddRecord, Unwritten
    <3>3. k = n => ~At(k, g) /\ ~At(k, h)
      BY <1>1, <3>1, <3>2, AtEarlier
    <3> QED
      BY <1>1, <3>1, <3>3 DEF PlaceInv
  <2> QED
    BY <2>1, <2>2
<1>5. ASSUME pc' \in Recorded
      PROVE  Len(galleries') > 0 /\ At(n, Len(galleries))'
  <2>1. n' = n
    BY <1>5, StepKinds DEF ShowFile, Resize, Recorded
  <2>2. CASE AddRecord
    <3>1. /\ Len(galleries') = gallery /\ gallery \in 1..Len(galleries)
          /\ Len(galleries) \in Nat
          /\ \A g \in 1..Len(galleries) : \A k :
               At(k, g)' <=> At(k, g) \/ (g = gallery /\ k = n)
      BY <1>1, <2>2, AtWritten
    <3>2. \E g : g = gallery /\ At(n, g)'
      BY <2>1, <3>1
    <3> QED
      BY <3>1, <3>2
  <2>3. CASE ~AddRecord
    <3>1. pc \in Recorded
      BY <1>5, <2>3, StepKinds DEF ShowFile, Resize, GivesUp, Proceeds, Recorded
    <3>2. galleries' = galleries
      BY <1>5, <2>3, <3>1
      DEF Next, vars, lists, ShowFile, CloseSite, NothingToClose, OpenSite, NoRoot,
        NoFirstGallery, KeepGallery, NextGallery, NoNextGallery, TurnPage,
        NullStream, SourceGone, Extract, NotCreated, Resize, NotAJpeg, Stopped, Recorded
    <3> QED
      BY <1>1, <2>1, <3>1, <3>2 DEF PlaceInv, At
  <2> QED
    BY <2>2, <2>3
<1> QED
  BY <1>3, <1>4, <1>5 DEF PlaceInv

LEMMA PictureStep ==
  ASSUME PicturesInv, [Next]_vars
  PROVE  PictureInv'
<1>1. AlbumInv /\ SiteInv /\ PlaceInv /\ PictureInv /\ n \in Nat
  BY DEF PicturesInv, AlbumInv, SiteInv, TypeOK
<1>2. ASSUME NEW g \in 1..Len(galleries), NEW k, At(k, g)
      PROVE  g \in 1..Len(galleries') /\ At(k, g)'
  <2>1. CASE AddRecord
    BY <1>1, <1>2, <2>1, AtWritten
  <2>2. CASE ~AddRecord
    BY <1>1, <1>2, <2>2, AtKept
  <2> QED
    BY <2>1, <2>2
<1>3. argv' = argv
  BY StepKinds
<1>4. ASSUME NEW p \in pictures'
      PROVE  p.gallery \in 1..Len(galleries') /\ At(p.image, p.gallery)'
  <2>1. p.gallery \in 1..Len(galleries) /\ At(p.image, p.gallery)
    <3>1. CASE p \in pictures
      BY <1>1, <3>1 DEF PictureInv
    <3>2. CASE p \notin pictures
      <4>1. Resize
        BY <1>4, <3>2, StepKinds DEF ShowFile
      <4>2. p \in Saved
        BY <1>4, <3>2, <4>1 DEF Resize
      <4>3. p.gallery = Len(galleries) /\ p.image = n
        BY <4>2 DEF Saved
      <4>4. Len(galleries) > 0 /\ At(n, Len(galleries)) /\ Len(galleries) \in Nat
        BY <1>1, <4>1, ListingTypes DEF Resize, PlaceInv, Recorded
      <4> QED
        BY <4>3, <4>4
    <3> QED
      BY <3>1, <3>2
  <2> QED
    BY <1>2, <2>1
<1>5. ASSUME NEW k \in 1..n' \ failed', k < n' \/ pc' \in Between, ~Image[argv[k]].inDir
      PROVE  \E p \in pictures' : p.image = k
  <2>1. CASE ShowFile
    <3>1. /\ n' = n + 1 /\ pc = "next" /\ pc' = "web" /\ failed' = failed
          /\ pictures' = pictures
      BY <2>1 DEF ShowFile
    <3>2. k < n + 1
      BY <1>5, <3>1 DEF Between
    <3>3. k \in 1..n \ failed /\ pc \in Between
      BY <1>1, <1>5, <3>1, <3>2 DEF Between
    <3> QED
      BY <1>1, <1>5, <3>1, <3>3 DEF PictureInv
  <2>2. CASE Resize
    <3>1. n' = n /\ failed' = failed /\ pictures' = pictures \cup Saved
      BY <2>2 DEF Resize
    <3>2. CASE k = n
      <4>1. ~Img.inDir
        BY <1>5, <3>2 DEF Img
      <4>2. [gallery |-> Len(galleries), image |-> n, size |-> size, turned |-> IsTurned]
              \in Saved
        BY <4>1 DEF Saved
      <4> QED
        BY <3>1, <3>2, <4>2
    <3>3. CASE k # n
      <4>1. k \in 1..n \ failed /\ k < n
        BY <1>1, <1>5, <3>1, <3>3
      <4> QED
        BY <1>1, <1>5, <3>1, <4>1 DEF PictureInv
    <3> QED
      BY <3>2, <3>3
  <2>3. CASE UNCHANGED <<n, pictures>> /\ GivesUp
    <3>1. k \in 1..n \ failed /\ k < n
      BY <1>1, <1>5, <2>3 DEF GivesUp
    <3> QED
      BY <1>1, <1>5, <2>3, <3>1 DEF PictureInv
  <2>4. CASE UNCHANGED <<n, pictures>> /\ Proceeds
    <3>1. k \in 1..n \ failed /\ (k < n \/ pc \in Between)
      BY <1>5, <2>4 DEF Proceeds
    <3> QED
      BY <1>1, <1>5, <2>4, <3>1 DEF PictureInv
  <2> QED
    BY <2>1, <2>2, <2>3, <2>4, StepKinds
<1> QED
  BY <1>3, <1>4, <1>5 DEF PictureInv

LEMMA SizeStep ==
  ASSUME PicturesInv, [Next]_vars
  PROVE  SizeInv'
<1>1. AlbumInv /\ SiteInv /\ SizeInv /\ n \in Nat /\ argv' = argv
  BY StepKinds DEF PicturesInv, AlbumInv, SiteInv, TypeOK
<1>2. CASE ShowFile
  <2>1. /\ UNCHANGED <<failed, pictures>> /\ n' = n + 1 /\ pc = "next" /\ pc' = "web"
        /\ size' = IF Image[argv[n + 1]].sof THEN n + 1 ELSE size
    BY <1>2 DEF ShowFile
  <2> QED
    BY <1>1, <2>1 DEF SizeInv, Between, Recorded, Img
<1>3. CASE Resize
  <2>1. /\ UNCHANGED <<failed, n>> /\ pc = "resize" /\ pc' = "next" /\ size' = 0
        /\ pictures' = pictures \cup Saved
    BY <1>3 DEF Resize, SizeReset
  <2>2. \A p \in Saved : p.image = n /\ p.size = size
    BY DEF Saved
  <2> QED
    BY <1>1, <2>1, <2>2 DEF SizeInv, Between, Recorded, Img
<1>4. CASE UNCHANGED <<n, size, pictures>> /\ GivesUp
  BY <1>4 DEF GivesUp, SizeInv
<1>5. CASE UNCHANGED <<n, size, pictures>> /\ Proceeds
  <2>1. AddRecord => pc = "record"
    BY DEF AddRecord
  <2> QED
    BY <1>1, <1>5, <2>1 DEF Proceeds, SizeInv, Between, Recorded, Img
<1> QED
  BY <1>2, <1>3, <1>4, <1>5, StepKinds

LEMMA TempStep ==
  ASSUME PicturesInv, [Next]_vars
  PROVE  TempInv'
<1>1. TempInv /\ n \in Nat
  BY DEF PicturesInv, AlbumInv, SiteInv, TypeOK
<1>2. CASE Resize
  BY <1>1, <1>2 DEF Resize, RemoveTemp, TempInv
<1>3. CASE Extract
  BY <1>1, <1>3 DEF Extract, TempInv, Between
<1>4. CASE AddRecord
  BY <1>1, <1>4 DEF AddRecord, TempInv, Between
<1>5. CASE UNCHANGED vars
  BY <1>1, <1>5 DEF vars, TempInv
<1>6. CASE \/ ShowFile \/ CloseSite \/ NothingToClose \/ OpenSite \/ NoRoot \/ NoFirstGallery
           \/ KeepGallery \/ NextGallery \/ NoNextGallery \/ NullStream \/ SourceGone
           \/ NotCreated \/ NotAJpeg
  BY <1>1, <1>6
  DEF ShowFile, CloseSite, NothingToClose, OpenSite, NoRoot, NoFirstGallery, KeepGallery,
    NextGallery, NoNextGallery, TurnPage, GiveUp, NullStream, SourceGone, NotCreated,
    NotAJpeg, TempInv, Between
<1> QED
  BY <1>2, <1>3, <1>4, <1>5, <1>6 DEF Next, Stopped

LEMMA InitPictures == Init => PicturesInv
<1> SUFFICES ASSUME Init PROVE PicturesInv
  OBVIOUS
<1>1. /\ n = 0 /\ pc = "next" /\ galleries = <<>> /\ Len(galleries) = 0 /\ pictures = {}
      /\ size = 0 /\ temp = {} /\ failed = {}
  BY EmptySeq DEF Init
<1>2. PlaceInv /\ PictureInv /\ SizeInv /\ TempInv
  BY <1>1 DEF PlaceInv, PictureInv, SizeInv, TempInv, Between, Recorded
<1> QED
  BY <1>2, InitAlbum DEF PicturesInv

\* The galleries of an image are those of its pictures.
LEMMA PlacesRight ==
  ASSUME PicturesInv, pc \in Between
  PROVE  EveryImagePictured
<1> SUFFICES ASSUME NEW k \in 1..n \ failed
             PROVE  /\ Cardinality(PlacesOf(k)) = 1
                    /\ Image[argv[k]].inDir \/
                         {p.gallery : p \in {q \in pictures : q.image = k}} = PlacesOf(k)
  BY DEF EveryImagePictured
<1>1. SiteInv /\ PlaceInv /\ PictureInv /\ k \in Number
  BY BoundAssumption DEF PicturesInv, AlbumInv, SiteInv, TypeOK, Number
<1>2. PICK g \in 1..Len(galleries) : At(k, g)
  BY <1>1 DEF PlaceInv
<1>3. \A h \in 1..Len(galleries) : At(k, h) => h = g
  BY <1>1, <1>2 DEF PlaceInv
<1>4. PlacesOf(k) = {g}
  BY <1>2, <1>3 DEF PlacesOf, At
<1>5. Cardinality({g}) = 1
  BY FS_Singleton
<1>6. ASSUME ~Image[argv[k]].inDir
      PROVE  {p.gallery : p \in {q \in pictures : q.image = k}} = {g}
  <2>1. PICK p \in pictures : p.image = k
    BY <1>1, <1>6 DEF PictureInv
  <2>2. \A q \in pictures : q.image = k => q.gallery = g
    BY <1>1, <1>3 DEF PictureInv
  <2> QED
    BY <2>1, <2>2
<1> QED
  BY <1>4, <1>5, <1>6

\* Every image that is not given up is in one gallery, with its own pictures, and the
\* temp directory is empty again: for every number of images and every order of
\* failures.
THEOREM PicturesCorrect == Spec => []PicturesRight
<1>1. PicturesInv /\ [Next]_vars => PicturesInv'
  BY AlbumStep, PlaceStep, PictureStep, SizeStep, TempStep DEF PicturesInv
<1>2. PicturesInv => PicturesRight
  <2> SUFFICES ASSUME PicturesInv PROVE PicturesRight
    OBVIOUS
  <2>1. EveryImagePictured
    BY PlacesRight DEF EveryImagePictured, Between
  <2>2. SizedByItself
    BY DEF PicturesInv, SizeInv, SizedByItself
  <2>3. TempEmptied
    BY DEF PicturesInv, TempInv, TempEmptied, Between
  <2> QED
    BY <2>1, <2>2, <2>3 DEF PicturesRight
<1> QED
  BY <1>1, <1>2, InitPictures, PTL DEF Spec

-----------------------------------------------------------------------------
(* The sizes of the pictures: the operators of Pictures for every image,     *)
(* where MCAlgorithms evaluates them for small ones.                         *)

-----------------------------------------------------------------------------
(* Products and quotients. *)

\* What integer division of C gives for numbers that are not negative.
LEMMA DivMod ==
  ASSUME NEW a \in Nat, NEW b \in Nat \ {0}
  PROVE  /\ a \div b \in Nat
         /\ (a \div b) * b <= a
         /\ a < (a \div b) * b + b
  OBVIOUS

\* Products by the same factor are in the order of what is multiplied.
LEMMA TimesKeeps ==
  ASSUME NEW a \in Nat, NEW b \in Nat, a <= b, NEW c \in Nat
  PROVE  a * c <= b * c
  OBVIOUS

LEMMA TimesLess ==
  ASSUME NEW a \in Nat, NEW b \in Nat, NEW c \in Nat, a * c < b * c
  PROVE  a < b
  OBVIOUS

LEMMA TimesMost ==
  ASSUME NEW a \in Nat, NEW b \in Nat, NEW c \in Nat \ {0}, a * c <= b * c
  PROVE  a <= b
  OBVIOUS

LEMMA TimesType ==
  ASSUME NEW a \in Nat, NEW b \in Nat
  PROVE  a * b \in Nat /\ a * b = b * a /\ (a + 1) * b = a * b + b
  OBVIOUS

\* A quotient is below m when the dividend is below m times the divisor.
LEMMA DivBelow ==
  ASSUME NEW a \in Nat, NEW b \in Nat \ {0}, NEW m \in Nat, a < m * b
  PROVE  a \div b < m
  <1>1. PICK q \in Nat : q = a \div b /\ q * b <= a
    BY DivMod
  <1>2. q * b \in Nat /\ m * b \in Nat
    BY TimesType
  <1>3. q * b < m * b
    BY <1>1, <1>2
  <1> QED
    BY <1>1, <1>3, TimesLess

\* A quotient is at most m when the dividend is at most m times the divisor.
LEMMA DivAtMost ==
  ASSUME NEW a \in Nat, NEW b \in Nat \ {0}, NEW m \in Nat, a <= m * b
  PROVE  a \div b <= m
  <1>1. PICK q \in Nat : q = a \div b /\ q * b <= a
    BY DivMod
  <1>2. q * b \in Nat /\ m * b \in Nat
    BY TimesType
  <1>3. q * b <= m * b
    BY <1>1, <1>2
  <1> QED
    BY <1>1, <1>3, TimesMost

-----------------------------------------------------------------------------
(* The size of a picture. *)

\* The width of the page of a standing picture, and the height that resize makes of it.
LEMMA StandingFits ==
  ASSUME NEW l \in Nat \ {0}, NEW w \in Nat \ {0}, NEW h \in Nat \ {0}, w <= h,
         NEW pw, pw = (l * w) \div h, NEW ph, ph = (pw * h) \div w
  PROVE  pw \in Nat /\ pw <= l /\ ph \in Nat /\ ph <= l /\ (l - ph - 1) * w < h
  <1>1. PICK lw \in Nat : lw = l * w
    BY TimesType
  <1>2. pw \in Nat /\ pw * h <= lw /\ lw < pw * h + h
    BY <1>1, DivMod
  <1>3. PICK pwh \in Nat : pwh = pw * h
    BY <1>2, TimesType
  <1>4. ph \in Nat /\ ph * w <= pwh /\ pwh < ph * w + w
    BY <1>3, DivMod
  <1>5. lw <= l * h
    <2>1. w * l <= h * l
      BY TimesKeeps
    <2> QED
      BY <1>1, <2>1, TimesType
  <1>6. pw <= l
    BY <1>1, <1>5, DivAtMost
  <1>7. pwh <= l * w
    BY <1>1, <1>2, <1>3
  <1>8. ph <= l
    BY <1>3, <1>7, DivAtMost
  <1>9. PICK phw \in Nat : phw = ph * w
    BY <1>4, TimesType
  <1>10. (l - ph - 1) * w = lw - phw - w
    <2>1. \A x, y, z \in Int : (x - y - 1) * z = x * z - y * z - z
      OBVIOUS
    <2> QED
      BY <1>1, <1>4, <1>9, <2>1
  <1>11. lw - phw - w < h
    BY <1>2, <1>3, <1>4, <1>9
  <1> QED
    BY <1>2, <1>4, <1>6, <1>8, <1>10, <1>11

\* What an input of MCAlgorithms has in common with a Photo.
IsPhoto(p) ==
  /\ p.width \in 1..MaxSide /\ p.height \in 1..MaxSide
  /\ p.orientation \in {"1", "6", "8", "X"} /\ p.nef \in BOOLEAN

\* What is known of a photo and of the page that shows it.
LEMMA PhotoFacts ==
  ASSUME NEW p, IsPhoto(p), LARGE_IMAGE_LENGTH \in Nat \ {0},
         NEW page, page = PageSize(p), NEW src, src = Source(p)
  PROVE  /\ p.width \in Nat \ {0} /\ p.height \in Nat \ {0}
         /\ p.orientation \in {"1", "6", "8", "X"} /\ p.nef \in BOOLEAN
         /\ src.width \in Nat \ {0} /\ src.height \in Nat \ {0}
         /\ src.width \in 1..MaxSide /\ src.height \in 1..MaxSide
         /\ page.width \in Nat
  <1>1. /\ p.width \in Nat \ {0} /\ p.height \in Nat \ {0}
        /\ p.orientation \in {"1", "6", "8", "X"} /\ p.nef \in BOOLEAN
    BY DEF IsPhoto
  <1>2. /\ src.width \in Nat \ {0} /\ src.height \in Nat \ {0}
        /\ src.width \in 1..MaxSide /\ src.height \in 1..MaxSide
    BY <1>1 DEF Source, IsPhoto
  <1>3. /\ (LARGE_IMAGE_LENGTH * p.width) \div p.height \in Nat
        /\ (LARGE_IMAGE_LENGTH * p.height) \div p.width \in Nat
    <2>1. LARGE_IMAGE_LENGTH * p.width \in Nat /\ LARGE_IMAGE_LENGTH * p.height \in Nat
      BY <1>1, TimesType
    <2> QED
      BY <1>1, <2>1, DivMod
  <1>4. page.width \in Nat
    BY <1>3 DEF PageSize, VerticalPage, HorizontalPage
  <1> QED
    BY <1>1, <1>2, <1>4

\* A picture that stands has the page of StandingFits, one that lies a page as wide as
\* the page can be.
LEMMA SizesRight ==
  ASSUME NEW p, IsPhoto(p), LARGE_IMAGE_LENGTH \in Nat \ {0},
         NEW page, page = PageSize(p), NEW src, src = Source(p),
         NEW picture, picture = Resized(src, page.width)
  PROVE  SizesAgree(p, page, picture)
  <1> DEFINE L == LARGE_IMAGE_LENGTH
  <1>1. /\ p.width \in Nat \ {0} /\ p.height \in Nat \ {0}
        /\ p.orientation \in {"1", "6", "8", "X"} /\ p.nef \in BOOLEAN
        /\ src.width \in Nat \ {0} /\ src.height \in Nat \ {0}
        /\ page.width \in Nat
    BY PhotoFacts
  <1>2. picture.width = page.width /\ picture.height = (page.width * src.height) \div src.width
    BY DEF Resized
  <1> SUFFICES ASSUME ~Distorted(p), page.width # 0
               PROVE  /\ page.width <= L /\ page.height <= L
                      /\ picture.height <= page.height
                      /\ (page.height - picture.height - 1) * src.width < src.height
                      /\ ~Vertical(p) => picture.height = page.height
    BY <1>2 DEF SizesAgree
  <1>3. CASE ~Vertical(p)
    <2>1. p.orientation \in {"1", "X"} /\ p.height <= p.width
      BY <1>1, <1>3 DEF Vertical
    <2>2. src.width = p.width /\ src.height = p.height
      BY <2>1 DEF Source, Turned
    <2>3. page.width = L /\ page.height = (L * p.height) \div p.width
      BY <1>3 DEF PageSize, HorizontalPage
    <2>4. picture.height = page.height
      BY <1>2, <2>2, <2>3
    <2>5. page.height \in Nat /\ page.height <= L
      <3>1. PICK m \in Nat : m = L * p.height
        BY <1>1, TimesType
      <3>2. p.height * L <= p.width * L
        BY <1>1, <2>1, TimesKeeps
      <3>3. m <= L * p.width
        BY <1>1, <3>1, <3>2, TimesType
      <3> QED
        BY <1>1, <2>3, <3>1, <3>3, DivAtMost, DivMod
    <2>6. (page.height - picture.height - 1) * src.width < src.height
      <3>1. page.height - picture.height - 1 = -1
        BY <2>4, <2>5
      <3>2. (-1) * src.width = -src.width
        BY <1>1
      <3> QED
        BY <1>1, <3>1, <3>2
    <2> QED
      BY <1>3, <2>3, <2>4, <2>5, <2>6
  <1>4. CASE Vertical(p)
    <2>1. page.height = L
      BY <1>4 DEF PageSize, VerticalPage
    <2>2. page.width = (L * src.width) \div src.height /\ src.width <= src.height
      <3>1. CASE p.orientation \in {"1", "X"}
        <4>1. p.height > p.width
          BY <1>4, <3>1 DEF Vertical
        <4>2. src.width = p.width /\ src.height = p.height
          BY <3>1 DEF Source, Turned
        <4>3. page.width = (L * p.width) \div p.height
          BY <1>4, <3>1 DEF PageSize, VerticalPage
        <4> QED
          BY <1>1, <4>1, <4>2, <4>3
      <3>2. CASE p.orientation \in {"6", "8"} /\ p.nef
        <4>1. ~(p.height > p.width)
          BY <3>2 DEF Distorted
        <4>2. src.width = p.height /\ src.height = p.width
          BY <3>2 DEF Source, Turned
        <4>3. page.width = (L * p.height) \div p.width
          BY <1>4, <3>2, <4>1 DEF PageSize, VerticalPage
        <4> QED
          BY <1>1, <4>1, <4>2, <4>3
      <3>3. CASE p.orientation \in {"6", "8"} /\ ~p.nef
        <4>1. ~(p.width > p.height)
          BY <3>3 DEF Distorted
        <4>2. src.width = p.width /\ src.height = p.height
          BY <3>3 DEF Source, Turned
        <4>3. CASE p.height > p.width
          <5>1. page.width = (L * p.width) \div p.height
            BY <1>4, <4>3 DEF PageSize, VerticalPage
          <5> QED
            BY <1>1, <4>1, <4>2, <5>1
        <4>4. CASE ~(p.height > p.width)
          <5>1. p.width = p.height
            BY <1>1, <4>1, <4>4
          <5>2. page.width = (L * p.height) \div p.width
            BY <1>4, <3>3, <4>4 DEF PageSize, VerticalPage
          <5> QED
            BY <1>1, <4>2, <5>1, <5>2
        <4> QED
          BY <4>3, <4>4
      <3> QED
        BY <1>1, <3>1, <3>2, <3>3
    <2>3. PICK w, h, pw, ph : w = src.width /\ h = src.height /\ pw = page.width /\ ph = picture.height
      OBVIOUS
    <2>4. pw = (L * w) \div h /\ ph = (pw * h) \div w /\ w <= h /\ w \in Nat \ {0} /\ h \in Nat \ {0}
      BY <1>1, <1>2, <2>2, <2>3
    <2>5. pw \in Nat /\ pw <= L /\ ph \in Nat /\ ph <= L /\ (L - ph - 1) * w < h
      BY <2>4, StandingFits
    <2> QED
      BY <1>4, <2>1, <2>3, <2>5
  <1> QED
    BY <1>3, <1>4

-----------------------------------------------------------------------------
(* The floats. *)

LEMMA Least ==
  ASSUME NEW T \in SUBSET Nat, T # {}
  PROVE  \E m \in T : \A k \in T : m <= k
<1>1. IsWellFoundedOn(OpToRel(<, Nat), Nat)
  BY NatLessThanWellFounded
<1>2. PICK m \in T : \A k \in T : ~(<<k, m>> \in OpToRel(<, Nat))
  BY <1>1, WFMin
<1>3. \A k, l \in Nat : k < l => <<k, l>> \in OpToRel(<, Nat)
  BY DEF OpToRel
<1>4. m \in Nat /\ \A k \in T : k \in Nat
  OBVIOUS
<1>5. \A k \in T : ~(k < m)
  BY <1>2, <1>3, <1>4, Zenon
<1> QED  BY <1>4, <1>5, SMT

\* Rounding is at most half of the divisor off.
LEMMA NearestNear ==
  ASSUME NEW num \in Nat, NEW m \in Nat \ {0}
  PROVE  /\ Nearest(num, m) \in Nat
         /\ 2 * (Nearest(num, m) * m) <= 2 * num + m
         /\ 2 * num <= 2 * (Nearest(num, m) * m) + m
  <1>1. PICK q \in Nat : q = num \div m /\ q * m <= num /\ num < q * m + m
    BY DivMod
  <1>2. PICK qm \in Nat : qm = q * m
    BY TimesType
  <1>3. num % m = num - qm
    <2>1. num = m * (num \div m) + (num % m)
      OBVIOUS
    <2> QED
      BY <1>1, <1>2, <2>1, TimesType
  <1>4. CASE 2 * (num % m) > m \/ (2 * (num % m) = m /\ q % 2 = 1)
    <2>1. Nearest(num, m) = q + 1
      BY <1>1, <1>4 DEF Nearest
    <2>2. (q + 1) * m = qm + m
      BY <1>2, TimesType
    <2>3. 2 * (num - qm) >= m
      BY <1>3, <1>4
    <2> QED
      BY <1>1, <1>2, <2>1, <2>2, <2>3
  <1>5. CASE ~(2 * (num % m) > m \/ (2 * (num % m) = m /\ q % 2 = 1))
    <2>1. Nearest(num, m) = q
      BY <1>1, <1>5 DEF Nearest
    <2>2. 2 * (num - qm) <= m
      BY <1>1, <1>2, <1>3, <1>5
    <2> QED
      BY <1>1, <1>2, <2>1, <2>2
  <1> QED
    BY <1>4, <1>5

\* Floats are as far apart as their size allows, not more.
LEMMA SpacingFits ==
  ASSUME NEW num \in Nat, NEW d \in Nat \ {0}, FloatAssumption, num <= 4 * MaxSide * One * d
  PROVE  LET u == Spacing(num, d)
         IN  u \in Nat \ {0} /\ (u = 1 \/ Significands * (u * d) <= 2 * num)
  <1>1. /\ MaxSide \in Nat /\ One \in Nat /\ Significands \in Nat \ {0}
        /\ Spacings \subseteq Nat /\ 1 \in Spacings
        /\ \A u \in Spacings \ {1} : \E v \in Spacings : u = 2 * v
        /\ \E u \in Spacings : 4 * MaxSide * One < Significands * u
    BY DEF FloatAssumption
  <1> DEFINE Holds(u) == num < Significands * u * d
             S == {u \in Spacings : Holds(u)}
  <1>2. S # {}
    <2>1. PICK u \in Spacings : 4 * MaxSide * One < Significands * u
      BY <1>1
    <2>2. PICK big, most \in Nat : big = 4 * MaxSide * One /\ most = Significands * u
      BY <1>1, TimesType
    <2>3. big * d < most * d
      BY <2>1, <2>2
    <2>4. num <= big * d /\ big * d \in Nat /\ most * d \in Nat
      BY <2>2, TimesType
    <2>5. num < most * d
      BY <2>3, <2>4
    <2>6. Holds(u)
      BY <2>2, <2>5
    <2> QED
      BY <2>6
  <1>3. PICK m \in S : \A k \in S : m <= k
    BY <1>1, <1>2, Least
  <1>4. m \in Spacings /\ Holds(m) /\ \A v \in Spacings : Holds(v) => m <= v
    BY <1>3
  <1> DEFINE P(u) == Holds(u) /\ \A v \in Spacings : Holds(v) => u <= v
  <1>5. Spacing(num, d) = CHOOSE u \in Spacings : P(u)
    BY DEF Spacing
  <1>6. PICK u : u = Spacing(num, d) /\ u \in Spacings /\ P(u)
    <2>1. \E u \in Spacings : P(u)
      BY <1>4
    <2> HIDE DEF P
    <2> QED
      BY <1>5, <2>1
  <1>7. u \in Nat \ {0}
    <2>1. u \in Nat
      BY <1>1, <1>6
    <2>2. u # 0
      BY <1>1, <1>6
    <2> QED
      BY <2>1, <2>2
  <1>8. ASSUME u # 1 PROVE Significands * (u * d) <= 2 * num
    <2>1. PICK v \in Spacings : u = 2 * v
      BY <1>1, <1>6, <1>8
    <2>2. v \in Nat /\ ~(u <= v)
      BY <1>1, <1>7, <2>1
    <2>3. ~Holds(v)
      BY <1>6, <2>2
    <2>4. PICK small \in Nat : small = Significands * v * d
      BY <1>1, <2>2, TimesType
    <2>5. Significands * (u * d) = 2 * small
      BY <1>1, <2>1, <2>2, <2>4
    <2> QED
      BY <2>3, <2>4, <2>5
  <1> QED
    BY <1>6, <1>7, <1>8

\* A float is as near as its significand allows to what is computed.
LEMMA FloatNear ==
  ASSUME NEW num \in Nat, NEW d \in Nat \ {0}, FloatAssumption, num <= 4 * MaxSide * One * d,
         num = 0 \/ Significands * d <= 2 * num
  PROVE  LET f == Float(num, d)
         IN  /\ f \in Nat
             /\ Significands * (f * d) <= Significands * num + num
             /\ Significands * num <= Significands * (f * d) + num
  <1>1. PICK u \in Nat \ {0} : u = Spacing(num, d) /\ (u = 1 \/ Significands * (u * d) <= 2 * num)
    BY SpacingFits
  <1>2. PICK m \in Nat \ {0} : m = u * d
    OBVIOUS
  <1>3. PICK k \in Nat : /\ k = Nearest(num, m)
                         /\ 2 * (k * m) <= 2 * num + m /\ 2 * num <= 2 * (k * m) + m
    BY NearestNear
  <1>4. PICK f \in Nat : f = Float(num, d) /\ f = u * k
    BY <1>1, <1>2, <1>3, TimesType DEF Float
  <1>5. f * d = k * m
    BY <1>2, <1>4
  <1>6. PICK km \in Nat : km = k * m
    BY TimesType
  <1>7. PICK D \in Nat \ {0} : D = Significands
    BY DEF FloatAssumption
  <1>8. D * m <= 2 * num \/ (num = 0 /\ m = d)
    BY <1>1, <1>2, <1>7
  <1>9. PICK Dm, Dn, Dk \in Nat : Dm = D * m /\ Dn = D * num /\ Dk = D * km
    BY TimesType
  <1>10. 2 * Dk <= 2 * Dn + Dm /\ 2 * Dn <= 2 * Dk + Dm
    <2>1. (2 * km) * D <= (2 * num + m) * D /\ (2 * num) * D <= (2 * km + m) * D
      BY <1>3, <1>6, TimesKeeps
    <2> QED
      BY <1>9, <2>1
  <1>11. CASE D * m <= 2 * num
    BY <1>4, <1>5, <1>6, <1>7, <1>9, <1>10, <1>11
  <1>12. CASE num = 0 /\ m = d
    <2>1. k = 0
      <3>1. 2 * km <= m
        BY <1>3, <1>6, <1>12
      <3>2. k # 0 => km >= m
        BY <1>6
      <3> QED
        BY <3>1, <3>2
    <2> QED
      BY <1>4, <1>5, <1>12, <2>1, <1>7
  <1> QED
    BY <1>8, <1>11, <1>12

-----------------------------------------------------------------------------
(* Where a pixel begins and ends: D is Significands, a and num are the     *)
(* begin and the end that the code has, p and r the exact ones, q the      *)
(* exact begin for the scale that the code has, all times the size of the  *)
(* picture.                                                                *)

LEMMA BeginsNear ==
  ASSUME NEW D \in Nat \ {0}, NEW a \in Nat, NEW p \in Nat, NEW q \in Nat, NEW e \in Nat,
         D * q <= D * p + p, D * p <= D * q + p,
         D * a <= D * q + q, D * q <= D * a + q, 16 * p <= D * e
  PROVE  /\ D * a <= D * p + 3 * p /\ D * p <= D * a + 3 * p
         /\ 16 * a <= 16 * p + 3 * e /\ 16 * p <= 16 * a + 3 * e
  <1>1. PICK Da, Dp, Dq, De \in Nat : Da = D * a /\ Dp = D * p /\ Dq = D * q /\ De = D * e
    BY TimesType
  <1>2. p <= Dp
    BY <1>1
  <1>3. q <= 2 * p
    <2>1. q * D <= (2 * p) * D
      BY <1>1, <1>2
    <2> QED
      BY <2>1, TimesMost
  <1>4. Da <= Dp + 3 * p /\ Dp <= Da + 3 * p
    BY <1>1, <1>3
  <1>5. (16 * a) * D = 16 * Da /\ (16 * p) * D = 16 * Dp /\ (3 * e) * D = 3 * De
    BY <1>1
  <1>6. (16 * p + 3 * e) * D = 16 * Dp + 3 * De /\ (16 * a + 3 * e) * D = 16 * Da + 3 * De
    BY <1>1
  <1>7. (16 * a) * D <= (16 * p + 3 * e) * D /\ (16 * p) * D <= (16 * a + 3 * e) * D
    BY <1>1, <1>4, <1>5, <1>6
  <1>8. 16 * a <= 16 * p + 3 * e /\ 16 * p <= 16 * a + 3 * e
    <2>1. 16 * a \in Nat /\ 16 * p \in Nat /\ 16 * p + 3 * e \in Nat /\ 16 * a + 3 * e \in Nat
      OBVIOUS
    <2>2. 16 * a <= 16 * p + 3 * e
      BY ONLY <1>7, <2>1, D \in Nat \ {0}, TimesMost
    <2>3. 16 * p <= 16 * a + 3 * e
      BY ONLY <1>7, <2>1, D \in Nat \ {0}, TimesMost
    <2> QED
      BY <2>2, <2>3
  <1> QED
    BY <1>1, <1>4, <1>8

LEMMA EndsBelow ==
  ASSUME NEW D \in Nat \ {0}, NEW t \in Nat, NEW r \in Nat, NEW num \in Nat, NEW e \in Nat,
         D * t <= D * r + 3 * r, D * num <= D * t + t, 16 * r <= D * e
  PROVE  t <= 4 * r /\ 16 * num <= 16 * r + 7 * e
  <1>1. PICK Dt, Dr, Dn, De \in Nat : Dt = D * t /\ Dr = D * r /\ Dn = D * num /\ De = D * e
    BY TimesType
  <1>2. r <= Dr
    BY <1>1
  <1>3. t <= 4 * r
    <2>1. t * D <= (4 * r) * D
      BY <1>1, <1>2
    <2> QED
      BY <2>1, TimesMost
  <1>4. Dn <= Dr + 7 * r
    BY <1>1, <1>3
  <1>5. (16 * num) * D = 16 * Dn /\ (16 * r + 7 * e) * D = 16 * Dr + 7 * De
    BY <1>1
  <1>6. (16 * num) * D <= (16 * r + 7 * e) * D
    BY <1>1, <1>4, <1>5
  <1>7. 16 * num \in Nat /\ 16 * r + 7 * e \in Nat
    OBVIOUS
  <1>8. 16 * num <= 16 * r + 7 * e
    BY ONLY <1>6, <1>7, D \in Nat \ {0}, TimesMost
  <1> QED
    BY <1>3, <1>8

LEMMA EndsAbove ==
  ASSUME NEW D \in Nat \ {0}, NEW t \in Nat, NEW r \in Nat, NEW num \in Nat, NEW e \in Nat,
         D * r <= D * t + 3 * r, D * t <= D * num + t, t <= 4 * r, 16 * r <= D * e
  PROVE  16 * r <= 16 * num + 7 * e
  <1>1. PICK Dt, Dr, Dn, De \in Nat : Dt = D * t /\ Dr = D * r /\ Dn = D * num /\ De = D * e
    BY TimesType
  <1>2. Dr <= Dn + 7 * r
    BY <1>1
  <1>3. (16 * r) * D = 16 * Dr /\ (16 * num + 7 * e) * D = 16 * Dn + 7 * De
    BY <1>1
  <1>4. (16 * r) * D <= (16 * num + 7 * e) * D
    BY <1>1, <1>2, <1>3
  <1>5. 16 * r \in Nat /\ 16 * num + 7 * e \in Nat
    OBVIOUS
  <1> QED
    BY ONLY <1>4, <1>5, D \in Nat \ {0}, TimesMost

-----------------------------------------------------------------------------
(* The scale, and where a pixel begins. *)

\* The size s of an image and the size w of its picture, and the float scale S.
LEMMA ScaleNear ==
  ASSUME FloatAssumption, LengthAssumption,
         NEW s \in 1..MaxSide, NEW w \in 1..LARGE_IMAGE_LENGTH
  PROVE  LET S == Scale(s, w)
         IN  /\ S \in Nat
             /\ Significands * (S * w) <= Significands * (One * s) + One * s
             /\ Significands * (One * s) <= Significands * (S * w) + One * s
             /\ Significands * w <= One * s /\ One * s <= 2 * (S * w) /\ S * w <= 2 * (One * s)
             /\ Significands <= 2 * S
  <1>1. PICK o, D, L, m \in Nat \ {0} :
          /\ o = One /\ D = Significands /\ L = LARGE_IMAGE_LENGTH /\ m = MaxSide
          /\ L * D <= o /\ 16 * (m + 1) <= D
    BY DEF FloatAssumption, LengthAssumption
  <1>2. PICK P \in Nat : P = o * s
    BY <1>1, TimesType
  <1>3. D * w <= P
    <2>1. w * D <= L * D
      BY <1>1, TimesKeeps
    <2>2. 1 * o <= s * o
      BY <1>1, TimesKeeps
    <2>3. D * w = w * D /\ s * o = P /\ 1 * o = o
      BY <1>1, <1>2, TimesType
    <2>4. w * D \in Nat /\ L * D \in Nat
      BY <1>1, TimesType
    <2> QED
      BY <1>1, <2>1, <2>2, <2>3, <2>4
  <1>4. P <= 4 * m * o * w
    <2>1. s * o <= m * o
      BY <1>1, TimesKeeps
    <2>2. PICK mo \in Nat : mo = m * o
      BY <1>1, TimesType
    <2>3. 1 * mo <= w * mo
      BY TimesKeeps
    <2>4. 4 * m * o * w = 4 * (w * mo)
      BY <1>1, <2>2
    <2>5. w * mo \in Nat /\ s * o = P
      BY <1>1, <1>2, <2>2, TimesType
    <2> QED
      BY <2>1, <2>2, <2>3, <2>4, <2>5
  <1>5. PICK S \in Nat : /\ S = Scale(s, w)
                         /\ D * (S * w) <= D * P + P /\ D * P <= D * (S * w) + P
    <2>1. w \in Nat \ {0} /\ D * w <= 2 * P
      <3>1. D * w \in Nat
        BY <1>1, TimesType
      <3> QED
        BY <1>3, <3>1
    <2> QED
      BY <1>1, <1>2, <1>4, <2>1, FloatNear DEF Scale
  <1>6. PICK Q, DQ, DP \in Nat : Q = S * w /\ DQ = D * Q /\ DP = D * P
    BY <1>1, <1>5, TimesType
  <1>7. 2 * P <= DP
    BY <1>1, <1>6
  <1>8. P <= 2 * Q
    <2>1. P * D <= (2 * Q) * D
      BY <1>5, <1>6, <1>7
    <2> QED
      BY <1>1, <2>1, TimesMost
  <1>9. Q <= 2 * P
    <2>1. Q * D <= (2 * P) * D
      BY <1>5, <1>6, <1>7
    <2> QED
      BY <1>1, <2>1, TimesMost
  <1>10. D <= 2 * S
    <2>1. (2 * S) * w = 2 * Q
      BY <1>5, <1>6
    <2>2. D * w <= (2 * S) * w
      BY <1>3, <1>6, <1>8, <2>1
    <2> QED
      BY <1>1, <2>2, TimesMost
  <1> QED
    BY <1>1, <1>2, <1>3, <1>5, <1>6, <1>8, <1>9, <1>10

\* Where pixel x of w begins.
LEMMA StartNear ==
  ASSUME FloatAssumption, LengthAssumption,
         NEW s \in 1..MaxSide, NEW w \in 1..LARGE_IMAGE_LENGTH, NEW x \in 0..(w - 1)
  PROVE  LET A == StartAt(Scale(s, w), x)
             p == x * (One * s)
             e == One * w
         IN  /\ A \in Nat /\ p \in Nat /\ e \in Nat
             /\ Significands * (A * w) <= Significands * p + 3 * p
             /\ Significands * p <= Significands * (A * w) + 3 * p
             /\ 16 * (A * w) <= 16 * p + 3 * e /\ 16 * p <= 16 * (A * w) + 3 * e
             /\ 16 * (p + One * s) <= Significands * e
  <1>1. PICK o, D, m \in Nat \ {0} :
          /\ o = One /\ D = Significands /\ m = MaxSide /\ 16 * (m + 1) <= D
    BY DEF FloatAssumption
  <1>2. PICK S, P \in Nat : /\ S = Scale(s, w) /\ P = o * s
                            /\ D * (S * w) <= D * P + P /\ D * P <= D * (S * w) + P
                            /\ S * w <= 2 * P /\ D <= 2 * S
    BY <1>1, ScaleNear, TimesType
  <1>3. x \in Nat /\ x + 1 <= w /\ w \in Nat \ {0} /\ s \in Nat /\ s <= m
    BY <1>1
  <1>4. PICK Q, p, q, e, xS \in Nat : Q = S * w /\ p = x * P /\ q = x * Q /\ e = o * w /\ xS = x * S
    BY <1>1, <1>2, <1>3, TimesType
  <1>5. xS <= 4 * m * o
    <2>1. x * S <= w * S
      BY <1>2, <1>3, TimesKeeps
    <2>2. s * o <= m * o
      BY <1>1, <1>3, TimesKeeps
    <2>3. w * S = Q /\ s * o = P /\ 4 * m * o = 4 * (m * o) /\ m * o \in Nat
      BY <1>1, <1>2, <1>3, <1>4, TimesType
    <2> QED
      BY <1>2, <1>4, <2>1, <2>2, <2>3
  <1>6. xS = 0 \/ D * 1 <= 2 * xS
    <2>1. CASE x = 0
      BY <1>4, <2>1
    <2>2. CASE x # 0
      <3>1. 1 * S <= x * S
        BY <1>2, <1>3, <2>2, TimesKeeps
      <3> QED
        BY <1>1, <1>2, <1>4, <3>1
    <2> QED
      BY <2>1, <2>2
  <1>7. PICK A \in Nat : /\ A = StartAt(S, x)
                         /\ D * (A * 1) <= D * xS + xS /\ D * xS <= D * (A * 1) + xS
    <2>1. StartAt(S, x) = Float(xS, 1)
      BY <1>4 DEF StartAt
    <2>2. xS \in Nat /\ 1 \in Nat \ {0}
      OBVIOUS
    <2>3. xS <= 4 * MaxSide * One * 1 /\ (xS = 0 \/ Significands * 1 <= 2 * xS)
      BY <1>1, <1>5, <1>6
    <2>4. /\ Float(xS, 1) \in Nat
          /\ Significands * (Float(xS, 1) * 1) <= Significands * xS + xS
          /\ Significands * xS <= Significands * (Float(xS, 1) * 1) + xS
      BY ONLY <2>2, <2>3, FloatAssumption, FloatNear
    <2> QED
      BY ONLY <1>1, <2>1, <2>4
  <1>8. PICK a \in Nat : a = A * w
    BY <1>3, <1>7, TimesType
  <1>9. D * a <= D * q + q /\ D * q <= D * a + q
    <2>1. PICK DA, Dx \in Nat : DA = D * A /\ Dx = D * xS
      BY <1>1, <1>7, TimesType
    <2>2. DA <= Dx + xS /\ Dx <= DA + xS
      BY <1>7, <2>1
    <2>3. DA * w <= (Dx + xS) * w /\ Dx * w <= (DA + xS) * w
      BY <1>3, <2>2, TimesKeeps
    <2>4. DA * w = D * a /\ Dx * w = D * q /\ xS * w = q
      BY <1>1, <1>2, <1>3, <1>4, <1>7, <1>8, <2>1
    <2>5. (Dx + xS) * w = Dx * w + xS * w /\ (DA + xS) * w = DA * w + xS * w
      BY <1>3, <2>1
    <2> QED
      BY <2>3, <2>4, <2>5
  <1>10. D * q <= D * p + p /\ D * p <= D * q + p
    <2>1. PICK DQ, DP \in Nat : DQ = D * Q /\ DP = D * P
      BY <1>1, <1>2, <1>4, TimesType
    <2>2. DQ * x <= (DP + P) * x /\ DP * x <= (DQ + P) * x
      <3>1. DQ <= DP + P /\ DP <= DQ + P /\ DP + P \in Nat /\ DQ + P \in Nat
        BY <1>2, <1>4, <2>1
      <3> QED
        BY ONLY <3>1, DP \in Nat, DQ \in Nat, x \in Nat, <1>3, TimesKeeps
    <2>3. DQ * x = D * q /\ DP * x = D * p /\ P * x = p
      BY <1>1, <1>2, <1>3, <1>4, <2>1
    <2>4. (DP + P) * x = DP * x + P * x /\ (DQ + P) * x = DQ * x + P * x
      BY <1>2, <1>3, <2>1
    <2> QED
      BY <2>2, <2>3, <2>4
  <1>11. 16 * (p + P) <= D * e
    <2>1. (x + 1) * P <= w * P /\ (x + 1) * P = p + P
      BY <1>2, <1>3, <1>4, TimesKeeps, TimesType
    <2>2. (16 * s) * e <= D * e
      BY <1>1, <1>3, <1>4, TimesKeeps
    <2>3. (16 * s) * e = 16 * (w * P)
      BY <1>1, <1>2, <1>3, <1>4
    <2>4. w * P \in Nat
      BY <1>2, <1>3, TimesType
    <2> QED
      BY <1>4, <1>2, <2>1, <2>2, <2>3, <2>4
  <1>12. 16 * p <= D * e
    <2>1. D * e \in Nat
      BY <1>1, <1>4, TimesType
    <2> QED
      BY <1>2, <1>4, <1>11, <2>1
  <1>13. /\ D * a <= D * p + 3 * p /\ D * p <= D * a + 3 * p
         /\ 16 * a <= 16 * p + 3 * e /\ 16 * p <= 16 * a + 3 * e
    BY ONLY D \in Nat \ {0}, a \in Nat, p \in Nat, q \in Nat, e \in Nat,
            <1>9, <1>10, <1>12, BeginsNear
  <1> QED
    BY <1>1, <1>2, <1>4, <1>7, <1>8, <1>11, <1>13

LEMMA DivLeast ==
  ASSUME NEW a \in Nat, NEW b \in Nat \ {0}, NEW k \in Nat, k * b <= a
  PROVE  k <= a \div b
  <1>1. PICK q \in Nat : q = a \div b /\ a < q * b + b
    BY DivMod
  <1>2. k * b < (q + 1) * b
    BY <1>1, TimesType
  <1>3. k < q + 1
    BY <1>2, TimesLess
  <1> QED
    BY <1>1, <1>3

\* Where pixel x of w ends, for a scale T that is the one of the size or nearly it.
LEMMA EndNear ==
  ASSUME FloatAssumption, LengthAssumption,
         NEW s \in 1..MaxSide, NEW w \in 1..LARGE_IMAGE_LENGTH, NEW x \in 0..(w - 1),
         NEW T \in Nat, One <= 2 * T, T <= 2 * (MaxSide * One),
         Significands * (T * w) <= Significands * (One * s) + One * s
  PROVE  LET A == StartAt(Scale(s, w), x)
             N == EndAt(A, T)
             p == x * (One * s)
             e == One * w
         IN  /\ N \in Nat /\ A < N
             /\ 16 * (N * w) <= 16 * (p + One * s) + 7 * e
             /\ Significands * (One * s) <= Significands * (T * w) + One * s =>
                  16 * (p + One * s) <= 16 * (N * w) + 7 * e
  <1>1. PICK o, D, m \in Nat \ {0} :
          /\ o = One /\ D = Significands /\ m = MaxSide /\ 16 * (m + 1) <= D /\ D <= o
    <2>1. LARGE_IMAGE_LENGTH \in Nat \ {0} /\ Significands \in Nat \ {0}
      BY DEF FloatAssumption, LengthAssumption
    <2>2. 1 * Significands <= LARGE_IMAGE_LENGTH * Significands
      BY <2>1, TimesKeeps
    <2>3. LARGE_IMAGE_LENGTH * Significands \in Nat
      BY <2>1, TimesType
    <2> QED
      BY <2>1, <2>2, <2>3 DEF FloatAssumption
  <1>2. x \in Nat /\ x + 1 <= w /\ w \in Nat \ {0} /\ s \in Nat /\ s <= m
    BY <1>1
  <1>3. PICK A, P, p, e \in Nat :
          /\ A = StartAt(Scale(s, w), x) /\ P = o * s /\ p = x * P /\ e = o * w
          /\ D * (A * w) <= D * p + 3 * p /\ D * p <= D * (A * w) + 3 * p
          /\ 16 * (A * w) <= 16 * p + 3 * e /\ 16 * (p + P) <= D * e
    BY <1>1, <1>2, StartNear, TimesType
  <1>4. A <= o * (m + 1)
    <2>1. p + P <= w * P
      <3>1. (x + 1) * P <= w * P /\ (x + 1) * P = p + P
        BY <1>2, <1>3, TimesKeeps, TimesType
      <3> QED
        BY <3>1
    <2>2. s * o <= m * o
      BY <1>1, <1>2, TimesKeeps
    <2>3. PICK mo \in Nat : mo = m * o /\ P <= mo /\ o * (m + 1) = mo + o
      BY <1>1, <1>2, <1>3, <2>2, TimesType
    <2>4. P * w <= mo * w
      BY <1>2, <2>3, TimesKeeps
    <2>5. PICK Aw, wP, wmo \in Nat : Aw = A * w /\ wP = w * P /\ wmo = mo * w
      BY <1>2, <1>3, <2>3, TimesType
    <2>6. p <= wmo /\ 16 * Aw <= 16 * wmo + 3 * e
      <3>1. P * w = w * P
        BY <1>2, <1>3
      <3>2. p <= wmo
        BY ONLY <2>1, <2>4, <2>5, <3>1, p \in Nat, P \in Nat
      <3>3. 16 * Aw <= 16 * p + 3 * e
        BY <1>3, <2>5
      <3> QED
        BY ONLY <3>2, <3>3, Aw \in Nat, wmo \in Nat, p \in Nat, e \in Nat
    <2>7. A * w <= (mo + o) * w
      <3>1. (mo + o) * w = wmo + e
        BY <1>1, <1>2, <1>3, <2>3, <2>5
      <3> QED
        BY <2>5, <2>6, <3>1
    <2> QED
      BY <1>1, <1>2, <1>3, <2>3, <2>7, TimesMost
  <1>5. A + T <= 4 * m * o /\ D <= 2 * (A + T)
    <2>1. 1 * o <= m * o
      BY <1>1, TimesKeeps
    <2>2. PICK mo \in Nat : mo = m * o /\ o * (m + 1) = mo + o /\ 4 * m * o = 4 * mo
      BY <1>1, TimesType
    <2> QED
      BY <1>1, <1>3, <1>4, <2>1, <2>2
  <1>6. PICK N \in Nat : /\ N = EndAt(A, T)
                         /\ D * N <= D * (A + T) + (A + T) /\ D * (A + T) <= D * N + (A + T)
    <2>1. PICK num \in Nat : num = A + T
      BY <1>3
    <2>2. num <= 4 * MaxSide * One * 1 /\ (num = 0 \/ Significands * 1 <= 2 * num)
      BY <1>1, <1>5, <2>1
    <2>3. /\ Float(num, 1) \in Nat
          /\ Significands * (Float(num, 1) * 1) <= Significands * num + num
          /\ Significands * num <= Significands * (Float(num, 1) * 1) + num
      BY ONLY <2>1, num \in Nat, 1 \in Nat \ {0}, <2>2, FloatAssumption, FloatNear
    <2> QED
      BY <1>1, <2>1, <2>3 DEF EndAt
  <1>7. A < N
    <2> SUFFICES ASSUME N <= A PROVE FALSE
      BY <1>3, <1>6
    <2>1. N * D <= A * D
      BY <1>1, <1>3, <1>6, TimesKeeps
    <2>2. PICK DA, DT, DN \in Nat : DA = D * A /\ DT = D * T /\ DN = D * N
      BY <1>1, <1>3, <1>6, TimesType
    <2>3. D * (A + T) = DA + DT
      BY <1>1, <1>3, <2>2
    <2>4. DT <= A + T
      BY <1>1, <1>3, <1>6, <2>1, <2>2, <2>3, TimesType
    <2>5. PICK d \in Nat : d = 16 * m + 15 /\ d + 1 <= D
      BY <1>1
    <2>6. (d + 1) * T <= D * T
      BY <1>1, <2>5, TimesKeeps
    <2>7. (d + 1) * T = d * T + T /\ d * T \in Nat
      BY <2>5, TimesType
    <2>8. d * T <= A
      BY ONLY <2>2, <2>4, <2>6, <2>7, DA \in Nat, DT \in Nat, A \in Nat, T \in Nat
    <2>9. o * d <= (2 * T) * d
      BY <1>1, <2>5, TimesKeeps
    <2>10. (2 * T) * d = 2 * (d * T)
      BY <2>5
    <2>11. o * d = 16 * (o * m) + 15 * o /\ o * (m + 1) = o * m + o /\ o * m \in Nat
      BY <1>1, <2>5
    <2> QED
      BY <1>1, <1>3, <1>4, <2>7, <2>8, <2>9, <2>10, <2>11
  <1>8. PICK t, r, a, b, num \in Nat :
          t = (A + T) * w /\ r = p + P /\ a = A * w /\ b = T * w /\ num = N * w /\ t = a + b
    <2>1. (A + T) * w = A * w + T * w
      BY <1>2, <1>3
    <2>2. A * w \in Nat /\ T * w \in Nat /\ N * w \in Nat
      BY <1>2, <1>3, <1>6, TimesType
    <2>3. PICK a, b, num, t \in Nat : a = A * w /\ b = T * w /\ num = N * w /\ t = a + b
      BY <2>2
    <2> QED
      BY <2>1, <2>3
  <1>9. D * t <= D * r + 3 * r
    <2>1. PICK Da, Db, Dp, DP \in Nat : Da = D * a /\ Db = D * b /\ Dp = D * p /\ DP = D * P
      BY <1>1, <1>3, <1>8, TimesType
    <2>2. D * t = Da + Db /\ D * r = Dp + DP
      BY <1>1, <1>3, <1>8, <2>1
    <2>3. Da <= Dp + 3 * p
      BY <1>3, <1>8, <2>1
    <2>4. Db <= DP + P
      BY <1>1, <1>3, <1>8, <2>1
    <2> QED
      BY ONLY <2>2, <2>3, <2>4, <1>8, Da \in Nat, Db \in Nat, Dp \in Nat, DP \in Nat,
              p \in Nat, P \in Nat
  <1>10. D * num <= D * t + t /\ D * t <= D * num + t
    <2>1. PICK DN, Dt \in Nat : DN = D * N /\ Dt = D * (A + T)
      BY <1>1, <1>3, <1>6, TimesType
    <2>2. DN * w <= (Dt + (A + T)) * w /\ Dt * w <= (DN + (A + T)) * w
      <3>1. DN <= Dt + (A + T) /\ Dt <= DN + (A + T)
        BY <1>6, <2>1
      <3>2. Dt + (A + T) \in Nat /\ DN + (A + T) \in Nat
        OBVIOUS
      <3> QED
        BY ONLY <3>1, <3>2, <1>2, DN \in Nat, Dt \in Nat, TimesKeeps
    <2>3. DN * w = D * num /\ Dt * w = D * t
      BY <1>1, <1>2, <1>3, <1>6, <1>8, <2>1
    <2>4. (Dt + (A + T)) * w = Dt * w + t /\ (DN + (A + T)) * w = DN * w + t
      BY <1>2, <1>3, <1>8, <2>1
    <2> QED
      BY <2>2, <2>3, <2>4
  <1>11. t <= 4 * r /\ 16 * num <= 16 * r + 7 * e
    <2>1. 16 * r <= D * e
      BY <1>3, <1>8
    <2> QED
      BY ONLY <1>9, <1>10, <2>1, D \in Nat \ {0}, t \in Nat, r \in Nat, num \in Nat, e \in Nat,
              EndsBelow
  <1>12. ASSUME D * P <= D * b + P PROVE 16 * r <= 16 * num + 7 * e
    <2>1. D * r <= D * t + 3 * r
      <3>1. PICK Da, Db, Dp, DP \in Nat : Da = D * a /\ Db = D * b /\ Dp = D * p /\ DP = D * P
        BY <1>1, <1>3, <1>8, TimesType
      <3>2. D * t = Da + Db /\ D * r = Dp + DP
        BY <1>1, <1>3, <1>8, <3>1
      <3>3. Dp <= Da + 3 * p
        BY <1>3, <1>8, <3>1
      <3>4. DP <= Db + P
        BY <1>12, <3>1
      <3> QED
        BY ONLY <3>2, <3>3, <3>4, <1>8, Da \in Nat, Db \in Nat, Dp \in Nat, DP \in Nat,
                p \in Nat, P \in Nat
    <2>2. 16 * r <= D * e
      BY <1>3, <1>8
    <2> QED
      BY ONLY <1>10, <1>11, <2>1, <2>2, D \in Nat \ {0}, t \in Nat, r \in Nat, num \in Nat,
              e \in Nat, EndsAbove
  <1> QED
    BY <1>1, <1>3, <1>6, <1>7, <1>8, <1>11, <1>12

-----------------------------------------------------------------------------
(* The pixels of a picture. *)

\* What pixel x covers: none, but for one after the last, is outside.
LEMMA CoveredInside ==
  ASSUME NEW o \in Nat \ {0}, NEW s \in Nat \ {0}, NEW w \in Nat \ {0}, w <= s,
         NEW x \in 0..(w - 1), NEW N \in Nat \ {0},
         16 * (N * w) <= 16 * (x * (o * s) + o * s) + 7 * (o * w),
         NEW j \in Nat, j <= (N - 1) \div o
  PROVE  j <= LastFor(x, w, s)
  <1>1. j * o < N
    <2>1. PICK num \in Nat : num = N - 1
      OBVIOUS
    <2>2. PICK q \in Nat : q = num \div o /\ q * o <= num
      BY <2>1, DivMod
    <2>3. j * o <= q * o
      BY <2>1, <2>2, TimesKeeps
    <2>4. j * o \in Nat /\ q * o \in Nat
      BY <2>2, TimesType
    <2> QED
      BY <2>1, <2>2, <2>3, <2>4
  <1>2. x \in Nat /\ x + 1 \in Nat
    OBVIOUS
  <1>3. PICK jw, xs, b, c \in Nat : jw = j * w /\ xs = (x + 1) * s /\ b = jw * o /\ c = xs * o
    BY <1>2, TimesType
  <1>4. b <= N * w /\ N * w \in Nat
    <2>1. (j * o) * w <= N * w
      BY <1>1, TimesKeeps, TimesType
    <2>2. (j * o) * w = b
      BY <1>3
    <2> QED
      BY <2>1, <2>2, TimesType
  <1>5. x * (o * s) + o * s = c
    BY <1>2, <1>3
  <1>6. PICK e \in Nat : e = w * o /\ e = o * w
    BY TimesType
  <1>7. 16 * b <= 16 * c + 7 * e
    BY <1>3, <1>4, <1>5, <1>6
  <1>8. 16 * jw <= 16 * xs + 7 * w
    <2>1. (16 * jw) * o = 16 * b /\ (16 * xs + 7 * w) * o = 16 * c + 7 * e
      BY <1>3, <1>6
    <2>2. (16 * jw) * o <= (16 * xs + 7 * w) * o
      BY <1>7, <2>1
    <2> QED
      BY ONLY <2>2, 16 * jw \in Nat, 16 * xs + 7 * w \in Nat, o \in Nat \ {0}, TimesMost
  <1>9. CASE x = w - 1
    <2>1. xs = s * w
      BY <1>3, <1>9
    <2>2. jw < (s + 1) * w
      BY <1>3, <1>8, <2>1, TimesType
    <2>3. j < s + 1
      BY <1>3, <2>2, TimesLess
    <2> QED
      BY <1>9, <2>3 DEF LastFor
  <1>10. CASE x # w - 1
    <2>1. (x + 2) * s <= w * s /\ (x + 2) * s = xs + s
      <3>1. x + 2 <= w /\ x + 2 \in Nat
        BY <1>10
      <3> QED
        BY <1>2, <1>3, <3>1, TimesKeeps
    <2>2. PICK ws \in Nat : ws = w * s /\ ws = s * w
      BY TimesType
    <2>3. jw < ws
      BY <1>3, <1>8, <2>1, <2>2
    <2>4. j < s
      BY <1>3, <2>2, <2>3, TimesLess
    <2> QED
      BY <1>10, <2>4 DEF LastFor
  <1> QED
    BY <1>9, <1>10

\* Column j of the image is one that some pixel is made of.
LEMMA CoveredAll ==
  ASSUME NEW s \in Nat \ {0}, NEW w \in Nat \ {0}, NEW j \in 0..(s - 1)
  PROVE  \E x \in 0..(w - 1) :
           /\ 2 * (x * s) <= (2 * j + 1) * w
           /\ (2 * j + 1) * w < 2 * (x * s + s)
  <1>1. PICK num, d \in Nat : num = (2 * j + 1) * w /\ d = 2 * s /\ d # 0
    BY TimesType
  <1>2. PICK x \in Nat : x = num \div d /\ x * d <= num /\ num < x * d + d
    BY <1>1, DivMod
  <1>3. num < w * d
    <2>1. (2 * j + 1) * w < (2 * s) * w
      <3>1. 2 * j + 1 < 2 * s
        OBVIOUS
      <3>2. (2 * j + 2) * w <= (2 * s) * w
        BY <3>1, TimesKeeps
      <3>3. (2 * j + 2) * w = (2 * j + 1) * w + w
        OBVIOUS
      <3> QED
        BY <1>1, <3>2, <3>3
    <2> QED
      BY <1>1, <2>1, TimesType
  <1>4. x < w
    BY <1>1, <1>2, <1>3, DivBelow
  <1>5. x * d = 2 * (x * s)
    BY <1>1, <1>2
  <1>6. x * s \in Nat
    BY <1>2, TimesType
  <1>7. 2 * (x * s) <= (2 * j + 1) * w /\ (2 * j + 1) * w < 2 * (x * s + s)
    BY <1>1, <1>2, <1>5, <1>6
  <1>8. x \in 0..(w - 1)
    BY <1>4
  <1> QED
    BY ONLY <1>7, <1>8

LEMMA CoveredMiddle ==
  ASSUME NEW o \in Nat \ {0}, NEW s \in Nat \ {0}, NEW w \in Nat \ {0},
         NEW x \in 0..(w - 1), NEW j \in 0..(s - 1), NEW A \in Nat, NEW N \in Nat \ {0},
         2 * (x * s) <= (2 * j + 1) * w,
         (2 * j + 1) * w < 2 * (x * s + s),
         16 * (A * w) <= 16 * (x * (o * s)) + 3 * (o * w),
         16 * (x * (o * s) + o * s) <= 16 * (N * w) + 7 * (o * w)
  PROVE  A \div o <= j /\ j <= (N - 1) \div o
  <1>1. x \in Nat /\ j \in Nat
    OBVIOUS
  <1>2. PICK xs, e, p, P, je, jw \in Nat :
          xs = x * s /\ e = o * w /\ p = x * (o * s) /\ P = o * s /\ jw = j * w /\ je = j * e
    BY <1>1, TimesType
  <1>3. xs * o = p /\ s * o = P /\ (xs + s) * o = p + P /\ jw * o = je /\ w * o = e
    BY <1>1, <1>2
  <1>4. (2 * j + 1) * w = 2 * jw + w
    BY <1>1, <1>2
  <1>5. 2 * p <= 2 * je + e
    <2>1. (2 * xs) * o <= (2 * jw + w) * o
      BY <1>2, <1>4, TimesKeeps
    <2>2. (2 * xs) * o = 2 * p /\ (2 * jw + w) * o = 2 * je + e
      BY <1>2, <1>3
    <2> QED
      BY <2>1, <2>2
  <1>6. 2 * je + e <= 2 * p + 2 * P
    <2>1. (2 * jw + w) * o <= (2 * (xs + s)) * o
      BY <1>2, <1>4, TimesKeeps
    <2>2. (2 * (xs + s)) * o = 2 * p + 2 * P /\ (2 * jw + w) * o = 2 * je + e
      BY <1>2, <1>3
    <2> QED
      BY <2>1, <2>2
  <1>7. PICK a, num \in Nat : a = A * w /\ num = N * w
    BY TimesType
  <1>8. e > 0
    BY <1>2
  <1>9. A < (j + 1) * o
    <2>1. a < je + e
      BY <1>2, <1>5, <1>7, <1>8
    <2>2. ((j + 1) * o) * w = je + e
      BY <1>1, <1>2
    <2>3. (j + 1) * o \in Nat
      BY <1>1, TimesType
    <2>4. A * w < ((j + 1) * o) * w
      BY ONLY <1>7, <2>1, <2>2
    <2> QED
      BY ONLY <2>3, <2>4, A \in Nat, w \in Nat \ {0}, TimesLess
  <1>10. j * o < N
    <2>1. je < num
      <3>1. 16 * (p + P) <= 16 * num + 7 * e
        BY <1>2, <1>7
      <3> QED
        BY ONLY <1>6, <1>8, <3>1, je \in Nat, e \in Nat, p \in Nat, P \in Nat, num \in Nat
    <2>2. (j * o) * w = je
      BY <1>1, <1>2
    <2>3. j * o \in Nat
      BY <1>1, TimesType
    <2>4. (j * o) * w < N * w
      BY ONLY <1>7, <2>1, <2>2
    <2> QED
      BY ONLY <2>3, <2>4, N \in Nat, w \in Nat \ {0}, TimesLess
  <1>11. A \div o <= j
    <2>1. A \div o < j + 1 /\ A \div o \in Nat
      BY <1>1, <1>9, DivBelow, DivMod
    <2> QED
      BY <1>1, <2>1
  <1>12. j <= (N - 1) \div o
    <2>1. PICK n1 \in Nat : n1 = N - 1
      OBVIOUS
    <2>2. j * o <= n1 /\ j * o \in Nat
      BY <1>1, <1>10, <2>1, TimesType
    <2> QED
      BY <1>1, <2>1, <2>2, DivLeast
  <1> QED
    BY <1>11, <1>12

\* The scale of a picture that is not wider than the image.
LEMMA EndScale ==
  ASSUME FloatAssumption, LengthAssumption,
         NEW s \in 1..MaxSide, NEW w \in 1..LARGE_IMAGE_LENGTH, w <= s
  PROVE  LET T == Scale(s, w)
         IN  /\ T \in Nat /\ One <= 2 * T /\ T <= 2 * (MaxSide * One)
             /\ Significands * (T * w) <= Significands * (One * s) + One * s
             /\ Significands * (One * s) <= Significands * (T * w) + One * s
  <1>1. PICK o, m \in Nat \ {0} : o = One /\ m = MaxSide
    BY DEF FloatAssumption
  <1>2. PICK T \in Nat : /\ T = Scale(s, w) /\ o * s <= 2 * (T * w) /\ T * w <= 2 * (o * s)
                         /\ Significands * (T * w) <= Significands * (One * s) + One * s
                         /\ Significands * (One * s) <= Significands * (T * w) + One * s
    BY <1>1, ScaleNear
  <1>3. s \in Nat \ {0} /\ w \in Nat \ {0} /\ s <= m
    BY <1>1
  <1>4. o <= 2 * T
    <2>1. w * o <= s * o
      BY <1>1, <1>3, TimesKeeps
    <2>2. PICK ow, os, Tw \in Nat : ow = o * w /\ os = o * s /\ Tw = T * w
      BY <1>1, <1>2, <1>3, TimesType
    <2>3. w * o = ow /\ s * o = os /\ (2 * T) * w = 2 * Tw
      BY <1>1, <1>2, <1>3, <2>2
    <2>4. o * w <= (2 * T) * w
      BY <1>2, <2>1, <2>2, <2>3
    <2> QED
      BY ONLY <2>4, o \in Nat, 2 * T \in Nat, <1>3, TimesMost
  <1>5. T <= 2 * (m * o)
    <2>1. 1 * T <= w * T
      BY <1>2, <1>3, TimesKeeps
    <2>2. s * o <= m * o
      BY <1>1, <1>3, TimesKeeps
    <2>3. PICK os, Tw, mo \in Nat : os = o * s /\ Tw = T * w /\ mo = m * o
      BY <1>1, <1>2, <1>3, TimesType
    <2>4. w * T = Tw /\ s * o = os
      BY <1>1, <1>2, <1>3, <2>3
    <2> QED
      BY <1>2, <2>1, <2>2, <2>3, <2>4
  <1> QED
    BY <1>1, <1>2, <1>4, <1>5

\* Of rows it is the one too, or a little less.
LEMMA RowScale ==
  ASSUME NEW D \in Nat, NEW o \in Nat, NEW T \in Nat, NEW s \in Nat \ {0}, NEW w \in Nat \ {0},
         NEW i \in Nat, NEW h \in Nat,
         D * (T * w) <= D * (o * s) + o * s, h * s <= w * i
  PROVE  D * (T * h) <= D * (o * i) + o * i
  <1>1. PICK os, a, b \in Nat : os = o * s /\ a = D * (T * w) /\ b = D * os
    BY TimesType
  <1>2. a * h <= (b + os) * h
    BY <1>1, TimesKeeps
  <1>3. PICK k, c, d \in Nat : k = D + 1 /\ c = h * s /\ d = w * i /\ c <= d
    BY TimesType
  <1>4. PICK g \in Nat : g = o * k
    BY <1>3, TimesType
  <1>5. c * g <= d * g
    BY <1>3, <1>4, TimesKeeps
  <1>6. (b + os) * h = c * g
    BY <1>1, <1>3, <1>4
  <1>7. PICK x, y \in Nat : x = D * (T * h) /\ y = D * (o * i) + o * i
    <2>1. D * (T * h) \in Nat /\ D * (o * i) + o * i \in Nat
      OBVIOUS
    <2> QED
      BY <2>1
  <1>8. a * h = x * w
    BY <1>1, <1>7
  <1>9. d * g = y * w
    BY <1>3, <1>4, <1>7
  <1>10. x * w <= y * w
    <2>1. a * h \in Nat /\ c * g \in Nat /\ d * g \in Nat
      BY <1>1, <1>3, <1>4, TimesType
    <2> QED
      BY <1>2, <1>5, <1>6, <1>8, <1>9, <2>1
  <1> QED
    BY <1>7, <1>10, TimesMost

\* A pixel is made of some columns (rows), all but one after the last inside.
LEMMA CoveredRight ==
  ASSUME FloatAssumption, LengthAssumption,
         NEW s \in 1..MaxSide, NEW w \in 1..LARGE_IMAGE_LENGTH, NEW x \in 0..(w - 1), w <= s,
         NEW T \in Nat, One <= 2 * T, T <= 2 * (MaxSide * One),
         Significands * (T * w) <= Significands * (One * s) + One * s
  PROVE  LET cover == Covered(StartAt(Scale(s, w), x), T)
         IN  cover # {} /\ cover \subseteq 0..LastFor(x, w, s)
  <1>1. PICK o \in Nat \ {0} : o = One
    BY DEF FloatAssumption
  <1>2. PICK A : A = StartAt(Scale(s, w), x)
    OBVIOUS
  <1>3. A \in Nat
    BY <1>2, StartNear
  <1>4. PICK N \in Nat : /\ N = EndAt(A, T) /\ A < N
                         /\ 16 * (N * w) <= 16 * (x * (o * s) + o * s) + 7 * (o * w)
    BY <1>1, <1>2, EndNear
  <1>5. PICK num, a, b \in Nat : num = N - 1 /\ a = A \div o /\ b = num \div o
    <2>1. PICK num \in Nat : num = N - 1
      BY <1>3, <1>4
    <2>2. A \div o \in Nat /\ num \div o \in Nat
      BY <1>1, <1>3, <2>1, DivMod
    <2> QED
      BY <2>1, <2>2
  <1>6. Covered(A, T) = a..b
    BY <1>1, <1>4, <1>5 DEF Covered
  <1>7. a <= b
    <2>1. a * o <= A
      BY <1>1, <1>3, <1>5, DivMod
    <2>2. a * o <= num
      BY <1>1, <1>3, <1>4, <1>5, <2>1
    <2> QED
      BY <1>1, <1>5, <2>2, DivLeast
  <1>8. ASSUME NEW j \in a..b PROVE j \in 0..LastFor(x, w, s)
    <2>1. j \in Nat /\ j <= (N - 1) \div o
      BY <1>5
    <2>2. N \in Nat \ {0} /\ s \in Nat \ {0} /\ w \in Nat \ {0}
      BY <1>3, <1>4
    <2>3. j <= LastFor(x, w, s)
      BY ONLY <1>4, <2>1, <2>2, w <= s, x \in 0..(w - 1), o \in Nat \ {0}, CoveredInside
    <2>4. LastFor(x, w, s) \in Nat
      BY <2>2 DEF LastFor
    <2> QED
      BY <2>1, <2>3, <2>4
  <1>9. a \in a..b
    BY <1>5, <1>7
  <1> QED
    BY <1>2, <1>6, <1>8, <1>9

\* The columns of a smaller picture are all those of the image, each of some.
LEMMA ColumnsRight ==
  ASSUME FloatAssumption, LengthAssumption, NEW src, NEW dst,
         src.width \in 1..MaxSide, dst.width \in 1..LARGE_IMAGE_LENGTH, dst.width <= src.width
  PROVE  /\ 0..(src.width - 1) \subseteq UNION {SourceColumns(src, dst, x) : x \in 0..(dst.width - 1)}
         /\ \A x \in 0..(dst.width - 1) :
              /\ SourceColumns(src, dst, x) # {}
              /\ SourceColumns(src, dst, x) \subseteq 0..LastFor(x, dst.width, src.width)
  <1>1. PICK s \in 1..MaxSide, w \in 1..LARGE_IMAGE_LENGTH : w = dst.width /\ s = src.width
    OBVIOUS
  <1>2. w <= s
    BY <1>1
  <1>3. PICK T \in Nat : /\ T = Scale(s, w) /\ One <= 2 * T /\ T <= 2 * (MaxSide * One)
                         /\ Significands * (T * w) <= Significands * (One * s) + One * s
                         /\ Significands * (One * s) <= Significands * (T * w) + One * s
    BY <1>2, EndScale
  <1>4. \A x : SourceColumns(src, dst, x) = Covered(StartAt(T, x), T)
    BY <1>1, <1>3 DEF SourceColumns
  <1>5. ASSUME NEW x \in 0..(w - 1)
        PROVE  /\ SourceColumns(src, dst, x) # {}
               /\ SourceColumns(src, dst, x) \subseteq 0..LastFor(x, w, s)
    BY <1>2, <1>3, <1>4, CoveredRight
  <1>6. ASSUME NEW j \in 0..(s - 1)
        PROVE  \E x \in 0..(w - 1) : j \in SourceColumns(src, dst, x)
    <2>1. PICK o \in Nat \ {0} : o = One
      BY DEF FloatAssumption
    <2>2. w \in Nat \ {0} /\ s \in Nat \ {0}
      BY <1>1
    <2>3. PICK x \in 0..(w - 1) : /\ 2 * (x * s) <= (2 * j + 1) * w
                                  /\ (2 * j + 1) * w < 2 * (x * s + s)
      BY <2>2, CoveredAll
    <2>4. PICK A \in Nat : A = StartAt(T, x) /\ 16 * (A * w) <= 16 * (x * (o * s)) + 3 * (o * w)
      BY <1>3, <2>1, StartNear
    <2>5. PICK N \in Nat : /\ N = EndAt(A, T) /\ A < N
                           /\ 16 * (x * (o * s) + o * s) <= 16 * (N * w) + 7 * (o * w)
      BY <1>3, <2>1, <2>4, EndNear
    <2>6. N \in Nat \ {0}
      BY <2>4, <2>5
    <2>7. A \div o <= j /\ j <= (N - 1) \div o
      BY ONLY <2>2, <2>3, <2>4, <2>5, <2>6, o \in Nat \ {0}, j \in 0..(s - 1),
              x \in 0..(w - 1), A \in Nat, CoveredMiddle
    <2>8. PICK num, a, b \in Nat : num = N - 1 /\ a = A \div o /\ b = num \div o
      <3>1. PICK num \in Nat : num = N - 1
        BY <2>6
      <3>2. A \div o \in Nat /\ num \div o \in Nat
        BY <2>1, <2>4, <3>1, DivMod
      <3> QED
        BY <3>1, <3>2
    <2>9. j \in a..b
      BY <2>7, <2>8
    <2>10. Covered(A, T) = a..b
      BY <2>1, <2>5, <2>8 DEF Covered
    <2> QED
      BY <1>4, <2>4, <2>9, <2>10
  <1> QED
    BY <1>1, <1>5, <1>6

\* Each row of a picture is of some rows of the image.
LEMMA RowsRight ==
  ASSUME FloatAssumption, LengthAssumption, NEW src, NEW dst,
         src.width \in 1..MaxSide, dst.width \in 1..LARGE_IMAGE_LENGTH, dst.width <= src.width,
         src.height \in 1..MaxSide, dst.height \in 1..LARGE_IMAGE_LENGTH, dst.height <= src.height,
         dst.height * src.width <= dst.width * src.height,
         NEW y \in 0..(dst.height - 1)
  PROVE  /\ SourceRows(src, dst, y) # {}
         /\ SourceRows(src, dst, y) \subseteq 0..LastFor(y, dst.height, src.height)
  <1>1. PICK s \in 1..MaxSide, w \in 1..LARGE_IMAGE_LENGTH, i \in 1..MaxSide,
             h \in 1..LARGE_IMAGE_LENGTH :
          w = dst.width /\ s = src.width /\ i = src.height /\ h = dst.height
    OBVIOUS
  <1>2. w <= s /\ h <= i /\ h * s <= w * i /\ y \in 0..(h - 1)
    BY <1>1
  <1>3. PICK T \in Nat : /\ T = Scale(s, w) /\ One <= 2 * T /\ T <= 2 * (MaxSide * One)
                         /\ Significands * (T * w) <= Significands * (One * s) + One * s
    BY <1>2, EndScale
  <1>4. Significands * (T * h) <= Significands * (One * i) + One * i
    <2>1. /\ Significands \in Nat /\ One \in Nat /\ s \in Nat \ {0} /\ w \in Nat \ {0}
          /\ i \in Nat /\ h \in Nat
      BY DEF FloatAssumption
    <2> QED
      BY ONLY <1>2, <1>3, <2>1, T \in Nat, RowScale
  <1>5. SourceRows(src, dst, y) = Covered(StartAt(Scale(i, h), y), T)
    BY <1>1, <1>3 DEF SourceRows
  <1>6. LET cover == Covered(StartAt(Scale(i, h), y), T)
        IN  cover # {} /\ cover \subseteq 0..LastFor(y, h, i)
    BY <1>2, <1>3, <1>4, CoveredRight
  <1> QED
    BY <1>1, <1>5, <1>6

\* A pixel of a picture of any size lies in the image.
LEMMA NeighbourInside ==
  ASSUME FloatAssumption, LengthAssumption,
         NEW s \in 1..MaxSide, NEW w \in 1..LARGE_IMAGE_LENGTH, NEW x \in 0..(w - 1)
  PROVE  Neighbours(s, w, x) \subseteq 0..s
  <1>1. PICK o, D, L \in Nat \ {0} :
          o = One /\ D = Significands /\ L = LARGE_IMAGE_LENGTH /\ 4 * L <= D
    BY DEF FloatAssumption, LengthAssumption
  <1>2. PICK A, P, p \in Nat : /\ A = StartAt(Scale(s, w), x) /\ P = o * s /\ p = x * P
                               /\ D * (A * w) <= D * p + 3 * p
    BY <1>1, StartNear, TimesType
  <1>3. x \in Nat /\ x + 1 <= w /\ w \in Nat \ {0} /\ s \in Nat \ {0} /\ w <= L /\ P > 0
    BY <1>1, <1>2
  <1>4. PICK Dp, DP, wP, DwP \in Nat :
          Dp = D * p /\ DP = D * P /\ wP = w * P /\ DwP = D * wP
    <2>1. PICK wP \in Nat : wP = w * P
      BY <1>2, <1>3, TimesType
    <2>2. D * p \in Nat /\ D * P \in Nat /\ D * wP \in Nat
      BY <1>1, <1>2, <2>1, TimesType
    <2> QED
      BY <2>1, <2>2
  <1>5. p + P <= wP
    <2>1. (x + 1) * P <= w * P /\ (x + 1) * P = p + P
      BY <1>2, <1>3, TimesKeeps, TimesType
    <2> QED
      BY <1>4, <2>1
  <1>6. Dp + DP <= DwP
    <2>1. (p + P) * D <= wP * D
      BY <1>1, <1>2, <1>4, <1>5, TimesKeeps
    <2>2. (p + P) * D = Dp + DP /\ wP * D = DwP
      BY <1>1, <1>2, <1>4
    <2> QED
      BY <2>1, <2>2
  <1>7. 3 * p < DP
    <2>1. (4 * x) * P <= D * P
      BY <1>1, <1>2, <1>3, TimesKeeps
    <2>2. (4 * x) * P = 4 * p
      BY <1>2, <1>3
    <2>3. DP > 0
      BY <1>1, <1>3, <1>4
    <2> QED
      BY <1>2, <1>4, <2>1, <2>2, <2>3
  <1>8. A < P
    <2>1. D * (A * w) < D * wP
      <3>1. D * (A * w) \in Nat
        BY <1>1, <1>2, <1>3, TimesType
      <3>2. D * (A * w) <= Dp + 3 * p
        BY <1>2, <1>4
      <3> QED
        BY ONLY <1>4, <1>6, <1>7, <3>1, <3>2, Dp \in Nat, DP \in Nat, DwP \in Nat, p \in Nat
    <2>2. (A * w) * D < wP * D /\ A * w \in Nat
      BY <1>1, <1>2, <1>3, <1>4, <2>1, TimesType
    <2>3. A * w < wP
      BY ONLY <2>2, wP \in Nat, D \in Nat \ {0}, TimesLess
    <2>4. A * w < P * w
      BY <1>2, <1>3, <1>4, <2>3
    <2> QED
      BY ONLY <2>4, A \in Nat, P \in Nat, <1>3, TimesLess
  <1>9. PICK j \in Nat : j = A \div o /\ j < s
    <2>1. A < s * o
      BY <1>1, <1>2, <1>3, <1>8
    <2> QED
      BY <1>1, <1>2, <1>3, <2>1, DivBelow, DivMod
  <1> QED
    BY <1>1, <1>2, <1>3, <1>9 DEF Neighbours

\* No picture is wider or higher than the longer side of a page, turned or not.
LEMMA PageFits ==
  ASSUME NEW p, IsPhoto(p), LARGE_IMAGE_LENGTH \in Nat \ {0},
         NEW page, page = PageSize(p), NEW src, src = Source(p)
  PROVE  /\ page.width \in Nat /\ page.width <= LARGE_IMAGE_LENGTH
         /\ page.width * src.height <= LARGE_IMAGE_LENGTH * src.width
  <1>1. PICK L, pw, ph, sw, sh, w :
          /\ L = LARGE_IMAGE_LENGTH /\ pw = p.width /\ ph = p.height
          /\ sw = src.width /\ sh = src.height /\ w = page.width
    OBVIOUS
  <1>2. /\ L \in Nat \ {0} /\ pw \in Nat \ {0} /\ ph \in Nat \ {0}
        /\ sw \in Nat \ {0} /\ sh \in Nat \ {0} /\ w \in Nat
        /\ p.orientation \in {"1", "6", "8", "X"} /\ p.nef \in BOOLEAN
    BY <1>1, PhotoFacts
  <1>3. (sw = pw /\ sh = ph) \/ (sw = ph /\ sh = pw)
    BY <1>1 DEF Source
  <1>4. \/ w = L /\ sh <= sw
        \/ w = (L * pw) \div ph /\ pw <= ph
        \/ w = (L * ph) \div pw /\ ph <= pw
    <2>1. CASE ~Vertical(p)
      BY <1>1, <1>2, <2>1 DEF PageSize, HorizontalPage, Vertical, Source, Turned
    <2>2. CASE Vertical(p)
      BY <1>1, <1>2, <2>2 DEF PageSize, VerticalPage, Vertical
    <2> QED
      BY <2>1, <2>2
  <1>5. ASSUME NEW a \in Nat \ {0}, NEW b \in Nat \ {0}, a <= b, w = (L * a) \div b
        PROVE  w <= L /\ w * b <= L * a
    <2>1. PICK num \in Nat : num = L * a
      BY <1>2, TimesType
    <2>2. w * b <= num
      BY <1>5, <2>1, DivMod
    <2>3. num <= L * b
      <3>1. a * L <= b * L
        BY <1>2, <1>5, TimesKeeps
      <3> QED
        BY <1>2, <2>1, <3>1, TimesType
    <2>4. w * b <= L * b
      BY <1>2, <2>1, <2>2, <2>3, TimesType
    <2> QED
      BY <1>2, <2>1, <2>2, <2>4, TimesMost
  <1>6. ASSUME w <= L, sh <= sw PROVE w * sh <= L * sw
    <2>1. w * sh <= L * sh
      BY <1>2, <1>6, TimesKeeps
    <2>2. sh * L <= sw * L
      BY <1>2, <1>6, TimesKeeps
    <2>3. w * sh \in Nat /\ L * sh \in Nat /\ sh * L = L * sh /\ sw * L = L * sw /\ L * sw \in Nat
      BY <1>2, TimesType
    <2> QED
      BY <2>1, <2>2, <2>3
  <1>7. w <= L /\ w * sh <= L * sw
    <2>1. CASE w = L /\ sh <= sw
      BY <1>2, <1>6, <2>1
    <2>2. CASE w = (L * pw) \div ph /\ pw <= ph
      BY <1>2, <1>3, <1>5, <1>6, <2>2
    <2>3. CASE w = (L * ph) \div pw /\ ph <= pw
      BY <1>2, <1>3, <1>5, <1>6, <2>3
    <2> QED
      BY <1>4, <2>1, <2>2, <2>3
  <1> QED
    BY <1>1, <1>2, <1>7

\* A picture of any width that a page has, larger than the image or smaller.
LEMMA PixelsOf ==
  ASSUME FloatAssumption, LengthAssumption, NEW src,
         src.width \in 1..MaxSide, src.height \in 1..MaxSide,
         NEW dw \in 0..LARGE_IMAGE_LENGTH, dw * src.height <= LARGE_IMAGE_LENGTH * src.width,
         NEW dst, dst = Resized(src, dw)
  PROVE  PixelsRight(src, dst) /\ NeighboursRight(src, dst)
  <1>1. PICK L, sw, sh \in Nat \ {0} :
          L = LARGE_IMAGE_LENGTH /\ sw = src.width /\ sh = src.height
    BY DEF LengthAssumption
  <1>2. dw \in Nat /\ dw <= L
    BY <1>1
  <1>3. PICK m \in Nat : m = dw * sh
    BY <1>2, TimesType
  <1>4. PICK dh \in Nat : dh = m \div sw /\ dh * sw <= m
    BY <1>1, <1>3, DivMod
  <1>5. dst.width = dw /\ dst.height = dh
    BY <1>1, <1>3, <1>4 DEF Resized
  <1>6. dh <= L
    <2>1. dh * sw <= L * sw
      BY <1>1, <1>3, <1>4, TimesType
    <2> QED
      BY <1>1, <1>4, <2>1, TimesMost
  <1>7. PixelsRight(src, dst)
    <2> SUFFICES ASSUME ~Enlarges(src, dst), dst.height # 0
                 PROVE  /\ 0..(src.width - 1)
                             \subseteq UNION {SourceColumns(src, dst, x) : x \in 0..(dst.width - 1)}
                        /\ \A x \in 0..(dst.width - 1) :
                             /\ SourceColumns(src, dst, x) # {}
                             /\ SourceColumns(src, dst, x) \subseteq 0..LastFor(x, dst.width, src.width)
                        /\ \A y \in 0..(dst.height - 1) :
                             /\ SourceRows(src, dst, y) # {}
                             /\ SourceRows(src, dst, y) \subseteq 0..LastFor(y, dst.height, src.height)
      BY DEF PixelsRight
    <2>1. dst.width <= src.width /\ dst.height <= src.height
      BY <1>1, <1>2, <1>4, <1>5 DEF Enlarges
    <2>2. dh \in 1..LARGE_IMAGE_LENGTH
      BY <1>1, <1>5, <1>6
    <2>3. dw # 0
      <3>1. dh * sw # 0
        BY <1>1, <2>2
      <3> QED
        BY <1>1, <1>3, <1>4, <3>1
    <2>4. dw \in 1..LARGE_IMAGE_LENGTH
      BY <2>3
    <2>5. dst.width \in 1..LARGE_IMAGE_LENGTH /\ dst.height \in 1..LARGE_IMAGE_LENGTH
      BY <1>5, <2>2, <2>4
    <2>6. dst.height * src.width <= dst.width * src.height
      BY <1>1, <1>3, <1>4, <1>5
    <2>7. \A y \in 0..(dst.height - 1) :
            /\ SourceRows(src, dst, y) # {}
            /\ SourceRows(src, dst, y) \subseteq 0..LastFor(y, dst.height, src.height)
      BY <2>1, <2>5, <2>6, RowsRight, Zenon
    <2>8. /\ 0..(src.width - 1)
               \subseteq UNION {SourceColumns(src, dst, x) : x \in 0..(dst.width - 1)}
          /\ \A x \in 0..(dst.width - 1) :
               /\ SourceColumns(src, dst, x) # {}
               /\ SourceColumns(src, dst, x) \subseteq 0..LastFor(x, dst.width, src.width)
      BY ONLY <2>1, <2>5, FloatAssumption, LengthAssumption, src.width \in 1..MaxSide, ColumnsRight
    <2> QED
      BY <2>7, <2>8, Zenon
  <1>8. \A x \in 0..(dw - 1) : Neighbours(src.width, dw, x) \subseteq 0..src.width
    <2> SUFFICES ASSUME NEW x \in 0..(dw - 1)
                 PROVE  Neighbours(src.width, dw, x) \subseteq 0..src.width
      OBVIOUS
    <2>1. dw \in 1..LARGE_IMAGE_LENGTH
      BY <1>2
    <2> QED
      BY <2>1, NeighbourInside, Zenon
  <1>9. \A y \in 0..(dh - 1) : Neighbours(src.height, dh, y) \subseteq 0..src.height
    <2> SUFFICES ASSUME NEW y \in 0..(dh - 1)
                 PROVE  Neighbours(src.height, dh, y) \subseteq 0..src.height
      OBVIOUS
    <2>1. dh \in 1..LARGE_IMAGE_LENGTH
      BY <1>1, <1>6
    <2> QED
      BY <2>1, NeighbourInside, Zenon
  <1>10. NeighboursRight(src, dst)
    BY <1>5, <1>8, <1>9, Zenon DEF NeighboursRight
  <1> QED
    BY <1>7, <1>10

-----------------------------------------------------------------------------
(* The sizes and pixels of every photo. *)

\* The inductive invariant: the output is what SizePicture makes of the input.
PhotoInv ==
  input.kind = "photo" =>
    /\ IsPhoto(input)
    /\ \/ output = <<>>
       \/ output = <<PageSize(input), Websize(input), Thumbnail(input)>>

\* The picture of a page and its thumbnail.
LEMMA PicturesOf ==
  ASSUME FloatAssumption, LengthAssumption, NEW p, IsPhoto(p)
  PROVE  /\ SizesAgree(p, PageSize(p), Websize(p))
         /\ \A picture \in {Websize(p), Thumbnail(p)} :
              /\ PixelsRight(Source(p), picture)
              /\ NeighboursRight(Source(p), picture)
  <1>1. PICK page, src : page = PageSize(p) /\ src = Source(p)
    OBVIOUS
  <1>2. PICK big, small : /\ big = Resized(src, page.width)
                          /\ small = Resized(src, page.width \div 4)
    OBVIOUS
  <1>3. big = Websize(p) /\ small = Thumbnail(p)
    BY <1>1, <1>2 DEF Websize, Thumbnail
  <1>4. LARGE_IMAGE_LENGTH \in Nat \ {0}
    BY DEF LengthAssumption
  <1>5. SizesAgree(p, page, big)
    BY <1>1, <1>2, <1>4, SizesRight
  <1>6. /\ src.width \in 1..MaxSide /\ src.height \in 1..MaxSide
        /\ src.width \in Nat \ {0} /\ src.height \in Nat \ {0}
    BY <1>1, <1>4, PhotoFacts
  <1>7. /\ page.width \in Nat /\ page.width <= LARGE_IMAGE_LENGTH
        /\ page.width * src.height <= LARGE_IMAGE_LENGTH * src.width
    BY <1>1, <1>4, PageFits
  <1>8. PICK dw, qw \in 0..LARGE_IMAGE_LENGTH : dw = page.width /\ qw = page.width \div 4 /\ qw <= dw
    BY <1>4, <1>7
  <1>9. qw * src.height <= LARGE_IMAGE_LENGTH * src.width
    <2>1. qw * src.height <= dw * src.height
      BY <1>6, <1>8, TimesKeeps
    <2>2. PICK a, b, c \in Nat : /\ a = qw * src.height /\ b = dw * src.height
                                /\ c = LARGE_IMAGE_LENGTH * src.width
      BY <1>4, <1>6, TimesType
    <2> QED
      BY ONLY <1>7, <1>8, <2>1, <2>2, a \in Nat, b \in Nat, c \in Nat
  <1>10. PixelsRight(src, big) /\ NeighboursRight(src, big)
    <2>1. dw * src.height <= LARGE_IMAGE_LENGTH * src.width /\ big = Resized(src, dw)
      BY <1>2, <1>7, <1>8
    <2> QED
      BY <1>6, <2>1, PixelsOf, Zenon
  <1>11. PixelsRight(src, small) /\ NeighboursRight(src, small)
    <2>1. small = Resized(src, qw)
      BY <1>2, <1>8
    <2> QED
      BY <1>6, <1>9, <2>1, PixelsOf, Zenon
  <1> QED
    BY <1>1, <1>3, <1>5, <1>10, <1>11, Zenon

\* For every length of a page, every size of an image, turned or not, and every precision
\* of the floats: the picture is as large as its page says, but for the rows of a column
\* that the width is rounded by, and all columns of the image are in it and in its
\* thumbnail; the last column and the last row of a picture are made of one outside, too,
\* at most, and the others of the image alone (output_web, resize, reduce_image_size,
\* image_resize_bilinear).
THEOREM SizesCorrect ==
  ASSUME LengthAssumption, FloatAssumption
  PROVE  Evaluation => []PicturesFit
  <1>1. Given => PhotoInv
    <2> SUFFICES ASSUME Given, input.kind = "photo"
                 PROVE  IsPhoto(input) /\ output = <<>>
      BY DEF PhotoInv
    <2>1. output = <<>>
      BY DEF Given
    <2>2. input \in Photos
      <3>1. /\ input \notin Smalls /\ input \notin Undefineds
            /\ input \notin Shutters /\ input \notin Lenses
        BY DEF Smalls, Undefineds, Shutters, Lenses
      <3>2. input \notin Codes
        BY DEF Codes
      <3> QED
        BY <3>1, <3>2 DEF Given
    <2>3. IsPhoto(input)
      BY <2>2 DEF Photos, IsPhoto
    <2> QED
      BY <2>1, <2>3
  <1>2. PhotoInv /\ [Evaluate]_io => PhotoInv'
    <2> SUFFICES ASSUME PhotoInv, [Evaluate]_io, input'.kind = "photo"
                 PROVE  /\ IsPhoto(input')
                        /\ \/ output' = <<>>
                           \/ output' = <<PageSize(input'), Websize(input'),
                                          Thumbnail(input')>>
      BY DEF PhotoInv
    <2>1. input' = input
      BY DEF Evaluate, io, Computed, Computes,
             FormatSmall, FormatHex, NameCode,
             PrintShutter, PrintLens, SizePicture
    <2>2. output' = output \/ SizePicture
      BY <2>1 DEF Evaluate, io, Computed, Computes,
             FormatSmall, FormatHex, NameCode,
             PrintShutter, PrintLens
    <2>3. CASE output' = output
      BY <2>1, <2>3 DEF PhotoInv
    <2>4. CASE SizePicture
      BY <2>1, <2>4 DEF PhotoInv, SizePicture
    <2> QED
      BY <2>2, <2>3, <2>4
  <1>3. PhotoInv => PicturesFit
    <2> SUFFICES ASSUME PhotoInv, output # <<>>, input.kind = "photo"
                 PROVE  PicturesFit
      BY DEF PicturesFit, Has
    <2>1. PICK a, b, c : /\ a = PageSize(input) /\ b = Websize(input)
                         /\ c = Thumbnail(input)
      OBVIOUS
    <2>2. output = <<a, b, c>> /\ IsPhoto(input)
      BY <2>1 DEF PhotoInv
    <2>3. output[1] = a /\ output[2] = b /\ output[3] = c
      BY ONLY <2>2
    <2>4. /\ SizesAgree(input, a, b)
          /\ \A picture \in {b, c} :
               /\ PixelsRight(Source(input), picture)
               /\ NeighboursRight(Source(input), picture)
      BY <2>1, <2>2, PicturesOf, Zenon
    <2> QED
      BY <2>3, <2>4, Zenon DEF PicturesFit
  <1> QED
    BY <1>1, <1>2, <1>3, PTL DEF Evaluation

=============================================================================
