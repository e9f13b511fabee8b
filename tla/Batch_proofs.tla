---------------------------- MODULE Batch_proofs ----------------------------
(***************************************************************************)
(* Theorems about Batch, for every command line, whatever its files are    *)
(* and however many descriptors there are: the types, that nothing of one  *)
(* file reaches the report of another, and which files are reported.       *)
(***************************************************************************)
EXTENDS Batch, SequenceTheorems, FiniteSetTheorems, TLAPS

-----------------------------------------------------------------------------
(* The inductive invariant. *)

Idle == {"next", "file", "opened", "reset", "write", "finished"}
AtWork == {"header", "xmp", "report", "free"}
PcValues == Idle \cup AtWork \cup {"exit", "crash"}

\* A file is at hand, the one at hand is open, and rows are being collected.
ControlInv ==
  /\ pc \notin {"next"} \cup Ended => n > 0
  /\ pc \in {"opened", "header", "xmp", "report", "write"} => opened > 0
  /\ pc \in {"xmp", "report", "free"} => mode \in Reporting
  /\ pc = "write" => mode = "extract"
  /\ last # 0 => last = start
  /\ mode \in Collecting /\ pc \in AtWork => last # 0

\* Between two files nothing is listed; the walk lists the file at hand.
DirsInv ==
  /\ pc \in Idle \/ mode = "extract" => last = 0
  /\ pc \in Idle => dirs = {}
  /\ pc = "header" => dirs = {}
  /\ pc = "xmp" => dirs = {n} /\ Img.walk = "done"

\* With a collecting option one list at most is allocated: while a file is at
\* hand, that of its rows.
OnlyList(k) ==
  /\ k \in 1..Len(lists)
  /\ lists[k].alive
  /\ \A j \in 1..Len(lists) : j # k => ~lists[j].alive

ListInv ==
  mode \in Collecting =>
    /\ pc \in Idle => \A k \in 1..Len(lists) : ~lists[k].alive
    /\ pc \in AtWork => last = start /\ OnlyList(start)
    /\ pc \in {"header", "xmp"} => lists[start].rows = OneRow("name")
    /\ pc = "report" => lists[start].rows = OwnRows(n)

\* No orientation is left from an earlier file.
OrientationInv ==
  /\ pc \in {"next", "file", "opened", "header", "xmp"} => orientation = 0
  /\ OwnOrientation

\* jsIndex and jsFirst count the records of -js.
JsInv ==
  mode = "js" => jsIndex = Len(out) /\ jsFirst = (Len(out) = 0)

TypeInv == TypeOK /\ ControlInv
RowsInv == TypeInv /\ DirsInv /\ ListInv /\ ReportOwnRows

-----------------------------------------------------------------------------
(* Types. *)

LEMMA CommandLine ==
  ASSUME NEW s \in UNION {[1..k -> Files] : k \in 0..MaxFiles}
  PROVE  s \in Seq(Files) /\ Len(s) <= MaxFiles
<1>1. PICK k \in 0..MaxFiles : s \in [1..k -> Files]
  OBVIOUS
<1>2. k \in Nat
  BY <1>1, BoundAssumption
<1> QED
  BY <1>1, <1>2, BoundAssumption

\* The file at hand.
LEMMA AtHand ==
  ASSUME TypeInv, n > 0
  PROVE  /\ n \in 1..Len(argv) /\ n \in 1..MaxFiles
         /\ Img \in ImageKind
         /\ Img.orientation \in 0..8
<1>1. n \in 1..Len(argv) /\ n \in 1..MaxFiles /\ argv \in Seq(Files)
  BY BoundAssumption DEF TypeInv, TypeOK
<1>2. argv[n] \in Files
  BY <1>1
<1>3. Img \in ImageKind
  BY <1>2, ImageAssumption DEF Img
<1> QED
  BY <1>1, <1>3 DEF ImageKind

LEMMA OneRowType ==
  ASSUME NEW w \in {"name", "tags", "xmp"}, n \in 1..MaxFiles
  PROVE  OneRow(w) \subseteq Row
  BY DEF OneRow, Row

LEMMA DisplayedType ==
  ASSUME TypeInv, n > 0
  PROVE  Displayed \subseteq Row
<1>1. n \in 1..MaxFiles /\ dirs \subseteq 1..MaxFiles
  BY AtHand, BoundAssumption DEF TypeInv, TypeOK
<1>2. {[file |-> i, what |-> "tags"] : i \in {j \in dirs : Image[argv[j]].tags}}
        \subseteq Row
  BY <1>1 DEF Row
<1> QED
  BY <1>1, <1>2, OneRowType DEF Displayed

LEMMA NewList ==
  ASSUME NEW s \in Seq(RowList), NEW x \in RowList
  PROVE  LET t == Append(s, x)
         IN  /\ t \in Seq(RowList)
             /\ Len(t) = Len(s) + 1
             /\ t[Len(t)] = x
             /\ \A j \in 1..Len(s) : t[j] = s[j]
  OBVIOUS

LEMMA ChangedList ==
  ASSUME NEW s \in Seq(RowList), NEW i \in 1..Len(s), NEW x \in RowList
  PROVE  LET t == [s EXCEPT ![i] = x]
         IN  /\ t \in Seq(RowList)
             /\ Len(t) = Len(s)
             /\ t[i] = x
             /\ \A j \in 1..Len(s) : j # i => t[j] = s[j]
  OBVIOUS

\* my_printf starts a list when there is none.
LEMMA StartsList ==
  ASSUME TypeInv, last = 0, NEW rows \in SUBSET Row, AddRows(rows)
  PROVE  /\ lists' \in Seq(RowList)
         /\ Len(lists') = Len(lists) + 1
         /\ lists'[Len(lists')] = [rows |-> rows, alive |-> TRUE]
         /\ \A j \in 1..Len(lists) : lists'[j] = lists[j]
         /\ last' = Len(lists) + 1 /\ start' = Len(lists) + 1
<1>1. lists \in Seq(RowList)
  BY DEF TypeInv, TypeOK
<1>2. [rows |-> rows, alive |-> TRUE] \in RowList
  BY DEF RowList
<1>3. /\ lists' = Append(lists, [rows |-> rows, alive |-> TRUE])
      /\ last' = Len(lists') /\ start' = Len(lists')
  BY DEF AddRows
<1> QED
  BY <1>1, <1>2, <1>3, NewList

\* Otherwise it adds to it.
LEMMA ExtendsList ==
  ASSUME TypeInv, last # 0, NEW rows \in SUBSET Row, AddRows(rows)
  PROVE  /\ lists' \in Seq(RowList)
         /\ Len(lists') = Len(lists)
         /\ last \in 1..Len(lists)
         /\ lists'[last].rows = lists[last].rows \cup rows
         /\ lists'[last].alive = lists[last].alive
         /\ \A j \in 1..Len(lists) : j # last => lists'[j] = lists[j]
         /\ last' = last /\ start' = start
<1> DEFINE x == [lists[last] EXCEPT !.rows = lists[last].rows \cup rows]
<1>1. lists \in Seq(RowList) /\ last \in 1..Len(lists)
  BY DEF TypeInv, TypeOK
<1>2. lists[last] \in RowList
  BY <1>1
<1>3. /\ x \in RowList
      /\ x.rows = lists[last].rows \cup rows
      /\ x.alive = lists[last].alive
  BY <1>2 DEF RowList
<1>4. lists' = [lists EXCEPT ![last] = x] /\ last' = last /\ start' = start
  BY <1>1 DEF AddRows
<1> HIDE DEF x
<1> QED
  BY <1>1, <1>3, <1>4, ChangedList

LEMMA AddRowsType ==
  ASSUME TypeInv, NEW rows \in SUBSET Row, AddRows(rows)
  PROVE  /\ lists' \in Seq(RowList) /\ {last', start'} \subseteq 0..Len(lists')
         /\ last' # 0 /\ last' = start'
<1>1. lists \in Seq(RowList) /\ {last, start} \subseteq 0..Len(lists)
  BY DEF TypeInv, TypeOK
<1>2. CASE last = 0
  <2>1. /\ lists' \in Seq(RowList)
        /\ Len(lists') = Len(lists) + 1
        /\ last' = Len(lists) + 1 /\ start' = Len(lists) + 1
    BY <1>2, StartsList
  <2>2. Len(lists) \in Nat
    BY <1>1
  <2> QED
    BY <2>1, <2>2
<1>3. CASE last # 0
  <2>1. last = start
    BY <1>3 DEF TypeInv, ControlInv
  <2> QED
    BY <1>1, <1>3, <2>1, ExtendsList
<1> QED
  BY <1>2, <1>3

\* What free_memory does: the list at start is released.
LEMMA Releasing ==
  ASSUME TypeInv, NEW next, FreeMemory(next)
  PROVE  /\ lists' \in Seq(RowList)
         /\ Len(lists') = Len(lists)
         /\ last' = 0 /\ dirs' = {} /\ start' = start
         /\ pc' \in {"crash", next}
         /\ start # 0 => ~lists'[start].alive
         /\ \A j \in 1..Len(lists) : j # start => lists'[j] = lists[j]
<1>1. lists \in Seq(RowList) /\ start \in 0..Len(lists)
  BY DEF TypeInv, TypeOK
<1>2. last' = 0 /\ dirs' = {} /\ start' = start /\ pc' \in {"crash", next}
  BY DEF FreeMemory, ForgetLists, ReleaseRows
<1>3. CASE start = 0
  BY <1>1, <1>2, <1>3 DEF FreeMemory, ReleaseRows
<1>4. CASE start # 0 /\ lists[start].alive
  <2> DEFINE x == [lists[start] EXCEPT !.alive = FALSE]
  <2>1. start \in 1..Len(lists) /\ lists[start] \in RowList
    BY <1>1, <1>4
  <2>2. x \in RowList /\ ~x.alive
    BY <2>1 DEF RowList
  <2>3. lists' = [lists EXCEPT ![start] = x]
    BY <1>4, <2>1 DEF FreeMemory, ReleaseRows
  <2> HIDE DEF x
  <2> QED
    BY <1>1, <1>2, <2>1, <2>2, <2>3, ChangedList
<1>5. CASE start # 0 /\ ~lists[start].alive
  BY <1>1, <1>2, <1>5 DEF FreeMemory, ReleaseRows
<1> QED
  BY <1>3, <1>4, <1>5

LEMMA InitTypes == Init => TypeInv
<1> SUFFICES ASSUME Init PROVE TypeInv
  OBVIOUS
<1>1. argv \in Seq(Files) /\ Len(argv) <= MaxFiles
  BY CommandLine DEF Init
<1>2. <<>> \in Seq(RowList) /\ <<>> \in Seq(Report) /\ Len(<<>>) = 0
  BY EmptySeq
<1>3. TypeOK
  BY <1>1, <1>2, BoundAssumption DEF Init, TypeOK, Ended
<1>4. ControlInv
  BY DEF Init, ControlInv, AtWork
<1> QED
  BY <1>3, <1>4 DEF TypeInv

\* The actions of -rm that copy nothing, and those that end the program because of a
\* text that is missing, a maker note or the file system.
NotCopied == RemoveNef \/ NothingToCopy \/ CopyNotOpened \/ CopyNotWritten
Stopping == NoText \/ BadNote \/ NoSoftware \/ ThumbnailNotCreated \/ ThumbnailNotWritten

\* What the file system did not take is of the file at hand.
Failing ==
  /\ refused \subseteq refused' /\ refused' \subseteq refused \cup {n}
  /\ unwritten \subseteq unwritten' /\ unwritten' \subseteq unwritten \cup {n}

LEMMA NotCopiedSteps ==
  ASSUME NotCopied
  PROVE  /\ UNCHANGED <<argv, n, mode, orientation, count, texts, reporting>>
         /\ pc = "opened" /\ pc' = "reset" /\ mode = "remove" /\ Failing
  BY DEF NotCopied, RemoveNef, NothingToCopy, CopyNotOpened, CopyNotWritten, Copies,
    outside, failures, Failing

LEMMA StoppingSteps ==
  ASSUME Stopping
  PROVE  /\ UNCHANGED <<argv, n, mode, opened, orientation, count, texts, reporting>>
         /\ pc \in {"header", "write"} /\ pc' \in {"exit", "crash"} /\ Failing
  BY DEF Stopping, NoText, BadNote, NoSoftware, ThumbnailNotCreated, ThumbnailNotWritten,
    outside, failures, Failing

\* The actions that change nothing but the control, the descriptors, the orientation
\* and the texts.
Quiet ==
  \/ NextFile \/ Finish \/ EndFile \/ RefuseJpg \/ WrongType \/ OpenFails
  \/ Open \/ NoExif \/ BeginExtract \/ BadHeader \/ BadXmp \/ WalkJpg
  \/ NotCopied \/ Stopping \/ UNCHANGED vars

LEMMA QuietKeeps == ASSUME Quiet PROVE UNCHANGED <<argv, mode, reporting>>
  BY NotCopiedSteps, StoppingSteps
  DEF Quiet, NextFile, Finish, EndFile, RefuseJpg, WrongType, OpenFails,
    Open, NoExif, BeginExtract, BadHeader, BadXmp, WalkJpg, vars

LEMMA QuietTypes == ASSUME TypeInv, Quiet PROVE TypeInv'
<1>1. /\ UNCHANGED <<argv, mode, lists, last, start, dirs, label, jsIndex,
                     jsFirst, out>>
  BY QuietKeeps DEF reporting
<1> USE DEF TypeInv, TypeOK, ControlInv, AtWork, Collecting, outside, failures
<1>2. CASE NextFile
  <2>1. /\ pc' \in {"file", "next"} /\ n' \in 0..Len(argv) /\ n' > 0
        /\ 1..n \subseteq 1..n'
    BY <1>2 DEF NextFile, AfterStat
  <2> QED
    BY <1>1, <1>2, <2>1 DEF NextFile
<1>3. CASE Finish
  <2>1. count' \in Int
    BY <1>3 DEF Finish, LastIndex
  <2> QED
    BY <1>1, <1>3, <2>1 DEF Finish, Ended
<1>4. CASE EndFile
  BY <1>1, <1>4 DEF EndFile, OrientationReset, AfterFile
<1>5. CASE RefuseJpg
  BY <1>1, <1>5 DEF RefuseJpg, Ended
<1>6. CASE WrongType
  BY <1>1, <1>6 DEF WrongType, Ended
<1>7. CASE OpenFails
  BY <1>1, <1>7 DEF OpenFails, Ended
<1>8. CASE Open
  <2>1. opened' \in 0..MaxOpen /\ opened' > 0
    BY <1>8, BoundAssumption DEF Open, CanOpen
  <2> QED
    BY <1>1, <1>8, <2>1 DEF Open, Ended
<1>9. CASE NoExif
  BY <1>1, <1>9 DEF NoExif, Ended
<1>10. CASE BeginExtract
  BY <1>1, <1>10 DEF BeginExtract, Ended
<1>11. CASE BadHeader
  BY <1>1, <1>11 DEF BadHeader, Ended
<1>12. CASE BadXmp
  BY <1>1, <1>12 DEF BadXmp, Ended
<1>13. CASE WalkJpg
  <2>1. orientation' \in 0..8
    BY <1>13, AtHand DEF WalkJpg, Ended
  <2>2. pc' = "write" /\ texts' \subseteq Texts
    BY <1>13, AtHand DEF WalkJpg, Known, ImageKind, Ended
  <2> QED
    BY <1>1, <1>13, <2>1, <2>2 DEF WalkJpg, Ended
<1>14. CASE UNCHANGED vars
  BY <1>1, <1>14 DEF vars
<1>15. CASE NotCopied
  <2>1. n \in 1..n /\ n > 0
    BY <1>15, NotCopiedSteps DEF Ended
  <2>2. opened' \in 0..MaxOpen
    BY <1>15, BoundAssumption
    DEF NotCopied, RemoveNef, NothingToCopy, CopyNotOpened, CopyNotWritten
  <2>3. (refused \cup unwritten)' \subseteq (1..n)'
    BY <1>15, <2>1, NotCopiedSteps DEF Failing
  <2> QED
    BY <1>1, <1>15, <2>1, <2>2, <2>3, NotCopiedSteps DEF Ended
<1>16. CASE Stopping
  <2>1. n \in 1..n /\ n > 0
    BY <1>16, StoppingSteps DEF Ended
  <2>2. (refused \cup unwritten)' \subseteq (1..n)'
    BY <1>16, <2>1, StoppingSteps DEF Failing
  <2> QED
    BY <1>1, <1>16, <2>1, <2>2, StoppingSteps DEF Ended
<1> QED
  BY <1>2, <1>3, <1>4, <1>5, <1>6, <1>7, <1>8, <1>9, <1>10, <1>11, <1>12,
    <1>13, <1>14, <1>15, <1>16 DEF Quiet

LEMMA ReportTypes ==
  ASSUME NEW s \in Seq(Report), NEW x \in Report
  PROVE  Append(s, x) \in Seq(Report) /\ Len(Append(s, x)) = Len(s) + 1
  OBVIOUS

LEMMA BusyTypes ==
  ASSUME TypeInv,
         \/ RemoveExif \/ BeginReport \/ Walk \/ WalkFails \/ Display
         \/ PrintReport \/ Release \/ WriteThumbnail
  PROVE  TypeInv'
<1> USE DEF outside, failures, Copies, Written
<1>1. n > 0 /\ n \in 1..MaxFiles /\ n \in 1..Len(argv) /\ Img \in ImageKind
  BY AtHand
  DEF TypeInv, ControlInv, RemoveExif, BeginReport, Walk, WalkFails, Display,
    PrintReport, Release, WriteThumbnail, Ended
<1>2. CASE RemoveExif
  <2>1. [file |-> n, rows |-> {}, index |-> 0, header |-> FALSE] \in Report
    BY <1>1 DEF Report
  <2>2. out' \in Seq(Report)
    BY <1>2, <2>1, ReportTypes DEF RemoveExif, TypeInv, TypeOK
  <2> QED
    BY <1>1, <1>2, <2>2 DEF RemoveExif, TypeInv, TypeOK, ControlInv, AtWork, Ended
<1>3. CASE BeginReport
  <2>1. OneRow("name") \in SUBSET Row
    BY <1>1, OneRowType
  <2>2. /\ lists' \in Seq(RowList) /\ {last', start'} \subseteq 0..Len(lists')
        /\ mode \in Collecting => last' # 0
        /\ last' # 0 => last' = start'
    BY <1>3, <2>1, AddRowsType DEF BeginReport, TypeInv, TypeOK, ControlInv
  <2> QED
    BY <1>1, <1>3, <2>2 DEF BeginReport, TypeInv, TypeOK, ControlInv, AtWork, Ended
<1>4. CASE Walk
  <2>1. pc' = "xmp" /\ texts' \subseteq Texts
    BY <1>1, <1>4 DEF Walk, Known, ImageKind, TypeInv, TypeOK
  <2>2. dirs' \subseteq 1..Len(argv)
    BY <1>1, <1>4 DEF Walk, TypeInv, TypeOK
  <2> QED
    BY <1>1, <1>4, <2>1, <2>2 DEF Walk, TypeInv, TypeOK, ControlInv, AtWork, Ended
<1>5. CASE WalkFails
  <2>1. FreeMemory("reset")
    BY <1>5 DEF WalkFails, ReleaseAfterError
  <2>2. /\ lists' \in Seq(RowList) /\ Len(lists') = Len(lists)
        /\ last' = 0 /\ dirs' = {} /\ start' = start
        /\ pc' \in {"crash", "reset"}
    BY <2>1, Releasing
  <2>3. texts' \subseteq Texts
    BY <1>1, <1>5 DEF WalkFails, Known, ImageKind, TypeInv, TypeOK
  <2> QED
    BY <1>1, <1>5, <2>2, <2>3 DEF WalkFails, TypeInv, TypeOK, ControlInv, AtWork, Ended
<1>6. CASE Display
  <2>1. Displayed \in SUBSET Row
    BY <1>1, DisplayedType
  <2>2. /\ lists' \in Seq(RowList) /\ {last', start'} \subseteq 0..Len(lists')
        /\ mode \in Collecting => last' # 0
        /\ last' # 0 => last' = start'
    BY <1>6, <2>1, AddRowsType DEF Display, TypeInv, TypeOK, ControlInv, AtWork
  <2>3. {orientation', label'} \subseteq 0..8
    BY <1>1, <1>6, AtHand DEF Display, TypeInv, TypeOK
  <2> QED
    BY <1>1, <1>6, <2>2, <2>3 DEF Display, TypeInv, TypeOK, ControlInv, AtWork, Ended
<1>7. CASE PrintReport
  <2> DEFINE r == IF mode \in Collecting THEN lists[start].rows ELSE {}
             x == [file |-> n, rows |-> r,
                   index |-> IF mode = "js" THEN jsIndex ELSE 0,
                   header |-> mode = "js" /\ jsFirst]
  <2>1. r \in SUBSET Row
    <3>1. CASE mode \in Collecting
      <4>1. start \in 1..Len(lists) /\ lists \in Seq(RowList)
        BY <1>7, <3>1 DEF PrintReport, AtWork, TypeInv, TypeOK, ControlInv
      <4>2. lists[start] \in RowList
        BY <4>1
      <4> QED
        BY <3>1, <4>2 DEF RowList
    <3>2. CASE mode \notin Collecting
      BY <3>2
    <3> QED
      BY <3>1, <3>2
  <2>2. x \in Report
    <3> HIDE DEF r
    <3> QED
      BY <1>1, <2>1 DEF Report, TypeInv, TypeOK
  <2>3. out' \in Seq(Report)
    BY <1>7, <2>2, ReportTypes DEF PrintReport, TypeInv, TypeOK
  <2>4. opened' \in 0..MaxOpen /\ jsIndex' \in Nat /\ jsFirst' \in BOOLEAN
    BY <1>7, BoundAssumption DEF PrintReport, TypeInv, TypeOK, ControlInv
  <2> QED
    BY <1>1, <1>7, <2>3, <2>4 DEF PrintReport, TypeInv, TypeOK, ControlInv, AtWork, Ended
<1>8. CASE Release
  <2>1. /\ lists' \in Seq(RowList) /\ Len(lists') = Len(lists)
        /\ last' = 0 /\ dirs' = {} /\ start' = start
        /\ pc' \in {"crash", "reset"}
    BY <1>8, Releasing DEF Release
  <2> QED
    BY <1>1, <1>8, <2>1 DEF Release, TypeInv, TypeOK, ControlInv, AtWork, Ended
<1>9. CASE WriteThumbnail
  <2>1. [file |-> n, rows |-> {}, index |-> 0, header |-> FALSE] \in Report
    BY <1>1 DEF Report
  <2>2. out' \in Seq(Report)
    BY <1>9, <2>1, ReportTypes DEF WriteThumbnail, TypeInv, TypeOK
  <2>3. opened' \in 0..MaxOpen
    BY <1>9, BoundAssumption DEF WriteThumbnail, TypeInv, TypeOK, ControlInv
  <2> QED
    BY <1>1, <1>9, <2>2, <2>3 DEF WriteThumbnail, TypeInv, TypeOK, ControlInv, AtWork, Ended
<1> QED
  BY <1>2, <1>3, <1>4, <1>5, <1>6, <1>7, <1>8, <1>9

Busy ==
  \/ RemoveExif \/ BeginReport \/ Walk \/ WalkFails \/ Display
  \/ PrintReport \/ Release \/ WriteThumbnail

LEMMA NextCases == ASSUME [Next]_vars PROVE Quiet \/ Busy
  BY DEF Next, Quiet, Busy, NotCopied, Stopping, Stopped

\* Every variable keeps its type, whatever the command line and its files are.
THEOREM TypeCorrect == Spec => []TypeOK
<1>1. Init => TypeInv
  BY InitTypes
<1>2. TypeInv /\ [Next]_vars => TypeInv'
  BY NextCases, QuietTypes, BusyTypes DEF Busy
<1>3. TypeInv => TypeOK
  BY DEF TypeInv
<1> QED
  BY <1>1, <1>2, <1>3, PTL DEF Spec

-----------------------------------------------------------------------------
(* The rows of a report. *)

LEMMA InitRows == Init => RowsInv
<1> SUFFICES ASSUME Init PROVE RowsInv
  OBVIOUS
<1>1. lists = <<>> /\ out = <<>> /\ pc = "next" /\ last = 0 /\ dirs = {}
  BY DEF Init
<1>2. Len(<<>>) = 0
  BY EmptySeq
<1>3. DirsInv
  BY <1>1 DEF DirsInv, Idle
<1>4. ListInv
  BY <1>1, <1>2 DEF ListInv, AtWork
<1>5. ReportOwnRows
  BY <1>1, <1>2 DEF ReportOwnRows
<1> QED
  BY <1>3, <1>4, <1>5, InitTypes DEF RowsInv

LEMMA QuietRows ==
  ASSUME RowsInv, Quiet
  PROVE  DirsInv' /\ ListInv' /\ ReportOwnRows'
<1>1. /\ UNCHANGED <<argv, mode, lists, last, start, dirs, out>>
  BY QuietKeeps DEF reporting
<1>2. ReportOwnRows'
  BY <1>1 DEF RowsInv, ReportOwnRows, OwnRows
<1>3. CASE UNCHANGED vars
  <2>1. UNCHANGED <<pc, n>>
    BY <1>3 DEF vars
  <2>2. DirsInv'
    BY <1>1, <2>1 DEF RowsInv, DirsInv, Img
  <2>3. ListInv'
    BY <1>1, <2>1 DEF RowsInv, ListInv, OnlyList, OneRow, OwnRows
  <2> QED
    BY <1>2, <2>2, <2>3
<1>4. CASE ~UNCHANGED vars
  <2>1. pc \in Idle \cup {"header", "xmp"}
    BY <1>4, NotCopiedSteps, StoppingSteps
    DEF Quiet, NextFile, Finish, EndFile, RefuseJpg, WrongType, OpenFails, Open,
      NoExif, BeginExtract, BadHeader, BadXmp, WalkJpg, Idle
  <2>2. \/ pc' \in {"exit", "crash"}
        \/ pc \in Idle /\ pc' \in Idle
        \/ mode = "extract" /\ pc' \in {"header", "write"} /\ dirs = {} /\ last = 0
    BY <1>4, NotCopiedSteps, StoppingSteps
    DEF Quiet, NextFile, Finish, EndFile, RefuseJpg, WrongType, OpenFails, Open,
      NoExif, BeginExtract, BadHeader, BadXmp, WalkJpg, Idle, AfterStat, AfterFile,
      RowsInv, DirsInv
  <2>3. DirsInv'
    BY <1>1, <2>2 DEF RowsInv, DirsInv, Idle
  <2>4. ListInv'
    BY <1>1, <2>2 DEF RowsInv, ListInv, OnlyList, OneRow, OwnRows, Idle, AtWork, Collecting
  <2> QED
    BY <1>2, <2>3, <2>4
<1> QED
  BY <1>2, <1>3, <1>4

\* The rows of the directories of the file at hand and of its packet are, with
\* the name, all the rows of the file.
LEMMA DisplayedRows ==
  ASSUME dirs = {n}
  PROVE  OneRow("name") \cup Displayed = OwnRows(n)
<1>1. {[file |-> i, what |-> "tags"] : i \in {j \in dirs : Image[argv[j]].tags}}
        = IF Img.tags THEN OneRow("tags") ELSE {}
  BY DEF OneRow, Img
<1> QED
  BY <1>1 DEF Displayed, OwnRows, OneRow, Img

\* Releasing the only list leaves none.
LEMMA NoneLeft ==
  ASSUME RowsInv, pc \in AtWork, mode \in Collecting, NEW next, FreeMemory(next)
  PROVE  \A k \in 1..Len(lists') : ~lists'[k].alive
<1>1. OnlyList(start)
  BY DEF RowsInv, ListInv
<1>2. /\ Len(lists') = Len(lists)
      /\ start # 0 => ~lists'[start].alive
      /\ \A j \in 1..Len(lists) : j # start => lists'[j] = lists[j]
  BY Releasing DEF RowsInv
<1>3. start # 0 /\ \A j \in 1..Len(lists) : j # start => ~lists[j].alive
  BY <1>1 DEF OnlyList
<1> QED
  BY <1>2, <1>3

LEMMA StartRows ==
  ASSUME RowsInv, BeginReport
  PROVE  DirsInv' /\ ListInv' /\ ReportOwnRows'
<1>1. /\ UNCHANGED <<argv, n, mode, dirs, out>>
      /\ pc = "opened" /\ pc' = "header" /\ last = 0 /\ dirs = {}
      /\ mode \in Reporting /\ n > 0
  BY DEF BeginReport, RowsInv, DirsInv, Idle, TypeInv, ControlInv, Ended
<1>2. DirsInv'
  BY <1>1 DEF DirsInv, Idle, Reporting, Collecting
<1>3. ReportOwnRows'
  BY <1>1 DEF RowsInv, ReportOwnRows, OwnRows
<1>4. ASSUME mode \in Collecting PROVE OnlyList(start)' /\ (lists[start].rows)' = OneRow("name")
                                       /\ last' = start'
  <2>1. OneRow("name") \in SUBSET Row
    BY <1>1, AtHand, OneRowType DEF RowsInv
  <2>2. /\ lists' \in Seq(RowList)
        /\ Len(lists') = Len(lists) + 1
        /\ lists'[Len(lists')] = [rows |-> OneRow("name"), alive |-> TRUE]
        /\ \A j \in 1..Len(lists) : lists'[j] = lists[j]
        /\ last' = Len(lists) + 1 /\ start' = Len(lists) + 1
    BY <1>1, <1>4, <2>1, StartsList DEF BeginReport, RowsInv
  <2>3. \A j \in 1..Len(lists) : ~lists[j].alive
    BY <1>1, <1>4 DEF RowsInv, ListInv, Idle
  <2>4. Len(lists) \in Nat
    BY DEF RowsInv, TypeInv, TypeOK
  <2>5. /\ lists'[start'].alive
        /\ lists'[start'].rows = OneRow("name")
        /\ start' \in 1..Len(lists')
    BY <2>2, <2>4
  <2>6. \A j \in 1..Len(lists') : j # start' => j \in 1..Len(lists)
    BY <2>2, <2>4
  <2> QED
    BY <2>2, <2>3, <2>5, <2>6 DEF OnlyList
<1>5. ListInv'
  BY <1>1, <1>4 DEF ListInv, Idle, AtWork, OneRow
<1> QED
  BY <1>2, <1>3, <1>5

LEMMA WalkRows ==
  ASSUME RowsInv, Walk
  PROVE  DirsInv' /\ ListInv' /\ ReportOwnRows'
<1>1. /\ UNCHANGED <<argv, n, mode, lists, last, start, out>>
      /\ pc = "header" /\ pc' = "xmp" /\ dirs = {} /\ dirs' = {n}
      /\ mode \in Reporting /\ n > 0 /\ Img.walk = "done"
  BY DEF Walk, RowsInv, DirsInv, TypeInv, ControlInv, Ended
<1>3. (Img.walk)' = "done"
  BY <1>1 DEF Img
<1>4. DirsInv'
  BY <1>1, <1>3 DEF DirsInv, Idle, Reporting, Collecting
<1>5. ListInv'
  BY <1>1 DEF RowsInv, ListInv, OnlyList, OneRow, Idle, AtWork
<1>6. ReportOwnRows'
  BY <1>1 DEF RowsInv, ReportOwnRows, OwnRows
<1> QED
  BY <1>4, <1>5, <1>6

LEMMA ReleaseRowsKept ==
  ASSUME RowsInv, WalkFails \/ Release
  PROVE  DirsInv' /\ ListInv' /\ ReportOwnRows'
<1>1. /\ UNCHANGED <<argv, n, mode, out>>
      /\ FreeMemory("reset") /\ pc \in AtWork /\ mode \in Reporting
  BY DEF WalkFails, Release, ReleaseAfterError, AtWork, RowsInv, TypeInv, ControlInv
<1>2. last' = 0 /\ dirs' = {} /\ pc' \in {"crash", "reset"}
  BY <1>1, Releasing DEF RowsInv
<1>3. DirsInv'
  BY <1>2 DEF DirsInv
<1>4. ListInv'
  BY <1>1, <1>2, NoneLeft DEF ListInv, Idle, AtWork
<1>5. ReportOwnRows'
  BY <1>1 DEF RowsInv, ReportOwnRows, OwnRows
<1> QED
  BY <1>3, <1>4, <1>5

LEMMA DisplayRows ==
  ASSUME RowsInv, Display
  PROVE  DirsInv' /\ ListInv' /\ ReportOwnRows'
<1>1. /\ UNCHANGED <<argv, n, mode, dirs, out>>
      /\ pc = "xmp" /\ pc' = "report" /\ dirs = {n}
      /\ mode \in Reporting /\ n > 0
  BY DEF Display, RowsInv, DirsInv, TypeInv, ControlInv, Ended
<1>2. DirsInv'
  BY <1>1 DEF DirsInv, Idle, Reporting, Collecting
<1>3. ReportOwnRows'
  BY <1>1 DEF RowsInv, ReportOwnRows, OwnRows
<1>4. ASSUME mode \in Collecting PROVE OnlyList(start)' /\ (lists[start].rows)' = OwnRows(n)
                                       /\ last' = start'
  <2>1. Displayed \in SUBSET Row /\ lists \in Seq(RowList)
    BY <1>1, DisplayedType DEF RowsInv, TypeInv, TypeOK
  <2>2. last = start /\ OnlyList(start) /\ lists[start].rows = OneRow("name")
    BY <1>1, <1>4 DEF RowsInv, ListInv, AtWork
  <2>3. OneRow("name") \cup Displayed = OwnRows(n)
    BY <1>1, DisplayedRows
  <2>4. CASE Displayed = {}
    <3>1. UNCHANGED <<lists, last, start>> /\ OneRow("name") = OwnRows(n)
      BY <2>3, <2>4 DEF Display
    <3> QED
      BY <2>2, <3>1 DEF OnlyList
  <2>5. CASE Displayed # {}
    <3>1. AddRows(Displayed) /\ last # 0
      BY <2>2, <2>5 DEF Display, OnlyList
    <3>2. /\ Len(lists') = Len(lists)
          /\ lists'[last].rows = lists[last].rows \cup Displayed
          /\ lists'[last].alive = lists[last].alive
          /\ \A j \in 1..Len(lists) : j # last => lists'[j] = lists[j]
          /\ last' = last /\ start' = start
      BY <2>1, <3>1, ExtendsList DEF RowsInv
    <3>3. lists'[start'].rows = OwnRows(n)
      BY <2>2, <2>3, <3>2
    <3>4. OnlyList(start)'
      BY <2>2, <3>2 DEF OnlyList
    <3> QED
      BY <2>2, <3>2, <3>3, <3>4
  <2> QED
    BY <2>4, <2>5
<1>5. OwnRows(n)' = OwnRows(n)
  BY <1>1 DEF OwnRows
<1>6. ListInv'
  BY <1>1, <1>4, <1>5 DEF ListInv, Idle, AtWork
<1> QED
  BY <1>2, <1>3, <1>6

LEMMA PrintRows ==
  ASSUME RowsInv, PrintReport
  PROVE  DirsInv' /\ ListInv' /\ ReportOwnRows'
<1>1. /\ UNCHANGED <<argv, n, mode, dirs, lists, last, start>>
      /\ pc = "report" /\ pc' = "free" /\ mode \in Reporting
  BY DEF PrintReport, RowsInv, TypeInv, ControlInv
<1>2. DirsInv'
  BY <1>1 DEF DirsInv, Idle, Reporting, Collecting
<1>3. ListInv'
  BY <1>1 DEF RowsInv, ListInv, OnlyList, Idle, AtWork
<1>4. ASSUME mode \in Collecting, NEW k \in 1..Len(out')
      PROVE  out'[k].rows = OwnRows(out'[k].file)
  <2>1. lists[start].rows = OwnRows(n)
    BY <1>1, <1>4 DEF RowsInv, ListInv
  <2>2. PICK x : out' = Append(out, x) /\ x.file = n /\ x.rows = OwnRows(n)
    BY <1>4, <2>1 DEF PrintReport
  <2>3. out \in Seq(Report) /\ \A j \in 1..Len(out) : out[j].rows = OwnRows(out[j].file)
    BY <1>4 DEF RowsInv, TypeInv, TypeOK, ReportOwnRows
  <2>4. Len(out') = Len(out) + 1 /\ Len(out) \in Nat
    BY <2>2, <2>3
  <2>5. CASE k \in 1..Len(out)
    <3>1. out'[k] = out[k]
      BY <2>2, <2>3, <2>5
    <3> QED
      BY <2>3, <2>5, <3>1
  <2>6. CASE k = Len(out) + 1
    <3>1. \E y : out'[k] = y /\ y.file = n /\ y.rows = OwnRows(n)
      BY <2>2, <2>3, <2>6
    <3> QED
      BY <3>1
  <2> QED
    BY <2>4, <2>5, <2>6
<1>5. ReportOwnRows'
  BY <1>1, <1>4 DEF ReportOwnRows, OwnRows
<1> QED
  BY <1>2, <1>3, <1>5

LEMMA BusyRows ==
  ASSUME RowsInv, Busy
  PROVE  DirsInv' /\ ListInv' /\ ReportOwnRows'
<1>1. CASE RemoveExif \/ WriteThumbnail
  <2>1. /\ UNCHANGED <<mode, last, dirs>> /\ pc \in Idle /\ pc' = "reset"
        /\ mode \in {"remove", "extract"}
    BY <1>1 DEF RemoveExif, WriteThumbnail, Copies, Idle, RowsInv, TypeInv, ControlInv
  <2>2. DirsInv'
    BY <2>1 DEF DirsInv, RowsInv
  <2>3. ListInv' /\ ReportOwnRows'
    BY <2>1 DEF ListInv, ReportOwnRows, Collecting
  <2> QED
    BY <2>2, <2>3
<1> QED
  BY <1>1, StartRows, WalkRows, ReleaseRowsKept, DisplayRows, PrintRows DEF Busy

LEMMA RowsInvariant == Spec => []RowsInv
<1>1. RowsInv /\ [Next]_vars => RowsInv'
  BY NextCases, QuietTypes, BusyTypes, QuietRows, BusyRows DEF RowsInv, Busy
<1> QED
  BY <1>1, InitRows, PTL DEF Spec

\* A collected report has the rows of its own file and of no other.
THEOREM RowsCorrect == Spec => []ReportOwnRows
<1>1. RowsInv => ReportOwnRows
  BY DEF RowsInv
<1> QED
  BY <1>1, RowsInvariant, PTL

\* With a collecting option the rows are released once, after they are printed.
THEOREM ReleaseCorrect == Spec => []RowsReleasedOnce
<1>1. RowsInv => RowsReleasedOnce
  BY DEF RowsInv, ListInv, OnlyList, RowsReleasedOnce, Idle, AtWork
<1> QED
  BY <1>1, RowsInvariant, PTL

-----------------------------------------------------------------------------
(* The orientation, and the records of -js. *)

LEMMA QuietOrientation ==
  ASSUME TypeInv, OrientationInv, Quiet
  PROVE  OrientationInv'
<1>1. /\ UNCHANGED <<argv, label>>
  BY QuietKeeps DEF reporting
<1>2. CASE WalkJpg
  <2>1. /\ orientation' = Img.orientation /\ UNCHANGED n
        /\ pc' = "write"
    BY <1>2 DEF WalkJpg, OrientationInv
  <2> QED
    BY <1>1, <2>1 DEF OrientationInv, OwnOrientation, Img
<1>3. CASE UNCHANGED vars
  BY <1>1, <1>3 DEF vars, OrientationInv, OwnOrientation, Img
<1>4. CASE EndFile
  BY <1>4 DEF EndFile, OrientationReset, AfterFile, OrientationInv, OwnOrientation
<1>5. CASE NextFile
  BY <1>5 DEF NextFile, AfterStat, OrientationInv, OwnOrientation
<1>6. CASE \/ Finish \/ RefuseJpg \/ WrongType \/ OpenFails
           \/ Open \/ NoExif \/ BeginExtract \/ BadHeader \/ BadXmp
  <2>1. /\ UNCHANGED orientation
        /\ \/ pc' \in {"finished", "exit", "crash", "reset"}
           \/ pc \in {"file", "opened"} /\ pc' \in {"opened", "header"}
    BY <1>6
    DEF Finish, RefuseJpg, WrongType, OpenFails, Open, NoExif, BeginExtract,
      BadHeader, BadXmp
  <2> QED
    BY <2>1 DEF OrientationInv, OwnOrientation
<1>7. CASE NotCopied \/ Stopping
  <2>1. pc' \in {"reset", "exit", "crash"}
    BY <1>7, NotCopiedSteps, StoppingSteps
  <2> QED
    BY <2>1 DEF OrientationInv, OwnOrientation
<1> QED
  BY <1>2, <1>3, <1>4, <1>5, <1>6, <1>7 DEF Quiet

LEMMA BusyOrientation ==
  ASSUME TypeInv, OrientationInv, Busy
  PROVE  OrientationInv'
<1>1. CASE RemoveExif \/ WriteThumbnail
  BY <1>1 DEF RemoveExif, WriteThumbnail, OrientationInv, OwnOrientation
<1>2. CASE BeginReport \/ Walk
  <2>1. /\ UNCHANGED orientation /\ pc \in {"opened", "header"}
        /\ pc' \in {"header", "xmp"}
    BY <1>2 DEF BeginReport, Walk
  <2> QED
    BY <2>1 DEF OrientationInv, OwnOrientation
<1>3. CASE WalkFails \/ Release
  <2>1. pc' \in {"crash", "reset"}
    BY <1>3, Releasing DEF WalkFails, Release, ReleaseAfterError
  <2> QED
    BY <2>1 DEF OrientationInv, OwnOrientation
<1>4. CASE Display
  <2>1. /\ orientation' = Img.orientation /\ label' = Img.orientation
        /\ pc' = "report" /\ UNCHANGED <<argv, n>>
    BY <1>4 DEF Display, OrientationInv
  <2> QED
    BY <2>1 DEF OrientationInv, OwnOrientation, Img
<1>5. CASE PrintReport
  BY <1>5 DEF PrintReport, OrientationInv, OwnOrientation, Img
<1> QED
  BY <1>1, <1>2, <1>3, <1>4, <1>5 DEF Busy

\* An image is turned, and its orientation reported, by its own tag only.
THEOREM OrientationCorrect == Spec => []OwnOrientation
<1>1. Init => OrientationInv
  BY DEF Init, OrientationInv, OwnOrientation
<1>2. TypeInv /\ OrientationInv /\ [Next]_vars => OrientationInv'
  BY NextCases, QuietOrientation, BusyOrientation
<1>3. OrientationInv => OwnOrientation
  BY DEF OrientationInv
<1>4. Spec => []TypeInv
  <2>1. TypeInv /\ [Next]_vars => TypeInv'
    BY NextCases, QuietTypes, BusyTypes DEF Busy
  <2> QED
    BY <2>1, InitTypes, PTL DEF Spec
<1> QED
  BY <1>1, <1>2, <1>3, <1>4, PTL DEF Spec

\* The records of -js are numbered from 0 without a gap, the header line comes
\* before the first only, and the count is the index of the last.
THEOREM NumberingCorrect == Spec => []JsNumbered
<1> DEFINE Inv == TypeInv /\ JsInv /\ JsNumbered
<1>1. Init => Inv
  <2> SUFFICES ASSUME Init PROVE Inv
    OBVIOUS
  <2>1. out = <<>> /\ jsIndex = 0 /\ jsFirst = TRUE /\ pc = "next" /\ Len(<<>>) = 0
    BY EmptySeq DEF Init
  <2> QED
    <3>1. jsIndex = Len(out) /\ (Len(out) = 0) = TRUE
      BY <2>1
    <3>2. JsInv
      BY <2>1, <3>1, Zenon DEF JsInv
    <3>3. JsNumbered
      BY <2>1 DEF JsNumbered
    <3> QED
      BY <3>2, <3>3, InitTypes
<1>2. Inv /\ [Next]_vars => Inv'
  <2> SUFFICES ASSUME Inv, [Next]_vars, mode' = "js"
               PROVE  JsInv' /\ JsNumbered'
    BY NextCases, QuietTypes, BusyTypes DEF JsInv, JsNumbered, Busy
  <2>1. CASE Finish
    BY <2>1 DEF Finish, reporting, LastIndex, JsInv, JsNumbered
  <2>2. CASE PrintReport
    <3>1. PICK x : /\ out' = Append(out, x) /\ x.index = jsIndex /\ x.header = jsFirst
                   /\ mode = "js"
      <4> DEFINE r == [file |-> n,
                       rows |-> IF mode \in Collecting THEN lists[start].rows ELSE {},
                       index |-> IF mode = "js" THEN jsIndex ELSE 0,
                       header |-> mode = "js" /\ jsFirst]
      <4>1. mode = "js" /\ out' = Append(out, r)
        BY <2>2 DEF PrintReport
      <4>2. jsFirst \in BOOLEAN
        BY DEF TypeInv, TypeOK
      <4>3. r.index = jsIndex /\ r.header = jsFirst
        BY <4>1, <4>2, Zenon
      <4> HIDE DEF r
      <4> QED
        BY <4>1, <4>3
    <3>2. jsIndex' = jsIndex + 1 /\ jsFirst' = FALSE /\ pc' = "free"
      BY <2>2 DEF PrintReport
    <3>3. /\ out \in Seq(Report) /\ jsIndex = Len(out) /\ Len(out) \in Nat
          /\ jsFirst = (Len(out) = 0)
          /\ \A k \in 1..Len(out) : out[k].index = k - 1 /\ out[k].header = (k = 1)
      BY <3>1 DEF TypeInv, TypeOK, JsInv, JsNumbered
    <3>4. /\ Len(out') = Len(out) + 1
          /\ \A k \in 1..Len(out) : out'[k] = out[k]
          /\ out'[Len(out) + 1] = x
      BY <3>1, <3>3
    <3>5. \A k \in 1..Len(out) : out'[k].index = k - 1 /\ out'[k].header = (k = 1)
      BY <3>3, <3>4
    <3>6. x.index = (Len(out) + 1) - 1
      BY <3>1, <3>3
    <3>7. Len(out) = 0 <=> Len(out) + 1 = 1
      BY <3>3
    <3>8. x.header = (Len(out) + 1 = 1)
      BY <3>1, <3>3, <3>7, Zenon
    <3>9. \A k \in 1..Len(out') : k \in 1..Len(out) \/ k = Len(out) + 1
      BY <3>3, <3>4
    <3>10. \A k \in 1..Len(out') : out'[k].index = k - 1 /\ out'[k].header = (k = 1)
      BY <3>4, <3>5, <3>6, <3>8, <3>9, Zenon
    <3>11. jsFirst' = (Len(out') = 0)
      <4>1. Len(out') # 0
        BY <3>3, <3>4
      <4> QED
        BY <3>2, <4>1, Zenon
    <3>12. jsIndex' = Len(out')
      BY <3>2, <3>3, <3>4
    <3> QED
      BY <3>2, <3>10, <3>11, <3>12 DEF JsInv, JsNumbered
  <2>3. CASE UNCHANGED vars
    BY <2>3 DEF vars, reporting, JsInv, JsNumbered
  <2>4. CASE Next /\ ~Finish /\ ~PrintReport /\ ~UNCHANGED vars
    <3>1. UNCHANGED <<mode, out, jsIndex, jsFirst>> /\ pc' # "finished"
      <4>1. CASE Quiet
        <5>1. UNCHANGED <<mode, reporting>>
          BY <4>1, QuietKeeps
        <5>2. pc' # "finished"
          BY <2>4, <4>1, NotCopiedSteps, StoppingSteps
          DEF Quiet, NextFile, EndFile, RefuseJpg, WrongType, OpenFails, Open, NoExif,
            BeginExtract, BadHeader, BadXmp, WalkJpg, AfterStat, AfterFile
        <5> QED
          BY <5>1, <5>2 DEF reporting
      <4>2. CASE WalkFails \/ Release
        <5>1. pc' \in {"crash", "reset"}
          BY <4>2, Releasing DEF WalkFails, Release, ReleaseAfterError
        <5> QED
          BY <4>2, <5>1 DEF WalkFails, Release
      <4>3. CASE Walk
        BY <4>3 DEF Walk
      <4>4. CASE RemoveExif \/ BeginReport \/ Display \/ WriteThumbnail
        BY <4>4 DEF RemoveExif, BeginReport, Display, WriteThumbnail, Copies, TypeInv, ControlInv
      <4> QED
        BY <2>4, NextCases, <4>1, <4>2, <4>3, <4>4 DEF Busy
    <3> QED
      BY <3>1 DEF JsInv, JsNumbered
  <2> QED
    BY <2>1, <2>2, <2>3, <2>4
<1>3. Inv => JsNumbered
  OBVIOUS
<1> QED
  BY <1>1, <1>2, <1>3, PTL DEF Spec

-----------------------------------------------------------------------------
(* Every file that can be reported on is. *)

\* How many descriptors the first k files leave open, as far as there are any, and
\* which files are to be reported on.
Held(k) == IF LeftBy(k) < MaxOpen THEN LeftBy(k) ELSE MaxOpen
Due(i) ==
  /\ Reportable(i)
  /\ i \notin refused \cup unwritten
  /\ LeftBy(i - 1) + Beside < MaxOpen

\* The file n is done with; the file n is open.
Behind == {"next", "reset", "finished"}
AtFile == {"opened", "header", "xmp", "report", "write"}

\* The descriptors that are open are those left by the earlier files, and that of the
\* file at hand.
OpenInv ==
  /\ pc \in Behind => opened = Held(n)
  /\ pc = "file" => opened = Held(n - 1)
  /\ pc \in AtFile => LeftBy(n - 1) < MaxOpen /\ opened = LeftBy(n - 1) + 1
  /\ pc = "free" => LeftBy(n - 1) < MaxOpen /\ opened = LeftBy(n - 1)

\* What the file at hand has gone through already.
PathInv ==
  /\ pc \in AtFile \cup {"file", "free"} => n \notin refused \cup unwritten
  /\ pc = "file" => Img.found
  /\ pc \in AtFile \cup {"free"} => Img.found /\ Img.readable /\ RightType
  /\ pc = "header" => mode # "remove"
  /\ pc \in {"header", "xmp", "report", "free"} /\ mode \in Reporting /\ Img.ext = "JPG" => Img.exif
  /\ pc \in {"xmp", "report", "free"} => Img.header = "ok" /\ Img.walk = "done"
  /\ pc = "write" => Img.header = "ok" /\ Img.walk \in {"done", "empty"}

\* Without a collecting option the list of an earlier file is released again unless
\* the tags of this one have started another.
PlainInv ==
  mode = "plain" =>
    /\ pc \in {"header", "xmp"} => last = 0
    /\ pc \in {"report", "free"} /\ Img.tags => start # 0 /\ lists[start].alive

OutInv ==
  /\ \A k \in 1..Len(out) :
       out[k].file <= IF pc \in Behind \cup {"free", "exit", "crash"} THEN n ELSE n - 1
  /\ \A j, k \in 1..Len(out) : j < k => out[j].file < out[k].file
  /\ \A i \in 1..(IF pc \in Behind THEN n ELSE n - 1) : i \in Reported <=> Due(i)
  /\ pc = "free" => n \in Reported

EndInv ==
  /\ pc = "finished" => n = Len(argv)
  /\ pc \in {"exit", "crash"} => n > 0 /\ EndsProgram

CountInv == RowsInv /\ OpenInv /\ PathInv /\ PlainInv /\ OutInv /\ EndInv

LEMMA Countable ==
  ASSUME NEW k \in Nat, NEW S
  PROVE  /\ IsFiniteSet({j \in 1..k : j \in S})
         /\ Cardinality({j \in 1..k : j \in S}) \in Nat
<1>1. IsFiniteSet(1..k)
  BY FS_Interval
<1>2. IsFiniteSet({j \in 1..k : j \in S})
  BY <1>1, FS_Subset
<1> QED
  BY <1>2, FS_CardinalityType

\* One more number.
LEMMA OneMore ==
  ASSUME NEW k \in Nat \ {0}, NEW S
  PROVE  Cardinality({j \in 1..k : j \in S})
           = Cardinality({j \in 1..(k - 1) : j \in S}) + (IF k \in S THEN 1 ELSE 0)
<1> DEFINE R == {j \in 1..(k - 1) : j \in S}
<1>1. IsFiniteSet(R) /\ Cardinality(R) \in Nat /\ k \notin R
  BY Countable
<1>2. CASE k \in S
  <2>1. {j \in 1..k : j \in S} = R \cup {k}
    BY <1>2
  <2>2. Cardinality(R \cup {k}) = Cardinality(R) + 1
    BY <1>1, FS_AddElement
  <2> QED
    BY <1>2, <2>1, <2>2
<1>3. CASE k \notin S
  <2>1. {j \in 1..k : j \in S} = R
    BY <1>3
  <2> QED
    BY <1>1, <1>3, <2>1
<1> QED
  BY <1>2, <1>3

Leaving == {j \in Nat : LeavesOpen(j)}

LEMMA LeftByLeaving ==
  ASSUME NEW k \in Nat
  PROVE  LeftBy(k) = Cardinality({j \in 1..k : j \in Leaving})
                       + Cardinality({j \in 1..k : j \in unwritten})
<1>1. {j \in 1..k : LeavesOpen(j)} = {j \in 1..k : j \in Leaving}
  BY DEF Leaving
<1> QED
  BY <1>1 DEF LeftBy

LEMMA LeftByType ==
  ASSUME NEW k \in Nat
  PROVE  LeftBy(k) \in Nat
<1>1. Cardinality({j \in 1..k : j \in Leaving}) \in Nat
  BY Countable, Zenon
<1>2. Cardinality({j \in 1..k : j \in unwritten}) \in Nat
  BY Countable, Zenon
<1> QED
  BY <1>1, <1>2, LeftByLeaving

\* One more file.
LEMMA LeftByStep ==
  ASSUME NEW k \in Nat \ {0}
  PROVE  LeftBy(k) = LeftBy(k - 1) + (IF LeavesOpen(k) THEN 1 ELSE 0)
                                   + (IF k \in unwritten THEN 1 ELSE 0)
<1> DEFINE l(j) == Cardinality({i \in 1..j : i \in Leaving})
           u(j) == Cardinality({i \in 1..j : i \in unwritten})
<1>1. /\ LeftBy(k) = l(k) + u(k) /\ LeftBy(k - 1) = l(k - 1) + u(k - 1)
      /\ l(k - 1) \in Nat /\ u(k - 1) \in Nat
  <2>1. k \in Nat /\ k - 1 \in Nat
    OBVIOUS
  <2>2. LeftBy(k) = l(k) + u(k)
    BY <2>1, LeftByLeaving, Zenon
  <2>3. LeftBy(k - 1) = l(k - 1) + u(k - 1)
    BY <2>1, LeftByLeaving, Zenon
  <2>4. l(k - 1) \in Nat
    BY <2>1, Countable, Zenon
  <2>5. u(k - 1) \in Nat
    BY <2>1, Countable, Zenon
  <2> QED
    BY <2>2, <2>3, <2>4, <2>5
<1>2. l(k) = l(k - 1) + (IF LeavesOpen(k) THEN 1 ELSE 0)
  BY OneMore DEF Leaving
<1>3. u(k) = u(k - 1) + (IF k \in unwritten THEN 1 ELSE 0)
  BY OneMore
<1> HIDE DEF l, u
<1> QED
  BY <1>1, <1>2, <1>3

LEMMA NothingLeft == LeftBy(0) = 0
<1>1. {j \in 1..0 : LeavesOpen(j)} = {} /\ {j \in 1..0 : j \in unwritten} = {}
  OBVIOUS
<1> QED
  BY <1>1, FS_EmptySet DEF LeftBy

\* Which files leave their descriptor open, and which can be reported on, does not change.
LEMMA SameLeavers ==
  ASSUME UNCHANGED <<argv, mode>>
  PROVE  /\ \A j : LeavesOpen(j)' = LeavesOpen(j) /\ Reportable(j)' = Reportable(j)
         /\ Beside' = Beside
  BY DEF LeavesOpen, Reportable, Beside

\* One more file, after a step.
LEMMA LeftByNext ==
  ASSUME UNCHANGED <<argv, mode>>, NEW k \in Nat \ {0}
  PROVE  LeftBy(k)' = LeftBy(k - 1)' + (IF LeavesOpen(k) THEN 1 ELSE 0)
                                     + (IF k \in unwritten' THEN 1 ELSE 0)
<1> DEFINE l(j) == Cardinality({i \in 1..j : i \in Leaving})
           u(j) == Cardinality({i \in 1..j : i \in unwritten'})
<1>1. \A j \in Nat : LeftBy(j)' = l(j) + u(j)
  <2> TAKE j \in Nat
  <2>1. {i \in 1..j : LeavesOpen(i)'} = {i \in 1..j : i \in Leaving}
    BY SameLeavers DEF Leaving
  <2> QED
    BY <2>1 DEF LeftBy
<1>2. l(k) = l(k - 1) + (IF LeavesOpen(k) THEN 1 ELSE 0)
  BY OneMore DEF Leaving
<1>3. u(k) = u(k - 1) + (IF k \in unwritten' THEN 1 ELSE 0)
  BY OneMore
<1>4. l(k - 1) \in Nat /\ u(k - 1) \in Nat
  <2>1. k - 1 \in Nat
    OBVIOUS
  <2>2. l(k - 1) \in Nat
    BY <2>1, Countable, Zenon
  <2>3. u(k - 1) \in Nat
    BY <2>1, Countable, Zenon
  <2> QED
    BY <2>2, <2>3
<1> HIDE DEF l, u
<1> QED
  BY <1>1, <1>2, <1>3, <1>4

\* What the file system did to the file at hand changes nothing for those before it.
LEMMA SameBefore ==
  ASSUME UNCHANGED <<argv, mode>>, n \in Nat \ {0}, Failing
  PROVE  /\ \A k \in 0..(n - 1) : LeftBy(k)' = LeftBy(k)
         /\ \A i \in 1..(n - 1) : Due(i)' = Due(i)
<1>1. \A k \in 0..(n - 1) : LeftBy(k)' = LeftBy(k)
  <2> TAKE k \in 0..(n - 1)
  <2>1. \A j \in 1..k : j # n
    OBVIOUS
  <2>2. {j \in 1..k : j \in unwritten'} = {j \in 1..k : j \in unwritten}
    BY <2>1 DEF Failing
  <2>3. {j \in 1..k : LeavesOpen(j)'} = {j \in 1..k : LeavesOpen(j)}
    BY SameLeavers
  <2> QED
    BY <2>2, <2>3 DEF LeftBy
<1>2. ASSUME NEW i \in 1..(n - 1) PROVE Due(i)' = Due(i)
  <2>1. LeftBy(i - 1)' = LeftBy(i - 1)
    BY <1>1
  <2>2. i # n /\ (i \in refused' \cup unwritten' <=> i \in refused \cup unwritten)
    BY DEF Failing
  <2>3. Due(i)' <=> Due(i)
    BY <2>1, <2>2, SameLeavers DEF Due
  <2>4. Due(i)' \in BOOLEAN /\ Due(i) \in BOOLEAN
    BY DEF Due
  <2> QED
    BY <2>3, <2>4
<1> QED
  BY <1>1, <1>2

LEMMA SameFiles ==
  ASSUME UNCHANGED <<argv, mode, failures>>
  PROVE  \A k : LeftBy(k)' = LeftBy(k) /\ Held(k)' = Held(k) /\ Due(k)' = Due(k)
<1>1. \A k : LeftBy(k)' = LeftBy(k)
  BY SameLeavers DEF LeftBy, failures
<1> QED
  BY <1>1, SameLeavers DEF Held, Due, failures

LEMMA InitCount == Init => CountInv
<1> SUFFICES ASSUME Init PROVE CountInv
  OBVIOUS
<1>1. n = 0 /\ pc = "next" /\ opened = 0 /\ out = <<>> /\ Len(<<>>) = 0
  BY EmptySeq DEF Init
<1>2. Held(0) = 0
  BY NothingLeft, BoundAssumption DEF Held
<1>3. OpenInv /\ PathInv /\ EndInv
  BY <1>1, <1>2 DEF OpenInv, PathInv, EndInv, Behind, AtFile
<1>4. PlainInv /\ OutInv
  BY <1>1 DEF PlainInv, OutInv, Behind
<1> QED
  BY <1>3, <1>4, InitRows DEF CountInv

\* What is known of the file at hand.
LEMMA FileAtHand ==
  ASSUME CountInv, n > 0
  PROVE  /\ n \in Nat \ {0} /\ n \in 1..Len(argv) /\ Img \in ImageKind
         /\ LeftBy(n) \in Nat /\ LeftBy(n - 1) \in Nat
         /\ LeftBy(n) = LeftBy(n - 1) + (IF LeavesOpen(n) THEN 1 ELSE 0)
                                      + (IF n \in unwritten THEN 1 ELSE 0)
         /\ MaxOpen \in Nat \ {0} /\ opened \in 0..MaxOpen /\ mode \in AllModes
<1>1. n \in 1..Len(argv) /\ Img \in ImageKind /\ n \in Nat \ {0}
  BY AtHand DEF CountInv, RowsInv
<1>2. MaxOpen \in Nat \ {0} /\ opened \in 0..MaxOpen /\ mode \in AllModes
  BY BoundAssumption, ModesAssumption DEF CountInv, RowsInv, TypeInv, TypeOK
<1> QED
  BY <1>1, <1>2, LeftByType, LeftByStep

\* The file at hand is done with, without a report.
LEMMA PassedOver ==
  ASSUME CountInv, n > 0, UNCHANGED <<argv, mode, n, out>>, Failing,
         pc \in {"file", "opened", "header"}, pc' = "reset", ~Due(n)', opened' = Held(n)'
  PROVE  OpenInv' /\ PathInv' /\ PlainInv' /\ OutInv' /\ EndInv'
<1>1. OpenInv' /\ PathInv' /\ PlainInv' /\ EndInv'
  BY DEF OpenInv, PathInv, PlainInv, EndInv, Behind, AtFile
<1>2. n \in Nat \ {0}
  BY FileAtHand
<1>3. /\ \A k \in 1..Len(out) : out[k].file <= n - 1
      /\ \A j, k \in 1..Len(out) : j < k => out[j].file < out[k].file
      /\ \A i \in 1..(n - 1) : i \in Reported <=> Due(i)
  BY DEF CountInv, OutInv, Behind
<1>4. out \in Seq(Report) /\ \A k \in 1..Len(out) : out[k] \in Report
  BY DEF CountInv, RowsInv, TypeInv, TypeOK
<1>5. \A k \in 1..Len(out) : out[k].file \in Int /\ out[k].file # n /\ out[k].file <= n
  <2>1. \A k \in 1..Len(out) : out[k].file \in Int
    BY <1>4, BoundAssumption DEF Report
  <2> QED
    BY <1>2, <1>3, <2>1
<1>6. n \notin Reported
  BY <1>5 DEF Reported
<1>7. \A i \in 1..n : i \in Reported <=> Due(i)'
  <2>1. \A i \in 1..n : i \in 1..(n - 1) \/ i = n
    BY <1>2
  <2>2. \A i \in 1..(n - 1) : Due(i)' = Due(i)
    BY <1>2, SameBefore
  <2> QED
    BY <1>3, <1>6, <2>1, <2>2
<1>8. Reported' = Reported
  BY DEF Reported
<1>9. OutInv'
  BY <1>3, <1>5, <1>7, <1>8 DEF OutInv, Behind
<1> QED
  BY <1>1, <1>9

\* A report on the file at hand is added.
LEMMA ReportAdded ==
  ASSUME CountInv, n > 0, UNCHANGED <<argv, mode, n, failures>>,
         pc \in {"opened", "report", "write"}, pc' \in {"reset", "free"}, Due(n),
         NEW x, x.file = n, out' = Append(out, x)
  PROVE  OutInv'
<1>1. n \in Nat \ {0}
  BY FileAtHand
<1>2. /\ \A k \in 1..Len(out) : out[k].file <= n - 1
      /\ \A j, k \in 1..Len(out) : j < k => out[j].file < out[k].file
      /\ \A i \in 1..(n - 1) : i \in Reported <=> Due(i)
  BY DEF CountInv, OutInv, Behind
<1>3. PICK m \in Nat : m = Len(out)
  BY DEF CountInv, RowsInv, TypeInv, TypeOK
<1>4. /\ Len(out') = m + 1
      /\ \A k \in 1..m : out'[k] = out[k]
      /\ out'[m + 1] = x
  <2>1. out \in Seq(Report)
    BY DEF CountInv, RowsInv, TypeInv, TypeOK
  <2> QED
    BY <1>3, <2>1
<1>5. \A k \in 1..m : out[k].file \in Int
  <2>1. \A k \in 1..m : out[k] \in Report
    BY <1>3 DEF CountInv, RowsInv, TypeInv, TypeOK
  <2> QED
    BY <2>1, BoundAssumption DEF Report
<1>6. \A k \in 1..(m + 1) : out'[k].file <= n
  <2> TAKE k \in 1..(m + 1)
  <2>1. CASE k \in 1..m
    <3>1. out'[k].file = out[k].file /\ out[k].file <= n - 1 /\ out[k].file \in Int
      BY <2>1, <1>2, <1>3, <1>4, <1>5
    <3> QED
      BY <3>1, <1>1
  <2>2. CASE k = m + 1
    BY <2>2, <1>1, <1>4
  <2> QED
    BY <2>1, <2>2, <1>3
<1>7. \A j, k \in 1..(m + 1) : j < k => out'[j].file < out'[k].file
  <2> TAKE j, k \in 1..(m + 1)
  <2> HAVE j < k
  <2>1. j \in 1..m /\ out'[j].file = out[j].file
    BY <1>3, <1>4
  <2>2. CASE k \in 1..m
    <3>1. out'[k].file = out[k].file
      BY <2>2, <1>4
    <3> QED
      BY <2>1, <2>2, <3>1, <1>2, <1>3
  <2>3. CASE k = m + 1
    <3>1. out'[k].file = n /\ out[j].file <= n - 1 /\ out[j].file \in Int
      BY <2>1, <2>3, <1>2, <1>3, <1>4, <1>5
    <3> QED
      BY <2>1, <3>1, <1>1
  <2> QED
    BY <2>2, <2>3, <1>3
<1>8. Reported' = Reported \cup {n}
  <2>1. Reported' = {out'[k].file : k \in 1..(m + 1)} /\ Reported = {out[k].file : k \in 1..m}
    BY <1>3, <1>4 DEF Reported
  <2>2. 1..(m + 1) = 1..m \cup {m + 1}
    BY <1>3
  <2>3. \A k \in 1..m : out'[k].file = out[k].file
    BY <1>4
  <2>4. out'[m + 1].file = n
    BY <1>4
  <2>5. ASSUME NEW f \in Reported' PROVE f \in Reported \cup {n}
    BY <2>1, <2>2, <2>3, <2>4
  <2>6. ASSUME NEW f \in Reported PROVE f \in Reported'
    <3>1. PICK k \in 1..m : f = out[k].file
      BY <2>1
    <3>2. k \in 1..(m + 1) /\ f = out'[k].file
      BY <2>2, <2>3, <3>1
    <3> QED
      BY <2>1, <3>2
  <2>7. n \in Reported'
    BY <1>3, <2>1, <2>4
  <2> QED
    BY <2>5, <2>6, <2>7
<1>9. \A i \in 1..n : i \in Reported' <=> Due(i)
  <2>1. \A i \in 1..n : i \in 1..(n - 1) \/ i = n
    BY <1>1
  <2>2. \A i \in 1..(n - 1) : i # n
    BY <1>1
  <2> QED
    BY <1>2, <1>8, <2>1, <2>2
<1>10. \A i \in 1..(n - 1) : i \in 1..n
  BY <1>1
<1> QED
  BY <1>4, <1>6, <1>7, <1>8, <1>9, <1>10, SameFiles DEF OutInv, Behind

\* The program ends with the file at hand.
LEMMA EndsWithFile ==
  ASSUME CountInv, n > 0, UNCHANGED <<argv, mode, n, out>>, Failing,
         pc \notin Behind, pc' \in {"exit", "crash"}, EndsProgram'
  PROVE  OpenInv' /\ PathInv' /\ PlainInv' /\ OutInv' /\ EndInv'
<1>1. OpenInv' /\ PathInv' /\ PlainInv'
  BY DEF OpenInv, PathInv, PlainInv, Behind, AtFile
<1>2. n \in Nat \ {0}
  BY FileAtHand
<1>3. EndInv'
  BY DEF EndInv
<1>4. \A k \in 1..Len(out) : out[k].file \in Int
  <2>1. \A k \in 1..Len(out) : out[k] \in Report
    BY DEF CountInv, RowsInv, TypeInv, TypeOK
  <2> QED
    BY <2>1, BoundAssumption DEF Report
<1>5. \A k \in 1..Len(out) : out[k].file <= n
  <2> TAKE k \in 1..Len(out)
  <2>1. out[k].file <= n \/ out[k].file <= n - 1
    BY DEF CountInv, OutInv, Behind
  <2> QED
    BY <1>2, <1>4, <2>1
<1>6. Reported' = Reported
  BY DEF Reported
<1>7. OutInv'
  BY <1>2, <1>5, <1>6, SameBefore DEF CountInv, OutInv, Behind
<1> QED
  BY <1>1, <1>3, <1>7

\* The file at hand stays, and nothing is reported.
LEMMA GoesOnWithFile ==
  ASSUME CountInv, UNCHANGED <<argv, mode, n, out, failures>>,
         pc \in AtFile \cup {"file"}, pc' \in AtFile
  PROVE  OutInv' /\ EndInv'
<1>1. Reported' = Reported
  BY DEF Reported
<1> QED
  BY <1>1, SameFiles DEF CountInv, OutInv, EndInv, Behind, AtFile

\* What is open when the file at hand is done with.
LEMMA HeldAfter ==
  ASSUME CountInv, n > 0
  PROVE  /\ pc \in AtFile /\ LeavesOpen(n) => opened = Held(n)
         /\ pc \in AtFile /\ ~LeavesOpen(n) => opened - 1 = Held(n)
         /\ pc \in {"file", "free"} /\ ~LeavesOpen(n) => opened = Held(n)
<1>1. PICK k \in Nat : k = LeftBy(n - 1)
  BY FileAtHand
<1>2. pc \in AtFile \cup {"file", "free"} => LeftBy(n) = IF LeavesOpen(n) THEN k + 1 ELSE k
  <2>1. pc \in AtFile \cup {"file", "free"} => n \notin unwritten
    BY DEF CountInv, PathInv
  <2> QED
    BY <1>1, <2>1, FileAtHand
<1>3. MaxOpen \in Nat \ {0}
  BY BoundAssumption
<1>4. pc \in AtFile => k < MaxOpen /\ opened = k + 1
  BY <1>1 DEF CountInv, OpenInv
<1>5. pc = "free" => k < MaxOpen /\ opened = k
  BY <1>1 DEF CountInv, OpenInv
<1>6. pc = "file" => opened = IF k < MaxOpen THEN k ELSE MaxOpen
  BY <1>1 DEF CountInv, OpenInv, Held
<1>7. Held(n) = IF LeftBy(n) < MaxOpen THEN LeftBy(n) ELSE MaxOpen
  BY DEF Held
<1> QED
  BY <1>2, <1>3, <1>4, <1>5, <1>6, <1>7

CountStep == OpenInv' /\ PathInv' /\ PlainInv' /\ OutInv' /\ EndInv'

LEMMA NextFileCount ==
  ASSUME CountInv, NextFile
  PROVE  CountStep
<1>1. /\ UNCHANGED <<argv, mode, opened, lists, last, start, out, failures>>
      /\ pc = "next" /\ n \in Nat /\ n' = n + 1 /\ n < Len(argv)
      /\ pc' = IF Image[argv[n + 1]].found THEN "file" ELSE "next"
  BY DEF NextFile, AfterStat, outside, reporting, CountInv, RowsInv, TypeInv, TypeOK
<1>2. opened = Held(n) /\ n' - 1 = n /\ n' # 0
  BY <1>1 DEF CountInv, OpenInv, Behind
<1>3. Reported' = Reported
  BY <1>1 DEF Reported
<1>4. /\ \A k \in 1..Len(out) : out[k].file <= n
      /\ \A j, k \in 1..Len(out) : j < k => out[j].file < out[k].file
      /\ \A i \in 1..n : i \in Reported <=> Due(i)
  BY <1>1 DEF CountInv, OutInv, Behind
<1>5. \A k : Held(k)' = Held(k) /\ Due(k)' = Due(k)
  BY <1>1, SameFiles
<1>8. n + 1 \notin refused \cup unwritten
  BY <1>1 DEF CountInv, RowsInv, TypeInv, TypeOK
<1>6. CASE Image[argv[n + 1]].found
  <2>1. pc' = "file" /\ Held(n - 1)' = Held(n) /\ (Img.found)'
    BY <1>1, <1>2, <1>5, <1>6 DEF Img
  <2>2. OpenInv' /\ PathInv' /\ PlainInv' /\ EndInv'
    BY <1>1, <1>2, <1>8, <2>1
    DEF OpenInv, PathInv, PlainInv, EndInv, Behind, AtFile, failures
  <2>3. OutInv'
    BY <1>1, <1>2, <1>3, <1>4, <1>5, <2>1 DEF OutInv, Behind
  <2> QED
    BY <2>2, <2>3 DEF CountStep
<1>7. CASE ~Image[argv[n + 1]].found
  <2>1. pc' = "next" /\ ~LeavesOpen(n + 1) /\ ~Due(n + 1)
    BY <1>1, <1>7 DEF LeavesOpen, Due, Reportable
  <2>2. LeftBy(n + 1) = LeftBy(n)
    <3>1. n + 1 \in Nat \ {0} /\ (n + 1) - 1 = n
      BY <1>1
    <3>2. LeftBy(n + 1) = LeftBy(n) + 0 + 0
      BY <1>8, <2>1, <3>1, LeftByStep
    <3>3. LeftBy(n) \in Nat
      BY <1>1, LeftByType
    <3> QED
      BY <3>2, <3>3
  <2>3. Held(n)' = Held(n)
    BY <1>1, <1>5, <2>2 DEF Held
  <2>4. OpenInv' /\ PathInv' /\ PlainInv' /\ EndInv'
    BY <1>1, <1>2, <2>1, <2>3 DEF OpenInv, PathInv, PlainInv, EndInv, Behind, AtFile
  <2>5. out \in Seq(Report) /\ \A k \in 1..Len(out) : out[k] \in Report
    BY DEF CountInv, RowsInv, TypeInv, TypeOK
  <2>6. \A k \in 1..Len(out) : out[k].file \in Int /\ out[k].file <= n'
    <3>1. \A k \in 1..Len(out) : out[k].file \in Int
      BY <2>5, BoundAssumption DEF Report
    <3> QED
      BY <1>1, <1>4, <3>1
  <2>7. n + 1 \notin Reported
    <3>1. \A k \in 1..Len(out) : out[k].file # n + 1
      BY <1>1, <1>4, <2>6
    <3> QED
      BY <3>1 DEF Reported
  <2>8. \A i \in 1..(n + 1) : i \in 1..n \/ i = n + 1
    BY <1>1
  <2>9. \A i \in 1..(n + 1) : i \in Reported <=> Due(i)
    BY <1>4, <2>1, <2>7, <2>8
  <2>10. OutInv'
    BY <1>1, <1>3, <1>4, <1>5, <2>1, <2>6, <2>9 DEF OutInv, Behind
  <2> QED
    BY <2>4, <2>10 DEF CountStep
<1> QED
  BY <1>6, <1>7

\* The actions after which the file at hand is done with, or the program ends.
LEMMA DoneCount ==
  ASSUME CountInv, Finish \/ EndFile \/ RefuseJpg \/ WrongType \/ OpenFails \/ NoExif
                   \/ BadHeader \/ BadXmp \/ UNCHANGED vars
  PROVE  CountStep
<1>1. UNCHANGED <<argv, mode, n, out, opened, lists, last, start, texts, failures>> /\ Failing
  BY DEF Finish, EndFile, RefuseJpg, WrongType, OpenFails, NoExif, BadHeader, BadXmp, vars,
    outside, failures, reporting, Failing
<1>2. CASE UNCHANGED vars
  <2>1. UNCHANGED pc /\ Reported' = Reported
    BY <1>1, <1>2 DEF vars, Reported
  <2> QED
    BY <1>1, <2>1, SameFiles
    DEF CountInv, CountStep, OpenInv, PathInv, PlainInv, OutInv, EndInv, Img,
      RightType, failures, EndsProgram, Compared, Known, Nameless
<1>3. CASE Finish \/ EndFile
  <2>1. /\ pc \in Behind /\ pc' \in Behind
        /\ pc' = "finished" => n = Len(argv)
    BY <1>3 DEF Finish, EndFile, AfterFile, Behind
  <2>2. Reported' = Reported
    BY <1>1 DEF Reported
  <2>3. OpenInv' /\ PathInv' /\ PlainInv' /\ EndInv'
    BY <1>1, <2>1, SameFiles
    DEF CountInv, OpenInv, PathInv, PlainInv, EndInv, Behind, AtFile
  <2>4. OutInv'
    BY <1>1, <2>1, <2>2, SameFiles DEF CountInv, OutInv, Behind
  <2> QED
    BY <2>3, <2>4 DEF CountStep
<1>4. CASE RefuseJpg \/ BadHeader \/ BadXmp
  <2>1. n > 0 /\ pc \notin Behind /\ pc' \in {"exit", "crash"}
    BY <1>4 DEF RefuseJpg, BadHeader, BadXmp, Behind, CountInv, RowsInv, TypeInv, ControlInv,
      Ended
  <2>2. EndsProgram'
    BY <1>1, <1>4 DEF RefuseJpg, BadHeader, BadXmp, EndsProgram, Img
  <2> QED
    BY <1>1, <2>1, <2>2, EndsWithFile DEF CountStep
<1>5. CASE WrongType \/ OpenFails
  <2>1. n > 0 /\ pc = "file" /\ pc' = "reset"
    BY <1>5 DEF WrongType, OpenFails, CountInv, RowsInv, TypeInv, ControlInv, Ended
  <2>2. ~Due(n) /\ opened = Held(n)
    <3>1. CASE WrongType
      <4>1. ~LeavesOpen(n) /\ ~Reportable(n)
        <5>1. mode \in AllModes
          BY <2>1, FileAtHand
        <5> QED
          BY <3>1, <5>1
          DEF WrongType, LeavesOpen, Reportable, Img, AllModes, Reporting, Collecting
      <4> QED
        BY <2>1, <4>1, HeldAfter DEF Due
    <3>2. CASE OpenFails /\ ~Img.readable
      <4>1. ~LeavesOpen(n) /\ ~Reportable(n)
        BY <3>2 DEF LeavesOpen, Reportable, Img
      <4> QED
        BY <2>1, <4>1, HeldAfter DEF Due
    <3>3. CASE OpenFails /\ Img.readable
      <4>1. opened = MaxOpen
        BY <2>1, <3>3, FileAtHand DEF OpenFails, CanOpen
      <4>2. opened = IF LeftBy(n - 1) < MaxOpen THEN LeftBy(n - 1) ELSE MaxOpen
        BY <2>1 DEF CountInv, OpenInv, Held
      <4>3. ~(LeftBy(n - 1) < MaxOpen)
        BY <2>1, <4>1, <4>2, FileAtHand
      <4>4. ~(LeftBy(n) < MaxOpen)
        BY <2>1, <4>3, FileAtHand
      <4>5. ~(LeftBy(n - 1) + Beside < MaxOpen)
        BY <2>1, <4>3, FileAtHand DEF Beside
      <4> QED
        BY <4>1, <4>4, <4>5 DEF Due, Held
    <3> QED
      BY <1>5, <3>1, <3>2, <3>3
  <2> QED
    BY <1>1, <2>1, <2>2, SameFiles, PassedOver DEF CountStep
<1>6. CASE NoExif
  <2>1. n > 0 /\ pc = "opened" /\ pc' = "reset"
    BY <1>6 DEF NoExif, CountInv, RowsInv, TypeInv, ControlInv, Ended
  <2>2. Img.found /\ Img.readable
    BY <2>1 DEF CountInv, PathInv, AtFile
  <2>3. LeavesOpen(n) /\ ~Reportable(n)
    BY <1>6, <2>2 DEF NoExif, LeavesOpen, Reportable, Img, Reporting, Collecting
  <2> QED
    BY <1>1, <2>1, <2>3, SameFiles, PassedOver, HeldAfter DEF Due, CountStep, AtFile
<1> QED
  BY <1>2, <1>3, <1>4, <1>5, <1>6

\* The actions that keep the file at hand open.
LEMMA OpenCount ==
  ASSUME CountInv, Open \/ BeginExtract
  PROVE  CountStep
<1>1. /\ UNCHANGED <<argv, mode, n, out, lists, last, start, failures>> /\ n > 0
      /\ pc \in {"file", "opened"} /\ pc' \in AtFile
  BY DEF Open, BeginExtract, outside, reporting, CountInv, RowsInv,
    TypeInv, ControlInv, Ended, AtFile
<1>2. OutInv' /\ EndInv'
  BY <1>1, GoesOnWithFile DEF AtFile
<1>3. OpenInv'
  <2>1. LeftBy(n - 1) < MaxOpen /\ opened' = LeftBy(n - 1) + 1
    <3>1. CASE Open
      <4>1. opened = IF LeftBy(n - 1) < MaxOpen THEN LeftBy(n - 1) ELSE MaxOpen
        BY <3>1 DEF Open, CountInv, OpenInv, Held
      <4> QED
        BY <1>1, <3>1, <4>1, FileAtHand DEF Open, CanOpen
    <3>2. CASE BeginExtract
      BY <3>2 DEF BeginExtract, CountInv, OpenInv, AtFile
    <3> QED
      BY <3>1, <3>2
  <2> QED
    BY <1>1, <2>1, SameFiles DEF OpenInv, Behind, AtFile
<1>4. PathInv'
  BY <1>1 DEF Open, BeginExtract, CanOpen, CountInv, PathInv, Img, RightType, AtFile,
    Reporting, Collecting, failures
<1>5. PlainInv'
  BY <1>1 DEF Open, BeginExtract, PlainInv
<1> QED
  BY <1>2, <1>3, <1>4, <1>5 DEF CountStep

LEMMA BeginReportCount ==
  ASSUME CountInv, BeginReport
  PROVE  CountStep
<1>1. /\ UNCHANGED <<argv, mode, n, out, opened, failures>> /\ n > 0 /\ mode \in Reporting
      /\ pc = "opened" /\ pc' = "header" /\ (Img.ext = "JPG" => Img.exif)
  BY DEF BeginReport, outside, CountInv, RowsInv, TypeInv, ControlInv, Ended
<1>2. OutInv' /\ EndInv'
  BY <1>1, GoesOnWithFile DEF AtFile
<1>3. OpenInv'
  BY <1>1, SameFiles DEF CountInv, OpenInv, Behind, AtFile
<1>4. PathInv'
  BY <1>1 DEF BeginReport, CountInv, PathInv, Img, RightType, AtFile, Reporting, Collecting,
    failures
<1>5. PlainInv'
  <2>1. mode = "plain" => last' = 0
    BY <1>1 DEF BeginReport, CountInv, RowsInv, DirsInv, Idle, Collecting
  <2> QED
    BY <1>1, <2>1 DEF PlainInv
<1> QED
  BY <1>2, <1>3, <1>4, <1>5 DEF CountStep

LEMMA WalkCount ==
  ASSUME CountInv, Walk \/ WalkJpg
  PROVE  CountStep
<1>1. /\ UNCHANGED <<argv, mode, n, out, opened, lists, last, start, failures>> /\ n > 0
      /\ pc = "header" /\ Img.header = "ok"
      /\ \/ pc' = "xmp" /\ Img.walk = "done" /\ mode \in Reporting
         \/ pc' = "write" /\ Img.walk \in {"done", "empty"} /\ mode = "extract"
  BY DEF Walk, WalkJpg, reporting, CountInv, RowsInv, TypeInv, ControlInv, Ended
<1>2. OutInv' /\ EndInv'
  BY <1>1, GoesOnWithFile DEF AtFile
<1>3. OpenInv'
  BY <1>1, SameFiles DEF CountInv, OpenInv, Behind, AtFile
<1>4. PathInv'
  BY <1>1 DEF CountInv, PathInv, Img, RightType, AtFile, Reporting, Collecting, failures
<1>5. PlainInv'
  BY <1>1 DEF CountInv, PlainInv
<1> QED
  BY <1>2, <1>3, <1>4, <1>5 DEF CountStep

\* The actions that end the program because of a text, a maker note or the file system.
LEMMA StoppingCount ==
  ASSUME CountInv, Stopping
  PROVE  CountStep
<1>1. /\ UNCHANGED <<argv, mode, n, out, texts>> /\ Failing
      /\ pc \in {"header", "write"} /\ pc' \in {"exit", "crash"}
  BY StoppingSteps DEF reporting
<1>2. n > 0
  BY <1>1 DEF CountInv, RowsInv, TypeInv, ControlInv, Ended
<1>3. Img' = Img /\ Known' = Known /\ Compared' = Compared /\ Nameless' = Nameless
  BY <1>1 DEF Img, Known, Compared, Nameless
<1>4. EndsProgram'
  <2>1. CASE NoText \/ BadNote \/ NoSoftware
    <3>1. pc = "write" => mode = "extract"
      BY DEF CountInv, RowsInv, TypeInv, ControlInv
    <3> QED
      BY <1>1, <1>3, <2>1, <3>1 DEF NoText, BadNote, NoSoftware, EndsProgram
  <2>2. CASE ThumbnailNotCreated \/ ThumbnailNotWritten
    <3>1. mode = "extract" /\ n \in refused' \cup unwritten'
      BY <2>2 DEF ThumbnailNotCreated, ThumbnailNotWritten, CountInv, RowsInv, TypeInv, ControlInv
    <3> QED
      BY <1>1, <3>1 DEF EndsProgram
  <2> QED
    BY <2>1, <2>2 DEF Stopping
<1> QED
  BY <1>1, <1>2, <1>4, EndsWithFile DEF Behind, CountStep

LEMMA DisplayCount ==
  ASSUME CountInv, Display
  PROVE  CountStep
<1>1. /\ UNCHANGED <<argv, mode, n, out, opened, failures>> /\ n > 0 /\ mode \in Reporting
      /\ pc = "xmp" /\ pc' = "report" /\ dirs = {n}
  BY DEF Display, outside, CountInv, RowsInv, TypeInv, ControlInv, DirsInv, Ended
<1>2. OutInv' /\ EndInv'
  BY <1>1, GoesOnWithFile DEF AtFile
<1>3. OpenInv'
  BY <1>1, SameFiles DEF CountInv, OpenInv, Behind, AtFile
<1>4. PathInv'
  BY <1>1 DEF CountInv, PathInv, Img, RightType, AtFile, Reporting, Collecting, failures
<1>5. PlainInv'
  <2>1. ASSUME mode = "plain", Img.tags PROVE start' # 0 /\ lists'[start'].alive
    <3>1. last = 0
      BY <1>1, <2>1 DEF CountInv, PlainInv
    <3>2. n \in dirs /\ Image[argv[n]].tags
      BY <1>1, <2>1 DEF Img
    <3>3. [file |-> n, what |-> "tags"] \in Displayed
      BY <3>2 DEF Displayed
    <3>4. AddRows(Displayed) /\ Displayed \in SUBSET Row
      BY <1>1, <3>3, DisplayedType DEF Display, CountInv, RowsInv
    <3>5. /\ Len(lists') = Len(lists) + 1
          /\ lists'[Len(lists')] = [rows |-> Displayed, alive |-> TRUE]
          /\ start' = Len(lists) + 1
      BY <3>1, <3>4, StartsList DEF CountInv, RowsInv
    <3>6. Len(lists) \in Nat
      BY DEF CountInv, RowsInv, TypeInv, TypeOK
    <3> QED
      BY <3>5, <3>6
  <2>2. Img' = Img
    BY <1>1 DEF Img
  <2> QED
    BY <1>1, <2>1, <2>2 DEF PlainInv
<1> QED
  BY <1>2, <1>3, <1>4, <1>5 DEF CountStep

\* The list at start is alive, or the program ends because of the file at hand.
LEMMA ReleaseOnce ==
  ASSUME CountInv, WalkFails \/ Release
  PROVE  \/ pc' = "reset"
         \/ pc' = "crash" /\ EndsProgram'
<1>6. Img' = Img /\ UNCHANGED mode
  BY DEF WalkFails, Release, Img
<1>1. /\ FreeMemory("reset") /\ mode \in Reporting /\ pc \in AtWork
      /\ (pc = "header" /\ Img.walk = "empty") \/ pc = "free"
  BY DEF WalkFails, Release, ReleaseAfterError, CountInv, RowsInv, TypeInv, ControlInv, AtWork
<1>2. start = 0 \/ lists[start].alive => pc' = "reset"
  BY <1>1, Zenon DEF FreeMemory, ReleaseRows
<1>3. pc' \in {"crash", "reset"}
  BY <1>1, Zenon DEF FreeMemory, ReleaseRows
<1>4. CASE mode \in Collecting
  <2>1. lists[start].alive
    BY <1>1, <1>4 DEF CountInv, RowsInv, ListInv, OnlyList
  <2> QED
    BY <1>2, <2>1
<1>5. CASE mode = "plain" /\ pc = "header"
  BY <1>1, <1>3, <1>5, <1>6 DEF EndsProgram
<1>7. CASE mode = "plain" /\ pc = "free"
  <2>1. Img.tags => lists[start].alive
    BY <1>7 DEF CountInv, PlainInv
  <2> QED
    BY <1>2, <1>3, <1>6, <1>7, <2>1 DEF EndsProgram
<1> QED
  BY <1>1, <1>4, <1>5, <1>7 DEF Reporting

LEMMA ReleaseCount ==
  ASSUME CountInv, WalkFails \/ Release
  PROVE  CountStep
<1>1. /\ UNCHANGED <<argv, mode, n, out, opened, failures>> /\ Failing /\ n > 0 /\ mode \in Reporting
      /\ WalkFails => pc = "header" /\ Img.walk = "empty" /\ Img.header = "ok"
      /\ Release => pc = "free"
  BY DEF WalkFails, Release, outside, failures, Failing, CountInv, RowsInv, TypeInv, ControlInv, Ended
<1>2. CASE pc' = "crash" /\ EndsProgram'
  BY <1>1, <1>2, EndsWithFile DEF Behind, CountStep
<1>3. CASE pc' = "reset" /\ WalkFails
  <2>1. /\ Img.found /\ Img.readable /\ RightType
        /\ Img.ext = "JPG" => Img.exif
    BY <1>1, <1>3 DEF CountInv, PathInv, AtFile
  <2>2. mode # "extract" /\ mode # "remove" /\ Img.ext \in {"JPG", "NEF", "other"}
    BY <1>1, FileAtHand DEF Reporting, Collecting, ImageKind
  <2>3. LeavesOpen(n) /\ ~Reportable(n)
    BY <1>1, <1>3, <2>1, <2>2 DEF LeavesOpen, Reportable, Img, RightType
  <2> QED
    BY <1>1, <1>3, <2>3, SameFiles, PassedOver, HeldAfter DEF Due, CountStep, AtFile
<1>4. CASE pc' = "reset" /\ Release
  <2>1. pc = "free" /\ Img.walk = "done" /\ (Img.ext = "JPG" => Img.exif)
    BY <1>1, <1>4 DEF CountInv, PathInv
  <2>2. ~LeavesOpen(n)
    BY <1>1, <2>1 DEF LeavesOpen, Img, Reporting, Collecting
  <2>3. OpenInv'
    BY <1>1, <1>4, <2>1, <2>2, HeldAfter, SameFiles DEF OpenInv, Behind, AtFile
  <2>4. PathInv' /\ PlainInv' /\ EndInv'
    BY <1>4 DEF PathInv, PlainInv, EndInv, Behind, AtFile
  <2>5. Reported' = Reported
    BY <1>1 DEF Reported
  <2>6. Due(n)
    <3>1. /\ Img.found /\ Img.readable /\ RightType /\ Img.header = "ok"
          /\ LeftBy(n - 1) < MaxOpen /\ n \notin refused \cup unwritten
      BY <2>1 DEF CountInv, PathInv, OpenInv
    <3>2. mode # "extract" /\ mode # "remove" /\ Img.ext \in {"JPG", "NEF", "other"}
      BY <1>1, FileAtHand DEF Reporting, Collecting, ImageKind
    <3>3. LeftBy(n - 1) + Beside < MaxOpen
      BY <1>1, <3>1, <3>2, FileAtHand DEF Beside
    <3> QED
      BY <2>1, <3>1, <3>2, <3>3 DEF Due, Reportable, Img, RightType
  <2>7. n \in Reported
    BY <2>1 DEF CountInv, OutInv
  <2>8. \A i \in 1..n : i \in Reported <=> Due(i)
    <3>1. \A i \in 1..n : i \in 1..(n - 1) \/ i = n
      BY <1>1, FileAtHand
    <3>2. \A i \in 1..(n - 1) : i \in Reported <=> Due(i)
      BY <2>1 DEF CountInv, OutInv, Behind
    <3> QED
      BY <2>6, <2>7, <3>1, <3>2
  <2>9. OutInv'
    BY <1>1, <1>4, <2>1, <2>5, <2>8, SameFiles DEF CountInv, OutInv, Behind
  <2> QED
    BY <2>3, <2>4, <2>9 DEF CountStep
<1> QED
  BY <1>2, <1>3, <1>4, ReleaseOnce

\* -rm copies nothing.
LEMMA NotCopiedCount ==
  ASSUME CountInv, NotCopied
  PROVE  CountStep
<1>1. /\ UNCHANGED <<argv, mode, n, out>> /\ Failing /\ n > 0 /\ mode = "remove"
      /\ pc = "opened" /\ pc' = "reset"
  BY NotCopiedSteps DEF reporting, CountInv, RowsInv, TypeInv, ControlInv, Ended
<1>2. /\ Img.found /\ Img.readable /\ Img.ext # "other" /\ n \notin refused \cup unwritten
      /\ LeftBy(n - 1) < MaxOpen /\ opened = LeftBy(n - 1) + 1
  BY <1>1 DEF CountInv, PathInv, OpenInv, RightType, AtFile
<1>3. LeavesOpen(n)
  BY <1>1, <1>2 DEF LeavesOpen, Img, Reporting, Collecting
<1>4. PICK k \in Nat : k = LeftBy(n - 1)
  BY <1>1, FileAtHand
<1>5. /\ LeftBy(n) = k + 1 /\ k < MaxOpen /\ opened = k + 1
      /\ MaxOpen \in Nat /\ n \in Nat \ {0}
  BY <1>1, <1>2, <1>3, <1>4, FileAtHand
<1>6. LeftBy(n - 1)' = k /\ Beside' = 1
  BY <1>1, <1>4, <1>5, SameBefore DEF Beside
<1>7. LeftBy(n)' = k + 1 + (IF n \in unwritten' THEN 1 ELSE 0)
  <2>1. PICK m \in Nat \ {0} : m = n
    BY <1>5
  <2>2. LeftBy(m)' = LeftBy(m - 1)' + (IF LeavesOpen(m) THEN 1 ELSE 0)
                                    + (IF m \in unwritten' THEN 1 ELSE 0)
    BY <1>1, LeftByNext
  <2>3. LeftBy(m - 1)' = LeftBy(n - 1)' /\ LeftBy(m)' = LeftBy(n)'
    BY <1>1, <2>1
  <2> QED
    BY <1>3, <1>4, <1>6, <2>1, <2>2, <2>3
<1>8. CASE RemoveNef \/ NothingToCopy
  <2>1. UNCHANGED <<opened, unwritten>> /\ (Img.ext # "JPG" \/ ~Img.table)
    BY <1>8 DEF RemoveNef, NothingToCopy, outside, failures
  <2>2. ~Due(n)'
    BY <1>1, <2>1, SameLeavers DEF Due, Reportable, Img
  <2>3. opened' = Held(n)'
    BY <1>2, <1>5, <1>7, <2>1 DEF Held
  <2> QED
    BY <1>1, <2>2, <2>3, PassedOver DEF CountStep
<1>9. CASE CopyNotOpened
  <2>1. /\ UNCHANGED <<opened, unwritten>>
        /\ refused' = IF opened < MaxOpen THEN refused \cup {n} ELSE refused
    BY <1>9 DEF CopyNotOpened
  <2>2. ~Due(n)'
    BY <1>1, <1>5, <1>6, <2>1 DEF Due
  <2>3. opened' = Held(n)'
    BY <1>2, <1>5, <1>7, <2>1 DEF Held
  <2> QED
    BY <1>1, <2>2, <2>3, PassedOver DEF CountStep
<1>10. CASE CopyNotWritten
  <2>1. opened' = opened + 1 /\ n \in unwritten' /\ opened < MaxOpen
    BY <1>10 DEF CopyNotWritten
  <2>2. ~Due(n)'
    BY <1>1, <2>1 DEF Due
  <2>3. opened' = Held(n)'
    BY <1>5, <1>7, <2>1 DEF Held
  <2> QED
    BY <1>1, <2>2, <2>3, PassedOver DEF CountStep
<1> QED
  BY <1>8, <1>9, <1>10 DEF NotCopied

LEMMA RemoveCount ==
  ASSUME CountInv, RemoveExif
  PROVE  CountStep
<1>1. /\ UNCHANGED <<argv, mode, n, opened, failures>> /\ n > 0 /\ mode = "remove"
      /\ pc = "opened" /\ pc' = "reset" /\ Img.ext = "JPG" /\ Img.table /\ opened < MaxOpen
  BY DEF RemoveExif, Copies, outside, CountInv, RowsInv, TypeInv, ControlInv, Ended
<1>2. /\ Img.found /\ Img.readable /\ n \notin refused \cup unwritten
      /\ LeftBy(n - 1) < MaxOpen /\ opened = LeftBy(n - 1) + 1
  BY <1>1 DEF CountInv, PathInv, OpenInv, AtFile
<1>3. LeavesOpen(n)
  BY <1>1, <1>2 DEF LeavesOpen, Img, Reporting, Collecting
<1>4. Due(n)
  BY <1>1, <1>2 DEF Due, Reportable, Img, Beside
<1>5. PICK x : x.file = n /\ out' = Append(out, x)
  <2>1. out' = Append(out, [file |-> n, rows |-> {}, index |-> 0, header |-> FALSE])
    BY DEF RemoveExif, Written
  <2> QED
    BY <2>1
<1>6. OutInv'
  BY <1>1, <1>4, <1>5, ReportAdded
<1>7. OpenInv'
  BY <1>1, <1>3, HeldAfter, SameFiles DEF OpenInv, Behind, AtFile
<1>8. PathInv' /\ PlainInv' /\ EndInv'
  BY <1>1 DEF PathInv, PlainInv, EndInv, AtFile
<1> QED
  BY <1>6, <1>7, <1>8 DEF CountStep

LEMMA PrintCount ==
  ASSUME CountInv, PrintReport
  PROVE  CountStep
<1>1. /\ UNCHANGED <<argv, mode, n, lists, start, failures>> /\ n > 0 /\ mode \in Reporting
      /\ pc = "report" /\ pc' = "free" /\ opened' = opened - 1
  BY DEF PrintReport, outside, CountInv, RowsInv, TypeInv, ControlInv, Ended
<1>2. /\ Img.found /\ Img.readable /\ RightType /\ Img.header = "ok" /\ Img.walk = "done"
      /\ Img.ext = "JPG" => Img.exif
      /\ n \notin refused \cup unwritten
  BY <1>1 DEF CountInv, PathInv, AtFile
<1>3. LeftBy(n - 1) < MaxOpen /\ opened = LeftBy(n - 1) + 1
  BY <1>1 DEF CountInv, OpenInv, AtFile
<1>4. Due(n)
  <2>1. mode # "extract" /\ mode # "remove" /\ Img.ext \in {"JPG", "NEF", "other"}
    BY <1>1, FileAtHand DEF Reporting, Collecting, ImageKind
  <2>2. LeftBy(n - 1) + Beside < MaxOpen
    BY <1>1, <1>3, <2>1, FileAtHand DEF Beside
  <2> QED
    BY <1>2, <2>1, <2>2 DEF Due, Reportable, Img, RightType
<1>5. PICK x : x.file = n /\ out' = Append(out, x)
  <2> DEFINE r == IF mode \in Collecting THEN lists[start].rows ELSE {}
             i == IF mode = "js" THEN jsIndex ELSE 0
             h == mode = "js" /\ jsFirst
             x == [file |-> n, rows |-> r, index |-> i, header |-> h]
  <2>1. out' = Append(out, x)
    BY Zenon DEF PrintReport
  <2>2. x.file = n
    OBVIOUS
  <2> HIDE DEF x
  <2> QED
    BY <2>1, <2>2
<1>6. OutInv'
  <2>1. OutInv'
    BY <1>1, <1>4, <1>5, ReportAdded
  <2> QED
    BY <2>1
<1>7. OpenInv'
  <2>1. opened' = LeftBy(n - 1)
    BY <1>1, <1>3, FileAtHand
  <2> QED
    BY <1>1, <1>3, <2>1, SameFiles DEF OpenInv, Behind, AtFile
<1>8. PathInv' /\ PlainInv' /\ EndInv'
  <2>1. Img' = Img /\ RightType' = RightType
    BY <1>1 DEF Img, RightType
  <2> QED
    BY <1>1, <1>2, <2>1 DEF CountInv, PathInv, PlainInv, EndInv, AtFile, failures
<1> QED
  BY <1>6, <1>7, <1>8 DEF CountStep

LEMMA WriteCount ==
  ASSUME CountInv, WriteThumbnail
  PROVE  CountStep
<1>1. /\ UNCHANGED <<argv, mode, n, failures>> /\ n > 0 /\ mode = "extract"
      /\ pc = "write" /\ pc' = "reset" /\ opened' = opened - 1
  BY DEF WriteThumbnail, outside, CountInv, RowsInv, TypeInv, ControlInv, Ended
<1>2. /\ Img.found /\ Img.readable /\ Img.ext # "JPG" /\ Img.header = "ok"
      /\ Img.walk \in {"done", "empty"} /\ LeftBy(n - 1) < MaxOpen
      /\ n \notin refused \cup unwritten
  BY <1>1 DEF CountInv, PathInv, OpenInv, RightType, AtFile
<1>3. ~LeavesOpen(n)
  BY <1>1 DEF LeavesOpen, Reporting, Collecting
<1>4. Due(n)
  <2>1. LeftBy(n - 1) + Beside < MaxOpen
    BY <1>1, <1>2, FileAtHand DEF Beside
  <2> QED
    BY <1>1, <1>2, <2>1 DEF Due, Reportable, Img
<1>5. PICK x : x.file = n /\ out' = Append(out, x)
  <2>1. out' = Append(out, [file |-> n, rows |-> {}, index |-> 0, header |-> FALSE])
    BY DEF WriteThumbnail, Written
  <2> QED
    BY <2>1
<1>6. OutInv'
  BY <1>1, <1>4, <1>5, ReportAdded
<1>7. OpenInv'
  BY <1>1, <1>3, HeldAfter, SameFiles DEF OpenInv, Behind, AtFile
<1>8. PathInv' /\ PlainInv' /\ EndInv'
  BY <1>1 DEF PathInv, PlainInv, EndInv, AtFile
<1> QED
  BY <1>6, <1>7, <1>8 DEF CountStep

LEMMA CountInvariant == Spec => []CountInv
<1>1. CountInv /\ [Next]_vars => CountStep
  BY NextCases, NextFileCount, DoneCount, OpenCount, BeginReportCount, WalkCount,
    DisplayCount, ReleaseCount, RemoveCount, PrintCount, WriteCount,
    NotCopiedCount, StoppingCount DEF Quiet, Busy
<1>2. CountInv /\ [Next]_vars => CountInv'
  <2>1. RowsInv /\ [Next]_vars => RowsInv'
    BY NextCases, QuietTypes, BusyTypes, QuietRows, BusyRows DEF RowsInv, Busy
  <2> QED
    BY <1>1, <2>1 DEF CountInv, CountStep
<1> QED
  BY <1>2, InitCount, PTL DEF Spec

\* Every file that the program comes to and is able to report on is reported, in order
\* and once, while the descriptors it takes are left and the file system takes the
\* output; and the program ends before the last file because of the file at hand only.
THEOREM ReportingCorrect == Spec => []AllReported
<1>1. CountInv => AllReported
  <2> SUFFICES ASSUME CountInv PROVE AllReported
    OBVIOUS
  <2>1. n \in Nat
    BY DEF CountInv, RowsInv, TypeInv, TypeOK
  <2>2. \A i \in 1..(IF pc \in {"next", "finished"} THEN n ELSE n - 1) :
          i \in 1..(IF pc \in Behind THEN n ELSE n - 1)
    BY <2>1 DEF Behind
  <2>3. \A i : Due(i) <=> /\ Reportable(i)
                          /\ i \notin refused \cup unwritten
                          /\ LeftBy(i - 1) + Beside < MaxOpen
    BY DEF Due
  <2> QED
    BY <2>2, <2>3 DEF CountInv, OutInv, EndInv, AllReported
<1> QED
  BY <1>1, CountInvariant, PTL

=============================================================================
