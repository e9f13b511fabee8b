--------------------------- MODULE Records_proofs ---------------------------
(***************************************************************************)
(* Theorems about Config and Records, for every table, configuration file  *)
(* and image: the types, which tags are listed whatever became of the      *)
(* file, that a column shows its own image, and, of Values, that the texts *)
(* are right.                                                              *)
(***************************************************************************)
EXTENDS Records, MCAlgorithms, WellFoundedInduction, SequenceTheorems, TLAPS

-----------------------------------------------------------------------------
(* The inductive invariants. *)

\* Each line of the text says yes to one of the tags.
StandsFor(text, tags) ==
  /\ Len(text) = Len(tags)
  /\ \A k \in DOMAIN tags : /\ text[k].yes
                            /\ Named(text[k].name) # {} /\ FirstNamed(text[k].name) = tags[k]

Undisturbed == edits = 0 /\ ~lost

\* What is written so far, and what is listed, is the beginning of the default text.
WriteInv ==
  phase = "write" =>
    /\ at <= Len(Table) + 1
    /\ wanted = KeptOf(TableTags, Defaults)[at - 1] /\ all = wanted
    /\ StandsFor(stream, wanted)

FileInv ==
  /\ phase # "off" => exists
  /\ exists /\ phase # "write" /\ Undisturbed => StandsFor(lines, DefaultTags)
  /\ phase = "made" /\ Undisturbed => wanted = DefaultTags /\ all = DefaultTags

Yes(line, t) == line.yes /\ Named(line.name) # {} /\ FirstNamed(line.name) = t
Listed(tags, t) == \E i \in DOMAIN tags : tags[i] = t

\* The lists are of the lines before the one that is read next.
ReadInv ==
  phase \in {"read", "ready"} =>
    /\ at <= Len(lines) + 1
    /\ phase = "ready" => at > Len(lines)
    /\ \A t \in Tag : Listed(wanted, t) <=> \E i \in 1..at - 1 : Yes(lines[i], t)
    /\ \A t \in Tag : Listed(wanted, t) => Listed(all, t)
    /\ Undisturbed => wanted = SubSeq(DefaultTags, 1, at - 1) /\ all = wanted

\* Records are printed after the lists are made, all of them with one header.
HeaderInv ==
  /\ phase \in {"off", "write", "read"} => argv = <<>> /\ step = "next" /\ header = <<>>
  /\ header = <<>> \/ header = <<Columns>>
  /\ header = <<>> => out = <<>>
  /\ Len(argv) = Len(out) + (IF step = "next" THEN 0 ELSE 1)

NoRow(rs, t) == \A k \in DOMAIN rs : rs[k].tag # t
FirstRow(rs, t, k) ==
  k \in DOMAIN rs /\ rs[k].tag = t /\ \A j \in 1..k - 1 : rs[j].tag # t

\* The first row of a tag says what the first entry of the directories with it says.
SaidByRow(rs, f, t) ==
  \E k \in DOMAIN rs :
    /\ FirstRow(rs, t, k)
    /\ \E d \in DOMAIN Image[f].dirs : \E i \in DOMAIN EntriesOf(f, d) :
         FirstInDirs(f, t, d, i) /\ rs[k].value = ValueIn(f, EntriesOf(f, d)[i])

\* It does so as soon as that entry has been passed.
RowInv ==
  step = "dirs" =>
    /\ dir <= Len(Image[File].dirs) + 1
    /\ orientation # 0 => ~NoRow(rows, Orientation)
    /\ \A t \in Tag : IsPrinted(t) =>
         (NoRow(rows, t) /\ NoneBefore(File, t, dir, entry)) \/ SaidByRow(rows, File, t)

\* The first row of a tag says what the image says of it.
SaidByRows(rs, f, t) ==
  \/ NoRow(rs, t) /\ SaysOf(f, t, Empty)
  \/ \E k \in DOMAIN rs : FirstRow(rs, t, k) /\ SaysOf(f, t, rs[k].value)

\* It does when all rows are there.
AllRowsInv ==
  step \in {"width", "length", "print"} =>
    \A t \in Tag : IsPrinted(t) /\ ~IsSize(File, t) => SaidByRows(rows, File, t)

NameInv ==
  step \notin {"next", "crash"} =>
    rows # <<>> /\ rows[1].tag = NameTag /\ rows[1].value = NameOf(File)
SizeInv == step \in {"width", "length"} => mode = "web" /\ Img.frame

RecordInv == HeaderInv /\ RowInv /\ AllRowsInv /\ NameInv /\ SizeInv /\ OwnCells

-----------------------------------------------------------------------------
(* The elements of a sequence that are kept. *)

LEMMA Least ==
  ASSUME NEW T \in SUBSET Nat, T # {}
  PROVE  \E m \in T : \A k \in T : m <= k
<1>1. IsWellFoundedOn(OpToRel(<, Nat), Nat)
  BY NatLessThanWellFounded
<1>2. PICK m \in T : \A k \in T : ~(<<k, m>> \in OpToRel(<, Nat))
  BY <1>1, WFMin
<1>3. \A k, l \in Nat : k < l => <<k, l>> \in OpToRel(<, Nat)
  BY DEF OpToRel
<1>4. m \in Nat /\ \A k \in T : k \in Nat
  OBVIOUS
<1>5. \A k \in T : ~(k < m)
  BY <1>2, <1>3, <1>4, Zenon
<1> QED  BY <1>4, <1>5, SMT

\* The function is defined as far as m.
KeptTo(g, m, s, S) ==
  g = [i \in 0..m |->
         IF i = 0 THEN <<>>
         ELSE IF s[i] \in S THEN Append(g[i - 1], s[i]) ELSE g[i - 1]]

LEMMA KeptMore ==
  ASSUME NEW s, NEW S, NEW m \in Nat, m > 0, NEW g, KeptTo(g, m - 1, s, S)
  PROVE  \E h : KeptTo(h, m, s, S)
<1> DEFINE next == IF s[m] \in S THEN Append(g[m - 1], s[m]) ELSE g[m - 1]
           h == [i \in 0..m |-> IF i = m THEN next ELSE g[i]]
<1>1. \A i \in 0..m - 1 : h[i] = g[i]
  OBVIOUS
<1>2. h[m] = next
  OBVIOUS
<1>3. \A i \in 0..m :
        h[i] = IF i = 0 THEN <<>> ELSE IF s[i] \in S THEN Append(h[i - 1], s[i]) ELSE h[i - 1]
  <2> TAKE i \in 0..m
  <2>1. CASE i = m
    <3>1. m - 1 \in 0..m - 1 /\ i # 0
      BY <2>1
    <3> QED  BY <2>1, <3>1, <1>1, <1>2
  <2>2. CASE i # m
    <3>1. i \in 0..m - 1 /\ (i # 0 => i - 1 \in 0..m - 1)
      BY <2>2
    <3>2. g[i] = IF i = 0 THEN <<>> ELSE IF s[i] \in S THEN Append(g[i - 1], s[i]) ELSE g[i - 1]
      BY <3>1 DEF KeptTo
    <3>3. i # 0 => h[i - 1] = g[i - 1]
      BY <3>1, <1>1
    <3>4. h[i] = g[i]
      BY <3>1, <1>1
    <3> HIDE DEF h
    <3> QED  BY <3>2, <3>3, <3>4, Zenon
  <2> QED  BY <2>1, <2>2
<1>4. h = [i \in 0..m |-> h[i]]
  OBVIOUS
<1> HIDE DEF h
<1>5. KeptTo(h, m, s, S)
  BY <1>3, <1>4 DEF KeptTo
<1> QED  BY <1>5

LEMMA KeptExists ==
  ASSUME NEW s, NEW S, NEW n \in Nat
  PROVE  \E g : KeptTo(g, n, s, S)
<1> DEFINE T == {m \in Nat : ~\E g : KeptTo(g, m, s, S)}
<1> SUFFICES ASSUME T # {} PROVE FALSE
  OBVIOUS
<1>1. PICK m \in T : \A k \in T : m <= k
  BY Least
<1>2. m # 0
  <2>1. KeptTo([i \in 0..0 |-> <<>>], 0, s, S)
    BY DEF KeptTo
  <2> QED  BY <1>1, <2>1
<1>3. m - 1 \in Nat /\ m \in Nat /\ m > 0 /\ m - 1 \notin T
  BY <1>1, <1>2
<1>4. PICK g : KeptTo(g, m - 1, s, S)
  BY <1>3
<1>5. \E h : KeptTo(h, m, s, S)
  BY <1>3, <1>4, KeptMore
<1> QED  BY <1>1, <1>5

\* What the loop over s does with each element.
LEMMA KeptSteps ==
  ASSUME NEW X, NEW s \in Seq(X), NEW S
  PROVE  /\ KeptOf(s, S)[0] = <<>>
         /\ \A i \in 1..Len(s) :
              /\ s[i] \in S => KeptOf(s, S)[i] = Append(KeptOf(s, S)[i - 1], s[i])
              /\ s[i] \notin S => KeptOf(s, S)[i] = KeptOf(s, S)[i - 1]
<1> DEFINE k == KeptOf(s, S)
<1>1. Len(s) \in Nat
  OBVIOUS
<1>2. KeptTo(k, Len(s), s, S)
  <2>1. PICK g : KeptTo(g, Len(s), s, S)
    BY <1>1, KeptExists
  <2>2. g = [i \in 0..Len(s) |->
               IF i = 0 THEN <<>>
               ELSE IF s[i] \in S THEN Append(g[i - 1], s[i]) ELSE g[i - 1]]
    BY <2>1 DEF KeptTo
  <2> QED  BY <2>2, Zenon DEF KeptOf, KeptTo
<1> HIDE DEF k
<1>3. \A i \in 0..Len(s) :
        k[i] = IF i = 0 THEN <<>> ELSE IF s[i] \in S THEN Append(k[i - 1], s[i]) ELSE k[i - 1]
  BY <1>2, <1>1 DEF KeptTo
<1>4. k[0] = <<>>
  BY <1>3, <1>1
<1>5. ASSUME NEW i \in 1..Len(s)
      PROVE  k[i] = IF s[i] \in S THEN Append(k[i - 1], s[i]) ELSE k[i - 1]
  <2>1. i \in 0..Len(s) /\ i # 0
    BY <1>1
  <2> QED  BY <2>1, <1>3
<1> QED  BY <1>4, <1>5 DEF k

LEMMA KeptType ==
  ASSUME NEW X, NEW s \in Seq(X), NEW S, NEW n \in 0..Len(s)
  PROVE  KeptOf(s, S)[n] \in Seq(X)
<1> DEFINE k == KeptOf(s, S)
           T == {m \in Nat : m <= Len(s) /\ k[m] \notin Seq(X)}
<1> SUFFICES ASSUME T # {} PROVE FALSE
  OBVIOUS
<1>1. PICK m \in T : \A l \in T : m <= l
  BY Least
<1>2. k[0] = <<>>
  BY KeptSteps
<1>3. m # 0
  <2>1. <<>> \in Seq(X)
    OBVIOUS
  <2>2. k[0] \in Seq(X)
    BY <1>2, <2>1, Zenon
  <2> QED  BY <1>1, <2>2
<1>4. m \in 1..Len(s) /\ m - 1 \in Nat /\ m - 1 <= Len(s) /\ m - 1 \notin T
  BY <1>1, <1>3
<1>5. k[m - 1] \in Seq(X) /\ s[m] \in X
  BY <1>4
<1>6. k[m] = Append(k[m - 1], s[m]) \/ k[m] = k[m - 1]
  BY <1>4, KeptSteps
<1> HIDE DEF k
<1>7. k[m] \in Seq(X)
  <2>1. Append(k[m - 1], s[m]) \in Seq(X)
    BY <1>5, AppendProperties
  <2> QED  BY <1>5, <1>6, <2>1, Zenon
<1> QED  BY <1>1, <1>7

\* What is kept is what is there and is to be kept.
LEMMA KeptElements ==
  ASSUME NEW X, NEW s \in Seq(X), NEW S, NEW n \in 0..Len(s), NEW x
  PROVE  Listed(KeptOf(s, S)[n], x) <=> x \in S /\ \E j \in 1..n : s[j] = x
<1> DEFINE k == KeptOf(s, S)
           Right(m) == Listed(k[m], x) <=> x \in S /\ \E j \in 1..m : s[j] = x
           T == {m \in Nat : m <= Len(s) /\ ~Right(m)}
<1> SUFFICES ASSUME T # {} PROVE FALSE
  OBVIOUS
<1>1. PICK m \in T : \A l \in T : m <= l
  BY Least
<1>2. k[0] = <<>>
  BY KeptSteps
<1>3. Right(0)
  BY <1>2 DEF Listed
<1>4. m # 0
  BY <1>1, <1>3
<1>5. m \in 1..Len(s) /\ m - 1 \in 0..Len(s) /\ m - 1 \notin T /\ m \in Nat
  BY <1>1, <1>4
<1>6. Right(m - 1)
  BY <1>5
<1>7. k[m - 1] \in Seq(X)
  BY <1>5, KeptType
<1>8. /\ s[m] \in S => k[m] = Append(k[m - 1], s[m])
      /\ s[m] \notin S => k[m] = k[m - 1]
  BY <1>5, KeptSteps
<1> HIDE DEF k
<1>9. (\E j \in 1..m : s[j] = x) <=> (\E j \in 1..m - 1 : s[j] = x) \/ s[m] = x
  BY <1>5
<1>10. s[m] \in S => (Listed(k[m], x) <=> Listed(k[m - 1], x) \/ s[m] = x)
  <2> SUFFICES ASSUME s[m] \in S PROVE Listed(k[m], x) <=> Listed(k[m - 1], x) \/ s[m] = x
    OBVIOUS
  <2>1. k[m] = Append(k[m - 1], s[m])
    BY <1>8
  <2>2. s[m] \in X
    BY <1>5
  <2>3. PICK l \in Nat : l = Len(k[m - 1])
    BY <1>7
  <2>4. /\ DOMAIN k[m - 1] = 1..l /\ DOMAIN Append(k[m - 1], s[m]) = 1..l + 1
        /\ \A i \in 1..l : Append(k[m - 1], s[m])[i] = k[m - 1][i]
        /\ Append(k[m - 1], s[m])[l + 1] = s[m]
    BY <1>7, <2>2, <2>3, AppendProperties
  <2> QED  BY <2>1, <2>3, <2>4 DEF Listed
<1>11. Right(m)
  BY <1>6, <1>8, <1>9, <1>10
<1> QED  BY <1>1, <1>11
-----------------------------------------------------------------------------
(* Types. *)

TableEntry == [tag : Tag, name : Names]
Record == [name : Value, cells : Seq(Value)]
\* What output_csv prints is of an image.
ControlInv == step # "next" => argv # <<>>

ConfType ==
  /\ exists \in BOOLEAN /\ lost \in BOOLEAN
  /\ lines \in Seq(Line) /\ stream \in Seq(Line)
  /\ at \in Nat \ {0}
  /\ wanted \in Seq(Tag) /\ all \in Seq(Tag)
  /\ phase \in {"off", "write", "read", "ready", "made", "unread"}
  /\ runs \in 0..MaxRuns /\ edits \in 0..MaxEdits

ShownType ==
  /\ mode \in {"columns", "web"}
  /\ argv \in Seq(Files) /\ Len(argv) <= MaxFiles
  /\ step \in {"next", "dirs", "width", "length", "print", "crash"}
  /\ dir \in Nat \ {0} /\ entry \in Nat \ {0}
  /\ rows \in Seq(Row)
  /\ orientation \in Nat
  /\ header \in Seq(Seq(Tag)) /\ Len(header) <= 1
  /\ out \in Seq(Record)
  /\ ControlInv

LEMMA TypeParts == ConfType /\ ShownType <=> TypeOK /\ ControlInv
  BY DEF ConfType, ShownType, TypeOK, Record

LEMMA TableType ==
  /\ Table \in Seq(TableEntry) /\ TableTags \in Seq(Tag)
  /\ Len(TableTags) = Len(Table) /\ DOMAIN TableTags = DOMAIN Table
  /\ \A i \in DOMAIN Table : /\ Table[i].tag \in Tag /\ Table[i].name \in Names
                             /\ TableTags[i] = Table[i].tag
<1>1. Table \in Seq(TableEntry)
  BY TableAssumption DEF TableEntry
<1>2. \A i \in DOMAIN Table : Table[i] \in TableEntry
  BY <1>1, ElementOfSeq
<1>3. \A i \in DOMAIN Table : Table[i].tag \in Tag /\ Table[i].name \in Names
  BY <1>2 DEF TableEntry
<1>4. DOMAIN Table = 1..Len(Table) /\ Len(Table) \in Nat
  BY <1>1
<1>5. TableTags \in [1..Len(Table) -> Tag]
  BY <1>3, <1>4 DEF TableTags
<1>6. TableTags \in Seq(Tag) /\ Len(TableTags) = Len(Table)
  BY <1>4, <1>5
<1> QED  BY <1>1, <1>3, <1>6, <1>4 DEF TableTags

\* A name stands for the first entry that has it.
LEMMA FirstNamedIs ==
  ASSUME NEW name, Named(name) # {}
  PROVE  /\ FirstNamed(name) \in Tag
         /\ \E i \in Named(name) :
              (\A j \in Named(name) : i <= j) /\ FirstNamed(name) = Table[i].tag
<1>1. Named(name) \subseteq DOMAIN Table /\ Named(name) \subseteq Nat
  BY TableType DEF Named
<1>2. PICK m \in Named(name) : \A j \in Named(name) : m <= j
  BY <1>1, Least
<1> DEFINE i == CHOOSE i \in Named(name) : \A j \in Named(name) : i <= j
<1>3. i \in Named(name) /\ \A j \in Named(name) : i <= j
  BY <1>2, Zenon
<1>4. FirstNamed(name) = Table[i].tag
  BY Zenon DEF FirstNamed
<1> HIDE DEF i
<1> QED  BY <1>1, <1>3, <1>4, TableType

LEMMA StoreType ==
  ASSUME wanted \in Seq(Tag), all \in Seq(Tag), NEW line, StoreTag(line), StoreAllTags(line)
  PROVE  wanted' \in Seq(Tag) /\ all' \in Seq(Tag)
<1>1. CASE Named(line.name) = {}
  BY <1>1 DEF StoreTag, StoreAllTags
<1>2. CASE Named(line.name) # {}
  <2> DEFINE t == FirstNamed(line.name)
  <2>1. t \in Tag
    BY <1>2, FirstNamedIs
  <2>2. wanted' \in {wanted, Append(wanted, t)} /\ all' = Append(all, t)
    BY <1>2 DEF StoreTag, StoreAllTags
  <2> HIDE DEF t
  <2>3. Append(wanted, t) \in Seq(Tag) /\ Append(all, t) \in Seq(Tag)
    BY <2>1, AppendProperties
  <2> QED  BY <2>2, <2>3
<1> QED  BY <1>1, <1>2

LEMMA TornType ==
  ASSUME NEW text \in Seq(Line), NEW torn \in Torn(text)
  PROVE  torn \in Seq(Line)
<1>1. CASE \E k \in 0..Len(text) : torn = SubSeq(text, 1, k)
  BY <1>1
<1>2. CASE \E k \in DOMAIN text :
             torn = Append(SubSeq(text, 1, k - 1), [text[k] EXCEPT !.yes = FALSE])
  <2>1. PICK k \in DOMAIN text :
             torn = Append(SubSeq(text, 1, k - 1), [text[k] EXCEPT !.yes = FALSE])
    BY <1>2
  <2>2. text[k] \in Line
    BY ElementOfSeq
  <2>3. [text[k] EXCEPT !.yes = FALSE] \in Line
    BY <2>2 DEF Line
  <2>4. SubSeq(text, 1, k - 1) \in Seq(Line)
    OBVIOUS
  <2> QED  BY <2>1, <2>3, <2>4, AppendProperties
<1> QED  BY <1>1, <1>2 DEF Torn

LEMMA EditedType ==
  ASSUME lines \in Seq(Line), NEW edited \in EditedLines
  PROVE  edited \in Seq(Line)
<1>1. CASE \E i \in DOMAIN lines, b \in BOOLEAN : edited = [lines EXCEPT ![i].yes = b]
  <2>1. PICK i \in DOMAIN lines, b \in BOOLEAN : edited = [lines EXCEPT ![i].yes = b]
    BY <1>1
  <2>2. lines[i] \in Line
    BY ElementOfSeq
  <2>3. [lines[i] EXCEPT !.yes = b] \in Line
    BY <2>2 DEF Line
  <2>4. edited = [lines EXCEPT ![i] = [lines[i] EXCEPT !.yes = b]]
    BY <2>1
  <2> QED  BY <2>3, <2>4, ExceptSeq
<1>2. CASE \E i \in DOMAIN lines :
             edited = SubSeq(lines, 1, i - 1) \o SubSeq(lines, i + 1, Len(lines))
  <2>1. PICK i \in DOMAIN lines :
             edited = SubSeq(lines, 1, i - 1) \o SubSeq(lines, i + 1, Len(lines))
    BY <1>2
  <2>2. SubSeq(lines, 1, i - 1) \in Seq(Line) /\ SubSeq(lines, i + 1, Len(lines)) \in Seq(Line)
    OBVIOUS
  <2> QED  BY <2>1, <2>2, ConcatProperties
<1>3. CASE \E l \in Line : edited = Append(lines, l)
  BY <1>3, AppendProperties
<1> DEFINE A == {[lines EXCEPT ![i].yes = b] : i \in DOMAIN lines, b \in BOOLEAN}
           B == {SubSeq(lines, 1, i - 1) \o SubSeq(lines, i + 1, Len(lines)) : i \in DOMAIN lines}
           C == {Append(lines, l) : l \in Line}
<1>4. EditedLines = (A \cup B) \cup C
  BY DEF EditedLines
<1>5. edited \in A => edited \in Seq(Line)
  BY <1>1
<1>6. edited \in B => edited \in Seq(Line)
  BY <1>2
<1>7. edited \in C => edited \in Seq(Line)
  BY <1>3
<1> HIDE DEF A, B, C
<1> QED  BY <1>4, <1>5, <1>6, <1>7

LEMMA Empty0 ==
  /\ <<>> \in Seq(Line) /\ <<>> \in Seq(Tag)
  /\ MaxRuns \in Nat /\ MaxEdits \in Nat /\ 0 \in 0..MaxRuns /\ 0 \in 0..MaxEdits
  BY BoundAssumption

LEMMA ConfTypeInit == Init => ConfType
<1> SUFFICES ASSUME Init PROVE ConfType
  OBVIOUS
<1>1. ConfigInit
  BY DEF Init
<1>2. /\ lines \in Seq(Line) /\ stream \in Seq(Line)
      /\ wanted \in Seq(Tag) /\ all \in Seq(Tag)
      /\ runs \in 0..MaxRuns /\ edits \in 0..MaxEdits
  BY <1>1, Empty0, Zenon DEF ConfigInit
<1>3. exists \in BOOLEAN /\ lost \in BOOLEAN
  BY <1>1, Zenon DEF ConfigInit
<1>4. at \in Nat \ {0} /\ phase \in {"off", "write", "read", "ready", "made", "unread"}
  BY <1>1 DEF ConfigInit
<1> QED  BY <1>2, <1>3, <1>4 DEF ConfType

LEMMA ConfTypeStep ==
  ASSUME ConfType, CheckForConfig \/ Killed \/ Edit \/ DeleteFile
  PROVE  ConfType'
<1> USE DEF ConfType
<1>1. ASSUME NEW p \in {"off", "write", "unread", "read"}, Start(p)
      PROVE  runs' \in 0..MaxRuns /\ at' \in Nat \ {0} /\ wanted' \in Seq(Tag)
             /\ all' \in Seq(Tag) /\ stream' \in Seq(Line) /\ phase' = p
  BY <1>1, Empty0 DEF Start
<1>2. CASE NotCreated
  BY <1>2, <1>1 DEF NotCreated
<1>3. CASE Create
  BY <1>3, <1>1, Empty0 DEF Create
<1>4. CASE WriteTag
  <2>1. CASE Table[at].tag \in Defaults
    <3>1. at \in DOMAIN Table
      BY <1>4, TableType DEF WriteTag
    <3>2. DefaultLine(at) \in Line
      BY <3>1, TableType DEF DefaultLine, Line
    <3>3. stream' \in Seq(Line)
      <4>1. stream' = Append(stream, DefaultLine(at))
        BY <1>4, <2>1 DEF WriteTag
      <4> QED  BY <4>1, <3>2, AppendProperties
    <3>4. wanted' \in Seq(Tag) /\ all' \in Seq(Tag)
      BY <1>4, <2>1, StoreType DEF WriteTag
    <3> QED  BY <1>4, <3>3, <3>4 DEF WriteTag
  <2>2. CASE Table[at].tag \notin Defaults
    BY <1>4, <2>2 DEF WriteTag
  <2> QED  BY <2>1, <2>2
<1>5. CASE WriteFails
  BY <1>5, TornType, Empty0 DEF WriteFails
<1>6. CASE CloseFile
  BY <1>6, TornType, Empty0 DEF CloseFile
<1>7. CASE NotOpened
  BY <1>7, <1>1 DEF NotOpened
<1>8. CASE OpenFile
  BY <1>8, <1>1 DEF OpenFile
<1>9. CASE ReadLine
  BY <1>9, StoreType DEF ReadLine
<1>10. CASE EndOfLines
  BY <1>10 DEF EndOfLines
<1>11. CASE Killed
  BY <1>11, TornType, Empty0 DEF Killed
<1>12. CASE Edit
  BY <1>12, EditedType, Empty0 DEF Edit
<1>13. CASE DeleteFile
  BY <1>13, Empty0 DEF DeleteFile
<1> QED
  BY <1>2, <1>3, <1>4, <1>5, <1>6, <1>7, <1>8, <1>9, <1>10, <1>11, <1>12, <1>13
     DEF CheckForConfig
LEMMA FileType ==
  ASSUME ShownType, argv # <<>>
  PROVE  File \in Files /\ Img \in {Image[f] : f \in Files} /\ Len(argv) \in Nat
         /\ Img.dirs \in Seq(Directory) /\ Img.xmp \in Seq(Entry) /\ Img.frame \in BOOLEAN
<1>1. argv \in Seq(Files) /\ Len(argv) \in Nat /\ Len(argv) # 0
  BY DEF ShownType
<1>2. File \in Files
  BY <1>1, ElementOfSeq DEF File
<1> QED  BY <1>1, <1>2, ImageAssumption DEF Img

LEMMA OwnRowType ==
  ASSUME NEW f \in Files, NEW e \in Entry
  PROVE  OwnRow(f, e) \in Row /\ OwnRow(f, e).tag = e.tag /\ OwnRow(f, e).value = ValueIn(f, e)
         /\ ValueIn(f, e) \in Value
  BY DEF OwnRow, Row, Value, Entry, ValueIn

LEMMA ValueType ==
  /\ Empty \in Value /\ Junk \in Value
  /\ \A f \in Files : NameOf(f) \in Value /\ SizeOf(f) \in Value
  BY DEF Empty, Junk, NameOf, SizeOf, Value

\* RowOf is the first row of the tag.
LEMMA RowOfIs ==
  ASSUME rows \in Seq(Row), NEW tag
  PROVE  /\ RowOf(tag) \in Nat
         /\ RowOf(tag) = 0 <=> \A i \in DOMAIN rows : rows[i].tag # tag
         /\ RowOf(tag) # 0 =>
              /\ RowOf(tag) \in DOMAIN rows /\ rows[RowOf(tag)].tag = tag
              /\ \A j \in DOMAIN rows : rows[j].tag = tag => RowOf(tag) <= j
              /\ FirstValue(tag) = rows[RowOf(tag)].value
         /\ RowOf(tag) = 0 => FirstValue(tag) = Empty
<1>1. DOMAIN rows \subseteq Nat /\ \A i \in DOMAIN rows : i # 0
  OBVIOUS
<1>2. CASE \A i \in DOMAIN rows : rows[i].tag # tag
  BY <1>2 DEF RowOf, FirstValue
<1>3. CASE \E i \in DOMAIN rows : rows[i].tag = tag
  <2> DEFINE T == {i \in DOMAIN rows : rows[i].tag = tag}
  <2>1. PICK m \in T : \A k \in T : m <= k
    BY <1>1, <1>3, Least
  <2>2. m \in DOMAIN rows /\ rows[m].tag = tag /\ \A j \in DOMAIN rows : rows[j].tag = tag => m <= j
    BY <2>1
  <2> DEFINE r == CHOOSE i \in DOMAIN rows :
                    rows[i].tag = tag /\ \A j \in DOMAIN rows : rows[j].tag = tag => i <= j
  <2>3. r \in DOMAIN rows /\ rows[r].tag = tag /\ \A j \in DOMAIN rows : rows[j].tag = tag => r <= j
    BY <2>2, Zenon
  <2>4. RowOf(tag) = r
    BY <1>3, Zenon DEF RowOf
  <2> HIDE DEF r, T
  <2>5. RowOf(tag) \in Nat /\ RowOf(tag) # 0
    BY <2>3, <2>4, <1>1
  <2>6. FirstValue(tag) = rows[RowOf(tag)].value
    BY <2>5 DEF FirstValue
  <2> QED  BY <2>3, <2>4, <2>5, <2>6
<1> QED  BY <1>2, <1>3

LEMMA FirstValueType ==
  ASSUME rows \in Seq(Row), NEW tag
  PROVE  FirstValue(tag) \in Value
<1>1. CASE RowOf(tag) = 0
  BY <1>1, RowOfIs, ValueType
<1>2. CASE RowOf(tag) # 0
  <2>1. RowOf(tag) \in DOMAIN rows /\ FirstValue(tag) = rows[RowOf(tag)].value
    BY <1>2, RowOfIs
  <2>2. rows[RowOf(tag)] \in Row
    BY <2>1, ElementOfSeq
  <2> QED  BY <2>1, <2>2 DEF Row
<1> QED  BY <1>1, <1>2

LEMMA ColumnsType ==
  ASSUME ConfType
  PROVE  /\ Columns \in Seq(Tag)
         /\ \A t : Listed(Columns, t) <=> t \in Tag /\ IsPrinted(t) /\ Listed(all, t)
<1> DEFINE S == {t \in Tag : IsPrinted(t)}
<1>1. all \in Seq(Tag) /\ Len(all) \in 0..Len(all) /\ Columns = KeptOf(all, S)[Len(all)]
  BY DEF ConfType, Columns, Kept
<1>2. DOMAIN all = 1..Len(all)
  BY <1>1
<1>3. Columns \in Seq(Tag)
  BY <1>1, KeptType
<1>4. ASSUME NEW t PROVE Listed(Columns, t) <=> t \in S /\ \E j \in 1..Len(all) : all[j] = t
  BY <1>1, KeptElements
<1>5. ASSUME NEW t PROVE t \in S <=> t \in Tag /\ IsPrinted(t)
  OBVIOUS
<1> HIDE DEF S
<1> QED  BY <1>2, <1>3, <1>4, <1>5 DEF Listed

LEMMA CellsType ==
  ASSUME rows \in Seq(Row), NEW tags \in Seq(Tag)
  PROVE  /\ Cells(tags) \in Seq(Value) /\ Len(Cells(tags)) = Len(tags)
         /\ \A i \in DOMAIN tags : Cells(tags)[i] = FirstValue(tags[i])
<1>1. \A i \in DOMAIN tags : FirstValue(tags[i]) \in Value
  BY FirstValueType
<1>2. DOMAIN tags = 1..Len(tags) /\ Len(tags) \in Nat
  OBVIOUS
<1>3. Cells(tags) = [i \in 1..Len(tags) |-> FirstValue(tags[i])]
  BY <1>2 DEF Cells
<1>4. Cells(tags) \in [1..Len(tags) -> Value]
  BY <1>1, <1>2, <1>3
<1>5. Cells(tags) \in Seq(Value)
  BY <1>2, <1>4
<1>6. Len(Cells(tags)) = Len(tags)
  BY <1>2, <1>4
<1> QED  BY <1>2, <1>3, <1>5, <1>6

\* What replace_description_value leaves.
LEMMA ReplacedIs ==
  ASSUME rows \in Seq(Row), File \in Files, NEW tag \in Tag, rows' \in Replaced(tag)
  PROVE  /\ rows' \in Seq(Row)
         /\ Len(rows') >= Len(rows) /\ Len(rows) \in Nat
         /\ \A i \in DOMAIN rows :
              rows'[i].tag = rows[i].tag /\ (rows[i].tag # tag => rows'[i] = rows[i])
         /\ \A i \in DOMAIN rows' : i \notin DOMAIN rows => rows'[i].tag = tag
<1>1. CASE RowOf(tag) = 0
  <2> DEFINE r == [tag |-> tag, value |-> SizeOf(File)]
  <2>1. r \in Row /\ rows' = Append(rows, r) /\ r.tag = tag
    BY <1>1, ValueType DEF Replaced, Row
  <2> HIDE DEF r
  <2> QED  BY <2>1, AppendProperties
<1>2. CASE RowOf(tag) # 0
  <2>1. RowOf(tag) \in DOMAIN rows /\ rows[RowOf(tag)].tag = tag
    BY <1>2, RowOfIs
  <2>2. PICK v \in {SizeOf(File), Junk} : rows' = [rows EXCEPT ![RowOf(tag)].value = v]
    BY <1>2 DEF Replaced
  <2> DEFINE r == [rows[RowOf(tag)] EXCEPT !.value = v]
  <2>3. rows[RowOf(tag)] \in Row /\ v \in Value
    BY <2>1, <2>2, ValueType, ElementOfSeq
  <2>4. r \in Row /\ r.tag = tag
    BY <2>1, <2>3 DEF Row
  <2>5. rows' = [rows EXCEPT ![RowOf(tag)] = r]
    BY <2>2
  <2> HIDE DEF r
  <2>6. rows' \in Seq(Row) /\ Len(rows') = Len(rows)
    BY <2>1, <2>4, <2>5, ExceptSeq
  <2>7. \A i \in DOMAIN rows : rows'[i] = IF i = RowOf(tag) THEN r ELSE rows[i]
    BY <2>5
  <2>8. DOMAIN rows' = DOMAIN rows
    BY <2>5
  <2> QED  BY <2>1, <2>4, <2>6, <2>7, <2>8
<1> QED  BY <1>1, <1>2

LEMMA XmpRowsType ==
  ASSUME rows \in Seq(Row), File \in Files
  PROVE  /\ XmpLast \in Seq(Row) /\ XmpRows \in Seq(Row) /\ Len(XmpRows) = Len(Img.xmp)
         /\ \A i \in DOMAIN Img.xmp : XmpRows[i] = OwnRow(File, Img.xmp[i])
                                      /\ Img.xmp[i] \in Entry
<1>1. Img.xmp \in Seq(Entry)
  BY ImageAssumption DEF Img
<1>2. \A i \in DOMAIN Img.xmp : Img.xmp[i] \in Entry
  BY <1>1, ElementOfSeq
<1>3. \A i \in DOMAIN Img.xmp : OwnRow(File, Img.xmp[i]) \in Row
  BY <1>2, OwnRowType
<1>4. DOMAIN Img.xmp = 1..Len(Img.xmp) /\ Len(Img.xmp) \in Nat
  BY <1>1
<1>5. XmpRows = [i \in 1..Len(Img.xmp) |-> OwnRow(File, Img.xmp[i])]
  BY <1>4 DEF XmpRows
<1>6. XmpRows \in [1..Len(Img.xmp) -> Row]
  BY <1>3, <1>4, <1>5
<1>7. XmpRows \in Seq(Row) /\ Len(XmpRows) = Len(Img.xmp)
  BY <1>4, <1>6
<1>8. XmpLast \in Seq(Row)
  BY <1>7, ConcatProperties DEF XmpLast
<1> QED  BY <1>2, <1>4, <1>5, <1>7, <1>8
LEMMA ShownTypeInit == Init => ShownType
  BY TagAssumption DEF Init, ShownType, ControlInv

LEMMA LeaveType ==
  ASSUME ShownType, Leave
  PROVE  ShownType'
  BY TagAssumption DEF Leave, ShownType, ControlInv

LEMMA AtEntryType ==
  ASSUME ShownType, InDirectory, entry <= Len(Img.dirs[dir].entries)
  PROVE  /\ File \in Files /\ dir \in DOMAIN Img.dirs /\ entry \in DOMAIN Img.dirs[dir].entries
         /\ Img.dirs[dir].entries[entry] \in Entry
<1>1. argv # <<>>
  BY DEF ShownType, ControlInv, InDirectory
<1>2. File \in Files /\ Img.dirs \in Seq(Directory)
  BY <1>1, FileType
<1>3. dir \in DOMAIN Img.dirs
  BY <1>2 DEF ShownType, InDirectory
<1>4. Img.dirs[dir] \in Directory
  BY <1>2, <1>3, ElementOfSeq
<1>5. Img.dirs[dir].entries \in Seq(Entry)
  BY <1>4 DEF Directory
<1>6. entry \in DOMAIN Img.dirs[dir].entries
  BY <1>5 DEF ShownType
<1> QED  BY <1>2, <1>3, <1>5, <1>6, ElementOfSeq

LEMMA ShownTypeStep ==
  ASSUME ConfType, ShownType,
         BeginFile \/ ShowEntry \/ NextDirectory \/ ShowXmp \/ SetWidth \/ SetLength
         \/ NullList \/ PrintRecord
  PROVE  ShownType'
<1> USE DEF ShownType, ControlInv
<1>1. CASE BeginFile
  <2>1. PICK f \in Files : /\ argv' = Append(argv, f)
                           /\ rows' = <<[tag |-> NameTag, value |-> NameOf(f)]>>
    BY <1>1 DEF BeginFile
  <2>2. argv' \in Seq(Files) /\ Len(argv') = Len(argv) + 1
    BY <2>1, AppendProperties
  <2>3. [tag |-> NameTag, value |-> NameOf(f)] \in Row
    BY ValueType DEF Row
  <2>4. rows' \in Seq(Row)
    BY <2>1, <2>3
  <2>5. Len(argv') <= MaxFiles /\ argv' # <<>>
    BY <1>1, <2>2, TagAssumption DEF BeginFile
  <2> QED  BY <1>1, <2>2, <2>4, <2>5 DEF BeginFile
<1>2. CASE ShowEntry
  <2> DEFINE e == Img.dirs[dir].entries[entry]
  <2>1. File \in Files /\ e \in Entry
    BY <1>2, AtEntryType DEF ShowEntry
  <2>2. OwnRow(File, e) \in Row /\ e.n \in Nat
    BY <2>1, OwnRowType DEF Entry
  <2>3. rows' \in {rows, Append(rows, OwnRow(File, e))} /\ orientation' \in {orientation, e.n}
    BY <1>2 DEF ShowEntry
  <2> HIDE DEF e
  <2>4. Append(rows, OwnRow(File, e)) \in Seq(Row)
    BY <2>2, AppendProperties
  <2>5. rows' \in Seq(Row) /\ orientation' \in Nat
    BY <2>2, <2>3, <2>4
  <2> QED  BY <1>2, <2>5 DEF ShowEntry
<1>3. CASE NextDirectory
  BY <1>3 DEF NextDirectory
<1>4. CASE ShowXmp
  <2>1. File \in Files
    BY <1>4, FileType DEF ShowXmp
  <2>2. rows' \in Seq(Row)
    BY <1>4, <2>1, XmpRowsType DEF ShowXmp
  <2> QED  BY <1>4, <2>2 DEF ShowXmp
<1>5. CASE SetWidth
  <2>1. rows' \in Seq(Row)
    BY <1>5, FileType, ReplacedIs, TagAssumption DEF SetWidth
  <2> QED  BY <1>5, <2>1 DEF SetWidth
<1>6. CASE SetLength
  <2>1. rows' \in Seq(Row)
    BY <1>6, FileType, ReplacedIs, TagAssumption DEF SetLength
  <2> QED  BY <1>6, <2>1 DEF SetLength
<1>7. CASE NullList
  BY <1>7 DEF NullList
<1>8. CASE PrintRecord
  <2> DEFINE r == [name |-> FirstValue(NameTag), cells |-> Cells(Columns)]
  <2>1. Columns \in Seq(Tag)
    BY ColumnsType
  <2>2. Cells(Columns) \in Seq(Value) /\ FirstValue(NameTag) \in Value
    BY <2>1, CellsType, FirstValueType
  <2>3. r \in Record
    BY <2>2 DEF Record
  <2>4. out' = Append(out, r)
    BY <1>8 DEF PrintRecord
  <2> HIDE DEF r
  <2>5. out' \in Seq(Record)
    BY <2>3, <2>4, AppendProperties
  <2>6. header' \in {header, <<Columns>>}
    BY <1>8 DEF PrintRecord, HeaderOnce
  <2>7. header' \in Seq(Seq(Tag)) /\ Len(header') <= 1
    <3> DEFINE c == Columns
    <3>1. c \in Seq(Tag)
      BY <2>1
    <3> HIDE DEF c
    <3>2. <<c>> \in Seq(Seq(Tag)) /\ Len(<<c>>) = 1
      BY <3>1
    <3>3. header' = header \/ header' = <<c>>
      BY <2>6 DEF c
    <3>4. CASE header' = header
      BY <3>4
    <3>5. CASE header' = <<c>>
      <4>1. header' \in Seq(Seq(Tag)) /\ Len(header') = 1
        BY <3>2, <3>5, Zenon
      <4> QED  BY <4>1
    <3> QED  BY <3>3, <3>4, <3>5
  <2> QED  BY <1>8, <2>5, <2>7 DEF PrintRecord
<1> QED  BY <1>1, <1>2, <1>3, <1>4, <1>5, <1>6, <1>7, <1>8

LEMMA TypeStep == ConfType /\ ShownType /\ [Next]_vars => (ConfType /\ ShownType)'
<1> SUFFICES ASSUME ConfType, ShownType, [Next]_vars PROVE ConfType' /\ ShownType'
  OBVIOUS
<1>1. UNCHANGED conf => ConfType'
  BY DEF conf, ConfType
<1>2. UNCHANGED shown => ShownType'
  BY DEF shown, ShownType, ControlInv
<1>3. CASE CheckForConfig /\ UNCHANGED shown
  BY <1>3, <1>2, ConfTypeStep
<1>4. CASE BeginFile \/ ShowEntry \/ NextDirectory \/ ShowXmp \/ SetWidth \/ SetLength
           \/ NullList \/ PrintRecord
  <2>1. UNCHANGED conf
    BY <1>4 DEF BeginFile, ShowEntry, NextDirectory, ShowXmp, SetWidth, SetLength, NullList,
                PrintRecord
  <2> QED  BY <1>1, <1>4, <2>1, ShownTypeStep
<1>5. CASE EndRun
  <2>1. ConfType'
    BY <1>5 DEF EndRun, ConfType
  <2> QED  BY <1>5, <2>1, LeaveType DEF EndRun
<1>6. CASE Killed /\ Leave
  BY <1>6, ConfTypeStep, LeaveType
<1>7. CASE (Edit \/ DeleteFile) /\ UNCHANGED shown
  BY <1>7, <1>2, ConfTypeStep
<1>8. CASE UNCHANGED vars
  BY <1>1, <1>2, <1>8 DEF vars
<1> QED  BY <1>3, <1>4, <1>5, <1>6, <1>7, <1>8 DEF Next, Run, Stopped

\* Every variable has its type, for every table, file and image: at most one header
\* line, and every cell a value that the program can have (output_csv, output_js).
THEOREM TypeCorrect == Spec => []TypeOK
<1>1. Init => ConfType /\ ShownType
  BY ConfTypeInit, ShownTypeInit
<1>2. ConfType /\ ShownType => TypeOK
  BY TypeParts
<1> QED  BY <1>1, <1>2, TypeStep, PTL DEF Spec
-----------------------------------------------------------------------------
(* The lists. *)

ListsInv == WriteInv /\ FileInv /\ ReadInv

LEMMA DefaultNamed ==
  ASSUME NEW i \in DOMAIN Table, Table[i].tag \in Defaults
  PROVE  Named(Table[i].name) # {} /\ FirstNamed(Table[i].name) = Table[i].tag
<1>1. i \in Named(Table[i].name)
  BY DEF Named
<1>2. PICK k \in Named(Table[i].name) :
        (\A j \in Named(Table[i].name) : k <= j) /\ FirstNamed(Table[i].name) = Table[k].tag
  BY <1>1, FirstNamedIs
<1>3. k <= i /\ k \in DOMAIN Table /\ Table[k].name = Table[i].name
  BY <1>1, <1>2 DEF Named
<1>4. DOMAIN Table = 1..Len(Table) /\ Len(Table) \in Nat
  BY TableType
<1>5. CASE k = i
  BY <1>1, <1>2, <1>5
<1>6. CASE k # i
  <2>1. k \in 1..i - 1
    BY <1>3, <1>4, <1>6
  <2> QED  BY <1>1, <1>2, <1>3, <2>1, NamesAssumption
<1> QED  BY <1>5, <1>6

LEMMA DefaultSteps ==
  /\ DefaultTags = KeptOf(TableTags, Defaults)[Len(Table)] /\ DefaultTags \in Seq(Tag)
  /\ KeptOf(TableTags, Defaults)[0] = <<>>
  /\ \A i \in DOMAIN Table :
       /\ Table[i].tag \in Defaults =>
            KeptOf(TableTags, Defaults)[i] = Append(KeptOf(TableTags, Defaults)[i - 1], Table[i].tag)
       /\ Table[i].tag \notin Defaults =>
            KeptOf(TableTags, Defaults)[i] = KeptOf(TableTags, Defaults)[i - 1]
<1>1. DOMAIN Table = 1..Len(Table) /\ Len(Table) \in 0..Len(Table)
  BY TableType
<1>2. DefaultTags = KeptOf(TableTags, Defaults)[Len(Table)]
  BY TableType DEF DefaultTags, Kept
<1>3. DefaultTags \in Seq(Tag)
  BY <1>1, <1>2, TableType, KeptType
<1>4. KeptOf(TableTags, Defaults)[0] = <<>>
  BY TableType, KeptSteps
<1>5. ASSUME NEW i \in DOMAIN Table
      PROVE  /\ Table[i].tag \in Defaults =>
                  KeptOf(TableTags, Defaults)[i] = Append(KeptOf(TableTags, Defaults)[i - 1], Table[i].tag)
             /\ Table[i].tag \notin Defaults =>
                  KeptOf(TableTags, Defaults)[i] = KeptOf(TableTags, Defaults)[i - 1]
  <2>1. i \in 1..Len(TableTags) /\ TableTags[i] = Table[i].tag /\ TableTags \in Seq(Tag)
    BY <1>1, TableType
  <2> DEFINE K == KeptOf(TableTags, Defaults)
  <2>2. /\ TableTags[i] \in Defaults => K[i] = Append(K[i - 1], TableTags[i])
        /\ TableTags[i] \notin Defaults => K[i] = K[i - 1]
    BY <2>1, KeptSteps
  <2> HIDE DEF K
  <2>3. /\ Table[i].tag \in Defaults => K[i] = Append(K[i - 1], Table[i].tag)
        /\ Table[i].tag \notin Defaults => K[i] = K[i - 1]
    BY <2>1, <2>2
  <2> QED  BY <2>3 DEF K
<1> QED  BY <1>2, <1>3, <1>4, <1>5

\* One more line, for one more tag.
LEMMA StandsMore ==
  ASSUME NEW text \in Seq(Line), NEW tags \in Seq(Tag), StandsFor(text, tags),
         NEW line \in Line, NEW t \in Tag, Yes(line, t)
  PROVE  StandsFor(Append(text, line), Append(tags, t))
<1>1. PICK n \in Nat : n = Len(tags) /\ n = Len(text)
  BY DEF StandsFor
<1>2. /\ Len(Append(text, line)) = n + 1 /\ Append(text, line)[n + 1] = line
      /\ \A i \in 1..n : Append(text, line)[i] = text[i]
  BY <1>1, AppendProperties
<1>3. /\ Len(Append(tags, t)) = n + 1 /\ Append(tags, t)[n + 1] = t
      /\ \A i \in 1..n : Append(tags, t)[i] = tags[i]
      /\ DOMAIN Append(tags, t) = 1..n + 1 /\ DOMAIN tags = 1..n
  <2>0. /\ Len(Append(tags, t)) = Len(tags) + 1 /\ Append(tags, t)[Len(tags) + 1] = t
        /\ Append(tags, t) \in Seq(Tag)
        /\ \A i \in 1..Len(tags) : Append(tags, t)[i] = tags[i]
    BY AppendProperties
  <2>1. /\ Len(Append(tags, t)) = n + 1 /\ Append(tags, t)[n + 1] = t
        /\ Append(tags, t) \in Seq(Tag)
        /\ \A i \in 1..n : Append(tags, t)[i] = tags[i]
    BY <1>1, <2>0, Zenon
  <2>2. DOMAIN Append(tags, t) = 1..n + 1 /\ DOMAIN tags = 1..n
    BY <1>1, <2>1
  <2> QED  BY <2>1, <2>2
<1> DEFINE a == Append(text, line)
           b == Append(tags, t)
<1>4. ASSUME NEW k \in 1..n + 1
      PROVE  a[k].yes /\ Named(a[k].name) # {} /\ FirstNamed(a[k].name) = b[k]
  <2>1. CASE k = n + 1
    BY <1>2, <1>3, <2>1 DEF Yes
  <2>2. CASE k # n + 1
    <3>1. k \in 1..n
      BY <2>2
    <3>2. a[k] = text[k] /\ b[k] = tags[k]
      BY <3>1, <1>2, <1>3
    <3>3. text[k].yes /\ Named(text[k].name) # {} /\ FirstNamed(text[k].name) = tags[k]
      BY <3>1, <1>3 DEF StandsFor
    <3> QED  BY <3>2, <3>3
  <2> QED  BY <2>1, <2>2
<1> QED  BY <1>2, <1>3, <1>4 DEF StandsFor

LEMMA ListedMore ==
  ASSUME NEW tags \in Seq(Tag), NEW t \in Tag, NEW x
  PROVE  Listed(Append(tags, t), x) <=> Listed(tags, x) \/ t = x
<1>1. PICK n \in Nat : n = Len(tags)
  OBVIOUS
<1>2. /\ DOMAIN tags = 1..n /\ DOMAIN Append(tags, t) = 1..n + 1
      /\ \A i \in 1..n : Append(tags, t)[i] = tags[i]
      /\ Append(tags, t)[n + 1] = t
  BY <1>1, AppendProperties
<1> QED  BY <1>1, <1>2 DEF Listed

LEMMA ListsInit == Init => ListsInv
  BY DEF Init, ConfigInit, ListsInv, WriteInv, FileInv, ReadInv

LEMMA WriteStep ==
  ASSUME ConfType, ListsInv, WriteTag
  PROVE  WriteInv'
<1> DEFINE K == KeptOf(TableTags, Defaults)
<1>1. /\ phase = "write" /\ phase' = "write" /\ at \in Nat /\ at \in DOMAIN Table
      /\ at' = at + 1 /\ at' <= Len(Table) + 1
      /\ wanted = K[at - 1] /\ all = wanted /\ StandsFor(stream, wanted)
      /\ stream \in Seq(Line) /\ wanted \in Seq(Tag)
  BY TableType DEF WriteTag, ListsInv, WriteInv, ConfType
<1>2. at' - 1 = at
  BY <1>1
<1>3. CASE Table[at].tag \notin Defaults
  <2>1. K[at] = K[at - 1]
    BY <1>1, <1>3, DefaultSteps
  <2>2. UNCHANGED <<stream, wanted, all>>
    BY <1>3 DEF WriteTag
  <2> HIDE DEF K
  <2>3. wanted' = K[at' - 1] /\ all' = wanted' /\ StandsFor(stream', wanted')
    BY <1>1, <1>2, <2>1, <2>2
  <2> QED  BY <1>1, <2>3 DEF WriteInv, K
<1>4. CASE Table[at].tag \in Defaults
  <2> DEFINE l == DefaultLine(at)
             t == Table[at].tag
  <2>1. K[at] = Append(K[at - 1], t)
    BY <1>1, <1>4, DefaultSteps
  <2>2. Yes(l, t) /\ l \in Line /\ t \in Tag
    BY <1>1, <1>4, DefaultNamed, TableType DEF Yes, DefaultLine, Line
  <2>3. /\ stream' = Append(stream, l) /\ wanted' = Append(wanted, t)
        /\ all' = Append(all, t)
    BY <1>4, <2>2 DEF WriteTag, StoreTag, StoreAllTags, Yes
  <2>4. StandsFor(Append(stream, l), Append(wanted, t))
    BY <1>1, <2>2, StandsMore
  <2> HIDE DEF l, t, K
  <2>5. wanted' = K[at' - 1] /\ all' = wanted' /\ StandsFor(stream', wanted')
    BY <1>1, <1>2, <2>1, <2>3, <2>4
  <2> QED  BY <1>1, <2>5 DEF WriteInv, K
<1> QED  BY <1>3, <1>4

LEMMA ReadStep ==
  ASSUME ConfType, ListsInv, ReadLine
  PROVE  ReadInv'
<1> DEFINE l == lines[at]
           name == l.name
           t == FirstNamed(name)
           D == DefaultTags
<1>1. /\ phase = "read" /\ phase' = "read" /\ exists /\ at \in Nat \ {0} /\ Len(lines) \in Nat
      /\ at <= Len(lines) /\ at' = at + 1 /\ lines' = lines /\ edits' = edits /\ lost' = lost
      /\ wanted \in Seq(Tag) /\ all \in Seq(Tag)
  BY DEF ReadLine, ListsInv, FileInv, ConfType
<1>2. \A x \in Tag : Listed(wanted, x) <=> \E i \in 1..at - 1 : Yes(lines[i], x)
  BY <1>1 DEF ListsInv, ReadInv
<1>3. \A x \in Tag : Listed(wanted, x) => Listed(all, x)
  BY <1>1 DEF ListsInv, ReadInv
<1>4. \A x \in Tag : (\E i \in 1..at' - 1 : Yes(lines[i], x)) <=>
                       (\E i \in 1..at - 1 : Yes(lines[i], x)) \/ Yes(l, x)
  BY <1>1
<1>5. CASE Named(name) # {} /\ l.yes
  <2>1. t \in Tag
    BY <1>5, FirstNamedIs
  <2>2. wanted' = Append(wanted, t) /\ all' = Append(all, t)
    BY <1>5 DEF ReadLine, StoreTag, StoreAllTags
  <2>3. \A x : Yes(l, x) <=> t = x
    BY <1>5 DEF Yes
  <2>4. \A x : (Listed(wanted', x) <=> Listed(wanted, x) \/ t = x)
               /\ (Listed(all', x) <=> Listed(all, x) \/ t = x)
    BY <1>1, <2>1, <2>2, ListedMore
  <2>5. Undisturbed => wanted' = SubSeq(D, 1, at) /\ all' = wanted'
    <3> SUFFICES ASSUME Undisturbed PROVE wanted' = SubSeq(D, 1, at) /\ all' = wanted'
      OBVIOUS
    <3>1. StandsFor(lines, D) /\ wanted = SubSeq(D, 1, at - 1) /\ all = wanted
      BY <1>1 DEF ListsInv, FileInv, ReadInv
    <3>2. D \in Seq(Tag)
      BY DefaultSteps
    <3>3. at \in 1..Len(D) /\ at \in DOMAIN D
      BY <1>1, <3>1, <3>2 DEF StandsFor
    <3>4. t = D[at]
      BY <3>1, <3>3 DEF StandsFor
    <3> HIDE DEF D, t
    <3>5. SubSeq(D, 1, at) = Append(SubSeq(D, 1, at - 1), D[at])
      BY <3>2, <3>3
    <3> QED  BY <2>2, <3>1, <3>4, <3>5
  <2> HIDE DEF l, name, t, D
  <2>6. \A x \in Tag : Listed(wanted', x) <=> \E i \in 1..at' - 1 : Yes(lines[i], x)
    BY <1>2, <1>4, <2>3, <2>4
  <2>7. \A x \in Tag : Listed(wanted', x) => Listed(all', x)
    BY <1>3, <2>4
  <2>8. at' - 1 = at
    BY <1>1
  <2> QED  BY <1>1, <2>5, <2>6, <2>7, <2>8 DEF ReadInv, Undisturbed, D
<1>6. CASE ~(Named(name) # {} /\ l.yes)
  <2>1. wanted' = wanted /\ (Named(name) = {} => all' = all)
        /\ (Named(name) # {} => all' = Append(all, t))
    BY <1>6 DEF ReadLine, StoreTag, StoreAllTags
  <2>2. \A x : ~Yes(l, x)
    BY <1>6 DEF Yes
  <2>3. \A x : Listed(all, x) => Listed(all', x)
    <3>1. CASE Named(name) = {}
      BY <2>1, <3>1
    <3>2. CASE Named(name) # {}
      <4>1. t \in Tag
        BY <3>2, FirstNamedIs
      <4>2. all' = Append(all, t) /\ all \in Seq(Tag)
        BY <1>1, <2>1, <3>2
      <4> HIDE DEF t
      <4>3. \A x : Listed(Append(all, t), x) <=> Listed(all, x) \/ t = x
        BY <4>1, <4>2, ListedMore
      <4> QED  BY <4>2, <4>3
    <3> QED  BY <3>1, <3>2
  <2>4. ~Undisturbed
    <3> SUFFICES ASSUME Undisturbed PROVE FALSE
      OBVIOUS
    <3>1. StandsFor(lines, D) /\ D \in Seq(Tag)
      BY <1>1, DefaultSteps DEF ListsInv, FileInv
    <3>2. at \in DOMAIN D
      BY <1>1, <3>1 DEF StandsFor
    <3> QED  BY <1>6, <3>1, <3>2 DEF StandsFor
  <2> HIDE DEF l, name, t
  <2>5. \A x \in Tag : Listed(wanted', x) <=> \E i \in 1..at' - 1 : Yes(lines[i], x)
    BY <1>2, <1>4, <2>1, <2>2
  <2>6. \A x \in Tag : Listed(wanted', x) => Listed(all', x)
    BY <1>3, <2>1, <2>3
  <2>7. ~Undisturbed'
    BY <1>1, <2>4 DEF Undisturbed
  <2> QED  BY <1>1, <2>5, <2>6, <2>7 DEF ReadInv
<1> QED  BY <1>5, <1>6
LEMMA ListsStep == ConfType /\ ListsInv /\ [Next]_vars => ListsInv'
<1> SUFFICES ASSUME ConfType, ListsInv, [Next]_vars PROVE ListsInv'
  OBVIOUS
<1>1. ASSUME UNCHANGED <<exists, lines, stream, at, wanted, all, edits, lost>>,
             phase' = phase \/ phase' = "off"
      PROVE  ListsInv' \/ phase = "write"
  BY <1>1 DEF ListsInv, WriteInv, FileInv, ReadInv, Undisturbed
<1>2. UNCHANGED conf => ListsInv'
  BY DEF conf, ListsInv, WriteInv, FileInv, ReadInv, Undisturbed
<1>3. ASSUME NEW p, Start(p)
      PROVE  /\ at' = 1 /\ wanted' = <<>> /\ all' = <<>> /\ stream' = <<>>
             /\ phase' = p /\ phase = "off"
  BY <1>3 DEF Start
<1>4. CASE NotCreated
  <2>1. phase' = "off" /\ exists' = exists /\ ~exists
    BY <1>4, <1>3 DEF NotCreated
  <2> QED  BY <2>1 DEF ListsInv, WriteInv, FileInv, ReadInv
<1>5. CASE Create
  <2>1. phase' = "write" /\ exists' /\ at' = 1 /\ wanted' = <<>> /\ all' = <<>> /\ stream' = <<>>
    BY <1>5, <1>3 DEF Create
  <2>2. KeptOf(TableTags, Defaults)[0] = <<>> /\ Len(Table) \in Nat
    BY DefaultSteps, TableType
  <2>3. StandsFor(<<>>, <<>>)
    BY DEF StandsFor
  <2>4. StandsFor(stream', wanted')
    BY <2>1, <2>3, Zenon
  <2>5. WriteInv'
    <3>1. at' - 1 = 0
      BY <2>1
    <3> QED  BY <2>1, <2>2, <2>4, <3>1 DEF WriteInv
  <2> QED  BY <2>1, <2>5 DEF ListsInv, FileInv, ReadInv
<1>6. CASE WriteTag
  <2>1. phase = "write" /\ phase' = "write" /\ exists' = exists
    BY <1>6 DEF WriteTag
  <2> QED  BY <1>6, <2>1, WriteStep DEF ListsInv, FileInv, ReadInv
<1>7. CASE WriteFails
  <2>1. phase = "write" /\ phase' = "made" /\ exists' = exists /\ lost'
    BY <1>7 DEF WriteFails
  <2> QED  BY <2>1 DEF ListsInv, FileInv, ReadInv, WriteInv, Undisturbed
<1>8. CASE CloseFile
  <2>1. /\ phase = "write" /\ phase' = "made" /\ exists' = exists
        /\ lines' = stream \/ lost'
        /\ wanted' = wanted /\ all' = all
    BY <1>8 DEF CloseFile
  <2>2. at = Len(Table) + 1 /\ Len(Table) \in Nat
    BY <1>8, TableType DEF CloseFile, ListsInv, WriteInv, ConfType
  <2>3. wanted = DefaultTags /\ all = DefaultTags /\ StandsFor(stream, DefaultTags)
    BY <2>1, <2>2, DefaultSteps DEF ListsInv, WriteInv
  <2>4. Undisturbed' => StandsFor(lines', DefaultTags)
    BY <2>1, <2>3 DEF Undisturbed
  <2>5. exists'
    BY <2>1 DEF ListsInv, FileInv
  <2> QED  BY <2>1, <2>3, <2>4, <2>5 DEF ListsInv, FileInv, ReadInv, WriteInv
<1>9. CASE NotOpened
  <2>1. phase = "off" /\ phase' = "unread" /\ exists'
        /\ UNCHANGED <<lines, edits, lost, exists>>
    BY <1>9, <1>3 DEF NotOpened
  <2> QED  BY <2>1 DEF ListsInv, FileInv, ReadInv, WriteInv, Undisturbed
<1>10. CASE OpenFile
  <2>1. /\ phase = "off" /\ phase' = "read" /\ exists' /\ at' = 1
        /\ wanted' = <<>> /\ all' = <<>> /\ UNCHANGED <<lines, edits, lost, exists>>
    BY <1>10, <1>3 DEF OpenFile
  <2>2. FileInv' /\ WriteInv'
    BY <2>1 DEF ListsInv, FileInv, WriteInv, Undisturbed
  <2>3. DefaultTags \in Seq(Tag) /\ Len(lines) \in Nat
    BY DefaultSteps DEF ConfType
  <2>4. SubSeq(DefaultTags, 1, 0) = <<>>
    BY <2>3
  <2>5. \A t : ~Listed(<<>>, t)
    BY DEF Listed
  <2>6. \A t : ~Listed(wanted', t)
    BY <2>1, <2>5, Zenon
  <2>7. at' - 1 = 0
    BY <2>1
  <2> QED  BY <2>1, <2>2, <2>3, <2>4, <2>6, <2>7 DEF ListsInv, ReadInv
<1>11. CASE ReadLine
  <2>1. phase = "read" /\ phase' = "read" /\ UNCHANGED <<exists, lines, edits, lost>>
    BY <1>11 DEF ReadLine
  <2> QED  BY <1>11, <2>1, ReadStep DEF ListsInv, FileInv, WriteInv, Undisturbed
<1>12. CASE EndOfLines
  BY <1>12 DEF EndOfLines, ListsInv, FileInv, ReadInv, WriteInv, Undisturbed
<1>13. CASE Killed
  <2>1. /\ phase # "off" /\ phase' = "off" /\ exists' = exists /\ edits' = edits
        /\ phase = "write" => lost'
        /\ phase # "write" => lines' = lines /\ lost' = lost
    BY <1>13, Zenon DEF Killed
  <2> QED  BY <2>1 DEF ListsInv, FileInv, ReadInv, WriteInv, Undisturbed
<1>14. CASE Edit
  <2>1. phase = "off" /\ phase' = "off" /\ edits' # 0
    BY <1>14 DEF Edit, ConfType
  <2> QED  BY <2>1 DEF ListsInv, FileInv, ReadInv, WriteInv, Undisturbed
<1>15. CASE DeleteFile
  BY <1>15 DEF DeleteFile, ListsInv, FileInv, ReadInv, WriteInv
<1>16. CASE EndRun
  <2>1. phase # "write" /\ phase' = "off"
        /\ UNCHANGED <<exists, lines, stream, at, wanted, all, edits, lost>>
    BY <1>16 DEF EndRun, Ready
  <2> QED  BY <1>1, <2>1
<1>17. CASE BeginFile \/ ShowEntry \/ NextDirectory \/ ShowXmp \/ SetWidth \/ SetLength
            \/ NullList \/ PrintRecord
  <2>1. UNCHANGED conf
    BY <1>17 DEF BeginFile, ShowEntry, NextDirectory, ShowXmp, SetWidth, SetLength, NullList,
                 PrintRecord
  <2> QED  BY <1>2, <2>1
<1>18. CASE UNCHANGED vars
  BY <1>2, <1>18 DEF vars
<1> QED
  BY <1>4, <1>5, <1>6, <1>7, <1>8, <1>9, <1>10, <1>11, <1>12, <1>13, <1>14, <1>15, <1>16,
     <1>17, <1>18 DEF Next, Run, CheckForConfig, Stopped

\* While nobody edits d70reader.conf and all of it reached the disk, the run that
\* wrote it and every run that reads it list the default tags, in the order of the
\* table: the names that are written lead back to their own tags (check_for_config,
\* store_tags, store_all_tags), wherever a name stands in the table twice.
THEOREM DefaultsCorrect == Spec => []DefaultsReadBack
<1>1. Init => ConfType /\ ListsInv
  BY ConfTypeInit, ListsInit
<1>2. ConfType /\ ListsInv => DefaultsReadBack
  <2> SUFFICES ASSUME ConfType, ListsInv, phase \in {"ready", "made"}, Undisturbed
               PROVE  wanted = DefaultTags /\ all = DefaultTags
    BY DEF DefaultsReadBack, Undisturbed
  <2>1. CASE phase = "made"
    BY <2>1 DEF ListsInv, FileInv
  <2>2. CASE phase = "ready"
    <3>1. /\ StandsFor(lines, DefaultTags) /\ at = Len(lines) + 1 /\ Len(lines) \in Nat
          /\ wanted = SubSeq(DefaultTags, 1, at - 1) /\ all = wanted
      BY <2>2 DEF ListsInv, FileInv, ReadInv, ConfType
    <3>2. at - 1 = Len(DefaultTags) /\ DefaultTags \in Seq(Tag)
      BY <3>1, DefaultSteps DEF StandsFor
    <3>3. SubSeq(DefaultTags, 1, Len(DefaultTags)) = DefaultTags
      BY <3>2
    <3> QED  BY <3>1, <3>2, <3>3
  <2> QED  BY <2>1, <2>2
<1>3. ConfType /\ ListsInv /\ ShownType /\ [Next]_vars => (ConfType /\ ListsInv /\ ShownType)'
  BY TypeStep, ListsStep
<1> QED  BY <1>1, <1>2, <1>3, ShownTypeInit, PTL DEF Spec

\* A run that read d70reader.conf prints a column for a tag exactly when a line of
\* it says yes to the tag, however the file was edited, torn or written before
\* (store_tags, is_tag_printed, output_csv).
THEOREM ColumnsCorrect == Spec => []ColumnsAsConfigured
<1>1. Init => ConfType /\ ListsInv
  BY ConfTypeInit, ListsInit
<1>2. ConfType /\ ListsInv => ColumnsAsConfigured
  <2> SUFFICES ASSUME ConfType, ListsInv, phase = "ready", NEW t \in Tag
               PROVE  Listed(Columns, t) <=> \E i \in DOMAIN lines : Yes(lines[i], t)
    BY Zenon DEF ColumnsAsConfigured, Listed, Yes
  <2>1. at = Len(lines) + 1 /\ Len(lines) \in Nat /\ DOMAIN lines = 1..Len(lines)
    BY DEF ListsInv, ReadInv, ConfType
  <2>2. at - 1 = Len(lines)
    BY <2>1
  <2>3. Listed(wanted, t) <=> \E i \in DOMAIN lines : Yes(lines[i], t)
    BY <2>1, <2>2 DEF ListsInv, ReadInv
  <2>4. Listed(wanted, t) => Listed(all, t)
    BY DEF ListsInv, ReadInv
  <2>5. Listed(Columns, t) <=> IsPrinted(t) /\ Listed(all, t)
    BY ColumnsType
  <2>6. IsPrinted(t) <=> Listed(wanted, t)
    BY DEF IsPrinted, Listed
  <2> QED  BY <2>3, <2>4, <2>5, <2>6
<1>3. ConfType /\ ListsInv /\ ShownType /\ [Next]_vars => (ConfType /\ ListsInv /\ ShownType)'
  BY TypeStep, ListsStep
<1> QED  BY <1>1, <1>2, <1>3, ShownTypeInit, PTL DEF Spec
-----------------------------------------------------------------------------
(* Cells.  First, what becomes of the first row of a tag. *)

LEMMA FirstIsValue ==
  ASSUME rows \in Seq(Row), NEW t
  PROVE  /\ \A k \in DOMAIN rows : FirstRow(rows, t, k) => FirstValue(t) = rows[k].value
         /\ NoRow(rows, t) => FirstValue(t) = Empty
<1>1. NoRow(rows, t) => FirstValue(t) = Empty
  BY RowOfIs DEF NoRow
<1>2. ASSUME NEW k \in DOMAIN rows, FirstRow(rows, t, k)
      PROVE  FirstValue(t) = rows[k].value
  <2>1. /\ RowOf(t) \in DOMAIN rows /\ rows[RowOf(t)].tag = t
        /\ RowOf(t) <= k /\ FirstValue(t) = rows[RowOf(t)].value
    BY <1>2, RowOfIs DEF FirstRow
  <2>2. k \in Nat /\ RowOf(t) \in Nat /\ RowOf(t) >= 1
    BY <2>1
  <2>3. RowOf(t) \notin 1..k - 1
    BY <1>2, <2>1 DEF FirstRow
  <2>4. RowOf(t) = k
    BY <2>1, <2>2, <2>3
  <2> QED  BY <2>1, <2>4
<1> QED  BY <1>1, <1>2

LEMMA OneMore ==
  ASSUME NEW rs \in Seq(Row), NEW r \in Row, NEW t
  PROVE  /\ \A k \in DOMAIN rs : FirstRow(rs, t, k) =>
              FirstRow(Append(rs, r), t, k) /\ Append(rs, r)[k] = rs[k]
         /\ NoRow(rs, t) /\ r.tag # t => NoRow(Append(rs, r), t)
         /\ NoRow(rs, t) /\ r.tag = t =>
              \E k \in DOMAIN Append(rs, r) :
                FirstRow(Append(rs, r), t, k) /\ Append(rs, r)[k] = r
<1> DEFINE a == Append(rs, r)
<1>1. PICK n \in Nat : n = Len(rs)
  OBVIOUS
<1>2. a \in Seq(Row) /\ Len(a) = n + 1 /\ a[n + 1] = r /\ \A i \in 1..n : a[i] = rs[i]
  BY <1>1, AppendProperties
<1> HIDE DEF a
<1>3. DOMAIN a = 1..n + 1 /\ DOMAIN rs = 1..n
  BY <1>1, <1>2
<1>4. ASSUME NEW k \in DOMAIN rs, FirstRow(rs, t, k)
      PROVE  FirstRow(a, t, k) /\ a[k] = rs[k]
  BY <1>2, <1>3, <1>4 DEF FirstRow
<1>5. NoRow(rs, t) /\ r.tag # t => NoRow(a, t)
  BY <1>2, <1>3 DEF NoRow
<1>6. NoRow(rs, t) /\ r.tag = t => FirstRow(a, t, n + 1)
  BY <1>2, <1>3 DEF NoRow, FirstRow
<1> QED  BY <1>2, <1>3, <1>4, <1>5, <1>6 DEF a

LEMMA MoreRows ==
  ASSUME NEW rs \in Seq(Row), NEW qs \in Seq(Row), NEW t
  PROVE  /\ \A k \in DOMAIN rs : FirstRow(rs, t, k) =>
              k \in DOMAIN (rs \o qs) /\ FirstRow(rs \o qs, t, k) /\ (rs \o qs)[k] = rs[k]
         /\ NoRow(rs, t) /\ NoRow(qs, t) => NoRow(rs \o qs, t)
         /\ NoRow(rs, t) => \A i \in DOMAIN qs : FirstRow(qs, t, i) =>
              \E k \in DOMAIN (rs \o qs) :
                FirstRow(rs \o qs, t, k) /\ (rs \o qs)[k] = qs[i]
<1> DEFINE a == rs \o qs
<1>1. PICK n \in Nat : n = Len(rs)
  OBVIOUS
<1>2. PICK m \in Nat : m = Len(qs)
  OBVIOUS
<1>3. /\ a \in Seq(Row) /\ Len(a) = n + m
      /\ \A i \in 1..n + m : a[i] = IF i <= n THEN rs[i] ELSE qs[i - n]
  BY <1>1, <1>2, ConcatProperties
<1> HIDE DEF a
<1>4. DOMAIN a = 1..n + m /\ DOMAIN rs = 1..n /\ DOMAIN qs = 1..m
  BY <1>1, <1>2, <1>3
<1>5. \A i \in 1..n : i \in DOMAIN a /\ a[i] = rs[i]
  BY <1>3, <1>4
<1>6. \A i \in 1..m : n + i \in DOMAIN a /\ a[n + i] = qs[i]
  <2> TAKE i \in 1..m
  <2>1. n + i \in 1..n + m /\ ~(n + i <= n) /\ (n + i) - n = i
    OBVIOUS
  <2> QED  BY <1>3, <1>4, <2>1
<1>7. \A i \in DOMAIN a : i \in 1..n \/ (i - n \in 1..m /\ a[i] = qs[i - n])
  BY <1>3, <1>4
<1>8. ASSUME NEW k \in DOMAIN rs, FirstRow(rs, t, k)
      PROVE  k \in DOMAIN a /\ FirstRow(a, t, k) /\ a[k] = rs[k]
  <2>1. \A j \in 1..k - 1 : j \in 1..n
    BY <1>4
  <2> QED  BY <1>4, <1>5, <1>8, <2>1 DEF FirstRow
<1>9. NoRow(rs, t) /\ NoRow(qs, t) => NoRow(a, t)
  BY <1>4, <1>5, <1>7 DEF NoRow
<1>10. ASSUME NoRow(rs, t), NEW i \in DOMAIN qs, FirstRow(qs, t, i)
       PROVE  FirstRow(a, t, n + i) /\ a[n + i] = qs[i] /\ n + i \in DOMAIN a
  <2>1. n + i \in DOMAIN a /\ a[n + i] = qs[i] /\ qs[i].tag = t
    BY <1>4, <1>6, <1>10 DEF FirstRow
  <2>2. ASSUME NEW j \in 1..n + i - 1 PROVE a[j].tag # t
    <3>1. CASE j \in 1..n
      BY <1>4, <1>5, <1>10, <3>1 DEF NoRow
    <3>2. CASE j \notin 1..n
      <4>1. j - n \in 1..i - 1 /\ j \in DOMAIN a
        BY <1>4, <3>2
      <4>2. a[j] = qs[j - n]
        BY <1>7, <3>2, <4>1
      <4> QED  BY <1>10, <4>1, <4>2 DEF FirstRow
    <3> QED  BY <3>1, <3>2
  <2> QED  BY <2>1, <2>2 DEF FirstRow
<1> QED  BY <1>8, <1>9, <1>10 DEF a

\* Another tag keeps its first row when a size is put in place of a value.
LEMMA OthersKept ==
  ASSUME rows \in Seq(Row), File \in Files, NEW tag \in Tag, rows' \in Replaced(tag),
         NEW t, t # tag
  PROVE  /\ NoRow(rows, t) => NoRow(rows', t)
         /\ \A k \in DOMAIN rows : FirstRow(rows, t, k) =>
              k \in DOMAIN rows' /\ FirstRow(rows', t, k) /\ rows'[k] = rows[k]
<1>1. /\ rows' \in Seq(Row) /\ Len(rows') >= Len(rows) /\ Len(rows) \in Nat
      /\ \A i \in DOMAIN rows :
           rows'[i].tag = rows[i].tag /\ (rows[i].tag # tag => rows'[i] = rows[i])
      /\ \A i \in DOMAIN rows' : i \notin DOMAIN rows => rows'[i].tag = tag
  BY ReplacedIs
<1>2. DOMAIN rows = 1..Len(rows) /\ DOMAIN rows' = 1..Len(rows') /\ Len(rows') \in Nat
  BY <1>1
<1>3. DOMAIN rows \subseteq DOMAIN rows'
  BY <1>1, <1>2
<1>4. NoRow(rows, t) => NoRow(rows', t)
  BY <1>1 DEF NoRow
<1>5. ASSUME NEW k \in DOMAIN rows, FirstRow(rows, t, k)
      PROVE  k \in DOMAIN rows' /\ FirstRow(rows', t, k) /\ rows'[k] = rows[k]
  <2>1. \A j \in 1..k - 1 : j \in DOMAIN rows
    BY <1>2
  <2> QED  BY <1>1, <1>3, <1>5, <2>1 DEF FirstRow
<1> QED  BY <1>4, <1>5

\* The numbers of directories and entries.
LEMMA PositionType ==
  ASSUME NEW f \in Files
  PROVE  /\ Len(Image[f].dirs) \in Nat /\ DOMAIN Image[f].dirs = 1..Len(Image[f].dirs)
         /\ \A d \in DOMAIN Image[f].dirs :
              /\ d \in Nat /\ Len(EntriesOf(f, d)) \in Nat
              /\ DOMAIN EntriesOf(f, d) = 1..Len(EntriesOf(f, d))
              /\ \A i \in DOMAIN EntriesOf(f, d) : i \in Nat
<1>1. Image[f].dirs \in Seq(Directory)
  BY ImageAssumption
<1>2. ASSUME NEW d \in DOMAIN Image[f].dirs
      PROVE  EntriesOf(f, d) \in Seq(Entry)
  <2>1. Image[f].dirs[d] \in Directory
    BY <1>1, ElementOfSeq
  <2> QED  BY <2>1 DEF Directory, EntriesOf
<1> QED  BY <1>1, <1>2

LEMMA SaidKept ==
  ASSUME NEW rs, NEW qs, NEW f, NEW t, SaidByRow(rs, f, t),
         \A k \in DOMAIN rs : FirstRow(rs, t, k) =>
           k \in DOMAIN qs /\ FirstRow(qs, t, k) /\ qs[k] = rs[k]
  PROVE  SaidByRow(qs, f, t)
<1>1. PICK k \in DOMAIN rs :
        /\ FirstRow(rs, t, k)
        /\ \E d \in DOMAIN Image[f].dirs : \E i \in DOMAIN EntriesOf(f, d) :
             FirstInDirs(f, t, d, i) /\ rs[k].value = ValueIn(f, EntriesOf(f, d)[i])
  BY DEF SaidByRow
<1>2. k \in DOMAIN qs /\ FirstRow(qs, t, k) /\ qs[k] = rs[k]
  BY <1>1
<1> QED  BY <1>1, <1>2, Zenon DEF SaidByRow

LEMMA ShowStep ==
  ASSUME ConfType, ShownType, RowInv, ShowEntry
  PROVE  RowInv'
<1> DEFINE f == File
           e == EntriesOf(f, dir)[entry]
           r == OwnRow(f, e)
           type == Image[f].dirs[dir].type
<1>1. /\ step = "dirs" /\ dir <= Len(Img.dirs) /\ entry \in Nat
      /\ UNCHANGED <<conf, argv, step, dir>> /\ entry' = entry + 1
  BY DEF ShowEntry, InDirectory, ShownType
<1>2. /\ f \in Files /\ dir \in DOMAIN Image[f].dirs /\ entry \in DOMAIN EntriesOf(f, dir)
      /\ e \in Entry
  BY AtEntryType DEF ShowEntry, Img, EntriesOf
<1>3. /\ r \in Row /\ r.tag = e.tag /\ r.value = ValueIn(f, e) /\ e.tag \in Tag
  BY <1>2, OwnRowType DEF Entry
<1>4. rows \in Seq(Row)
  BY DEF ShownType
<1>5. f' = f /\ Img' = Img /\ Img = Image[f]
  BY <1>1 DEF File, Img
<1>6. /\ Displayed(type, e) => /\ rows' = Append(rows, r)
                               /\ orientation' = IF e.tag = Orientation THEN e.n ELSE orientation
      /\ ~Displayed(type, e) => rows' = rows /\ orientation' = orientation
  BY <1>5, Zenon DEF ShowEntry, EntriesOf
<1>7. orientation # 0 => ~NoRow(rows, Orientation)
  BY <1>1 DEF RowInv
<1>8. \A t : IsPrinted(t)' <=> IsPrinted(t)
  BY <1>1 DEF IsPrinted, conf
<1>9. ASSUME NEW t \in Tag, IsPrinted(t)
      PROVE  (NoRow(rows, t) /\ NoneBefore(f, t, dir, entry)) \/ SaidByRow(rows, f, t)
  BY <1>1, <1>9 DEF RowInv
<1> HIDE DEF f, e, r, type
<1>10. ASSUME NEW t
       PROVE  \A k \in DOMAIN rows : FirstRow(rows, t, k) =>
                k \in DOMAIN rows' /\ FirstRow(rows', t, k) /\ rows'[k] = rows[k]
  <2>1. CASE Displayed(type, e)
    BY <1>3, <1>4, <1>6, <2>1, OneMore DEF FirstRow
  <2>2. CASE ~Displayed(type, e)
    BY <1>6, <2>2
  <2> QED  BY <2>1, <2>2
<1>11. ASSUME NEW t, NoneBefore(f, t, dir, entry), ~Shows(f, t, dir, entry)
       PROVE  NoneBefore(f, t, dir, entry + 1)
  <2> SUFFICES ASSUME NEW c \in DOMAIN Image[f].dirs, NEW j \in DOMAIN EntriesOf(f, c),
                      c < dir \/ (c = dir /\ j < entry + 1)
               PROVE  ~Shows(f, t, c, j)
    BY DEF NoneBefore
  <2>1. j \in Nat
    BY <1>2, PositionType
  <2>2. c < dir \/ (c = dir /\ j < entry) \/ (c = dir /\ j = entry)
    BY <1>1, <2>1
  <2> QED  BY <1>11, <2>2 DEF NoneBefore
<1>12. ASSUME NEW t \in Tag, IsPrinted(t)
       PROVE  (NoRow(rows', t) /\ NoneBefore(f, t, dir, entry + 1)) \/ SaidByRow(rows', f, t)
  <2>1. CASE SaidByRow(rows, f, t)
    BY <1>10, <2>1, SaidKept
  <2>2. CASE NoRow(rows, t) /\ NoneBefore(f, t, dir, entry) /\ ~Shows(f, t, dir, entry)
    <3>1. NoneBefore(f, t, dir, entry + 1)
      BY <1>11, <2>2
    <3>2. ~(Displayed(type, e) /\ e.tag = t)
      BY <2>2 DEF Displayed, Shows, NotOfIfd0, e, type
    <3>3. NoRow(rows', t)
      <4>1. CASE Displayed(type, e)
        <5>1. NoRow(Append(rows, r), t)
          BY <1>3, <1>4, <2>2, <3>2, <4>1, OneMore
        <5> QED  BY <1>6, <4>1, <5>1
      <4>2. CASE ~Displayed(type, e)
        BY <1>6, <2>2, <4>2
      <4> QED  BY <4>1, <4>2
    <3> QED  BY <3>1, <3>3
  <2>3. CASE NoRow(rows, t) /\ NoneBefore(f, t, dir, entry) /\ Shows(f, t, dir, entry)
    <3>1. e.tag = t /\ FirstInDirs(f, t, dir, entry)
      BY <1>2, <2>3 DEF Shows, FirstInDirs, e
    <3>2. FirstOrientation(e)
      BY <1>7, <2>3, <3>1 DEF FirstOrientation
    <3>3. Displayed(type, e)
      BY <1>12, <2>3, <3>1, <3>2 DEF Displayed, Shows, NotOfIfd0, type
    <3>4. PICK k \in DOMAIN rows' : FirstRow(rows', t, k) /\ rows'[k] = r
      <4>1. \E k \in DOMAIN Append(rows, r) :
              FirstRow(Append(rows, r), t, k) /\ Append(rows, r)[k] = r
        BY <1>3, <1>4, <2>3, <3>1, OneMore
      <4> QED  BY <1>6, <3>3, <4>1
    <3>5. rows'[k].value = ValueIn(f, EntriesOf(f, dir)[entry])
      BY <1>3, <3>4 DEF e
    <3> QED  BY <1>2, <3>1, <3>4, <3>5, Zenon DEF SaidByRow
  <2> QED  BY <1>9, <1>12, <2>1, <2>2, <2>3
<1>13. orientation' # 0 => ~NoRow(rows', Orientation)
  <2>1. ASSUME ~NoRow(rows, Orientation) PROVE ~NoRow(rows', Orientation)
    <3>1. CASE Displayed(type, e)
      <4>1. PICK k \in DOMAIN rows : rows[k].tag = Orientation
        BY <2>1 DEF NoRow
      <4>2. k \in DOMAIN rows' /\ rows'[k] = rows[k]
        BY <1>3, <1>4, <1>6, <3>1, <4>1, AppendProperties
      <4> QED  BY <4>1, <4>2 DEF NoRow
    <3>2. CASE ~Displayed(type, e)
      BY <1>6, <2>1, <3>2
    <3> QED  BY <3>1, <3>2
  <2>2. ASSUME Displayed(type, e), e.tag = Orientation PROVE ~NoRow(rows', Orientation)
    <3>1. rows' = Append(rows, r) /\ r.tag = Orientation
      BY <1>3, <1>6, <2>2
    <3>2. rows'[Len(rows) + 1] = r /\ Len(rows) + 1 \in DOMAIN rows'
      BY <1>3, <1>4, <3>1, AppendProperties
    <3> QED  BY <3>1, <3>2 DEF NoRow
  <2> QED  BY <1>6, <1>7, <2>1, <2>2
<1>14. dir' <= Len(Image[f'].dirs) + 1
  BY <1>1, <1>2, <1>5, ImageAssumption
<1>15. ASSUME NEW t \in Tag, IsPrinted(t)'
       PROVE  (NoRow(rows', t) /\ NoneBefore(f', t, dir', entry')) \/ SaidByRow(rows', f', t)
  BY <1>1, <1>5, <1>8, <1>12, <1>15
<1> QED  BY <1>13, <1>14, <1>15 DEF RowInv, f
LEMMA NextDirectoryStep ==
  ASSUME ShownType, RowInv, NextDirectory
  PROVE  RowInv'
<1> DEFINE f == File
<1>1. /\ step = "dirs" /\ dir <= Len(Image[f].dirs) /\ entry > Len(EntriesOf(f, dir))
      /\ UNCHANGED <<conf, argv, rows, orientation>> /\ dir' = dir + 1 /\ entry' = 1
      /\ dir \in Nat \ {0} /\ entry \in Nat
  BY DEF NextDirectory, InDirectory, ShownType, Img, EntriesOf
<1>2. f' = f
  BY <1>1 DEF File
<1>3. f \in Files
  BY <1>1, FileType DEF ShownType, ControlInv
<1>4. \A t : IsPrinted(t)' <=> IsPrinted(t)
  BY <1>1 DEF IsPrinted, conf
<1>5. \A t \in Tag : IsPrinted(t) =>
        (NoRow(rows, t) /\ NoneBefore(f, t, dir, entry)) \/ SaidByRow(rows, f, t)
  BY <1>1 DEF RowInv
<1>6. orientation # 0 => ~NoRow(rows, Orientation)
  BY <1>1 DEF RowInv
<1> HIDE DEF f
<1>7. ASSUME NEW t, NoneBefore(f, t, dir, entry)
      PROVE  NoneBefore(f, t, dir + 1, 1)
  <2> SUFFICES ASSUME NEW c \in DOMAIN Image[f].dirs, NEW j \in DOMAIN EntriesOf(f, c),
                      c < dir + 1 \/ (c = dir + 1 /\ j < 1)
               PROVE  ~Shows(f, t, c, j)
    BY DEF NoneBefore
  <2>1. c \in Nat /\ j \in 1..Len(EntriesOf(f, c)) /\ Len(EntriesOf(f, c)) \in Nat
    BY <1>3, PositionType
  <2>2. c < dir \/ (c = dir /\ j < entry)
    BY <1>1, <2>1
  <2> QED  BY <1>7, <2>2 DEF NoneBefore
<1>8. dir' <= Len(Image[f'].dirs) + 1
  BY <1>1, <1>2, <1>3, PositionType
<1>9. \A t \in Tag : IsPrinted(t)' =>
        (NoRow(rows', t) /\ NoneBefore(f', t, dir', entry')) \/ SaidByRow(rows', f', t)
  BY <1>1, <1>2, <1>4, <1>5, <1>7, Zenon
<1>10. orientation' # 0 => ~NoRow(rows', Orientation)
  BY <1>1, <1>6
<1> QED  BY <1>8, <1>9, <1>10 DEF RowInv, f

LEMMA BeginStep ==
  ASSUME ShownType, BeginFile
  PROVE  RowInv'
<1>1. PICK f \in Files : argv' = Append(argv, f)
                         /\ rows' = <<[tag |-> NameTag, value |-> NameOf(f)]>>
  BY DEF BeginFile
<1>2. dir' = 1 /\ entry' = 1 /\ orientation' = 0
  BY DEF BeginFile
<1>3. argv' # <<>> /\ File' = f
  BY <1>1 DEF ShownType, File
<1>4. ASSUME NEW t \in Tag
      PROVE  NoRow(rows', t) /\ NoneBefore(f, t, 1, 1)
  <2>1. NoRow(rows', t)
    BY <1>1, TagAssumption DEF NoRow
  <2>2. NoneBefore(f, t, 1, 1)
    BY PositionType DEF NoneBefore
  <2> QED  BY <2>1, <2>2
<1>5. dir' <= Len(Image[f].dirs) + 1
  BY <1>2, PositionType
<1> QED  BY <1>2, <1>3, <1>4, <1>5 DEF RowInv

\* The entries of the directories and of the XMP packet, in their order, are what
\* an image says.
LEMMA XmpStep ==
  ASSUME ShownType, RowInv, ShowXmp
  PROVE  AllRowsInv'
<1> DEFINE f == File
           x == XmpRows
           n == Len(Image[f].dirs)
<1>1. /\ step = "dirs" /\ dir > n /\ dir <= n + 1 /\ dir \in Nat
      /\ UNCHANGED <<conf, mode, argv>> /\ rows' = rows \o x
  BY DEF ShowXmp, RowInv, ShownType, Img, XmpLast
<1>2. f' = f /\ f \in Files
  BY <1>1, FileType DEF ShownType, ControlInv, File
<1>3. n \in Nat /\ dir = n + 1
  BY <1>1, <1>2, PositionType
<1>4. /\ rows \in Seq(Row) /\ x \in Seq(Row) /\ Len(x) = Len(Image[f].xmp)
      /\ \A i \in DOMAIN Image[f].xmp : x[i] = OwnRow(f, Image[f].xmp[i])
                                        /\ Image[f].xmp[i] \in Entry
  BY <1>2, XmpRowsType DEF ShownType, Img
<1>5. Image[f].xmp \in Seq(Entry)
  BY <1>2, ImageAssumption
<1>6. DOMAIN x = DOMAIN Image[f].xmp /\ \A i \in DOMAIN x : i \in Nat /\ \A j \in 1..i - 1 : j \in DOMAIN x
  BY <1>4, <1>5
<1>7. \A t : (IsPrinted(t)' <=> IsPrinted(t)) /\ (IsSize(f, t)' <=> IsSize(f, t))
  BY <1>1, <1>2 DEF IsPrinted, IsSize, conf
<1>8. \A t \in Tag : IsPrinted(t) =>
        (NoRow(rows, t) /\ NoneBefore(f, t, dir, entry)) \/ SaidByRow(rows, f, t)
  BY <1>1 DEF RowInv
<1>9. \A i \in DOMAIN Image[f].xmp :
        x[i].tag = Image[f].xmp[i].tag /\ x[i].value = ValueIn(f, Image[f].xmp[i])
  BY <1>2, <1>4, OwnRowType
<1> HIDE DEF f, x, n
<1>10. ASSUME NEW t, NoneBefore(f, t, dir, entry)
       PROVE  NoneBefore(f, t, n + 1, 1)
  <2> SUFFICES ASSUME NEW c \in DOMAIN Image[f].dirs, NEW j \in DOMAIN EntriesOf(f, c)
               PROVE  ~Shows(f, t, c, j)
    BY DEF NoneBefore
  <2>1. c \in Nat /\ c <= n
    BY <1>2, PositionType DEF n
  <2> QED  BY <1>3, <1>10, <2>1 DEF NoneBefore
<1>11. ASSUME NEW t \in Tag, SaidByRow(rows, f, t)
       PROVE  SaidByRows(rows', f, t)
  <2>1. \A k \in DOMAIN rows : FirstRow(rows, t, k) =>
          k \in DOMAIN rows' /\ FirstRow(rows', t, k) /\ rows'[k] = rows[k]
    BY <1>1, <1>4, MoreRows
  <2>2. SaidByRow(rows', f, t)
    BY <1>11, <2>1, SaidKept
  <2> QED  BY <2>2, Zenon DEF SaidByRow, SaidByRows, SaysOf
<1>12. ASSUME NEW t \in Tag, NoRow(rows, t), NoneBefore(f, t, n + 1, 1), NoRow(x, t)
       PROVE  SaidByRows(rows', f, t)
  <2>1. NoRow(rows', t)
    BY <1>1, <1>4, <1>12, MoreRows
  <2>2. \A i \in DOMAIN Image[f].xmp : Image[f].xmp[i].tag # t
    BY <1>6, <1>9, <1>12 DEF NoRow
  <2> QED  BY <1>12, <2>1, <2>2 DEF SaidByRows, SaysOf, n
<1>13. ASSUME NEW t \in Tag, NoRow(rows, t), NoneBefore(f, t, n + 1, 1), ~NoRow(x, t)
       PROVE  SaidByRows(rows', f, t)
  <2> DEFINE T == {i \in DOMAIN x : x[i].tag = t}
  <2>1. T \in SUBSET Nat /\ T # {}
    BY <1>6, <1>13 DEF NoRow
  <2>2. PICK i \in T : \A j \in T : i <= j
    BY <2>1, Least
  <2>3. i \in DOMAIN x /\ x[i].tag = t /\ i \in Nat
    BY <2>1, <2>2
  <2>4. \A j \in 1..i - 1 : j \in DOMAIN x /\ x[j].tag # t
    <3> TAKE j \in 1..i - 1
    <3>1. j \in DOMAIN x /\ j < i /\ j \in Nat
      BY <1>6, <2>3
    <3> QED  BY <2>2, <2>3, <3>1
  <2> HIDE DEF T
  <2>5. FirstRow(x, t, i) /\ FirstInXmp(f, t, i)
    BY <1>6, <1>9, <2>3, <2>4 DEF FirstRow, FirstInXmp
  <2>6. PICK k \in DOMAIN rows' : FirstRow(rows', t, k) /\ rows'[k] = x[i]
    <3>1. \E k \in DOMAIN (rows \o x) : FirstRow(rows \o x, t, k) /\ (rows \o x)[k] = x[i]
      BY <1>4, <1>13, <2>3, <2>5, MoreRows
    <3> QED  BY <1>1, <3>1
  <2>7. rows'[k].value = ValueIn(f, Image[f].xmp[i]) /\ i \in DOMAIN Image[f].xmp
    BY <1>6, <1>9, <2>3, <2>6
  <2>8. SaysOf(f, t, rows'[k].value)
    BY <1>13, <2>5, <2>7 DEF SaysOf, n
  <2> QED  BY <2>6, <2>8 DEF SaidByRows
<1>14. \A t \in Tag : IsPrinted(t) => SaidByRows(rows', f, t)
  BY <1>8, <1>10, <1>11, <1>12, <1>13
<1>15. \A t \in Tag : IsPrinted(t)' => SaidByRows(rows', f', t)
  BY <1>2, <1>7, <1>14
<1> QED  BY <1>15 DEF AllRowsInv, f

\* The size of the page takes nothing from the rows of the other tags.
LEMMA SizeStep ==
  ASSUME ShownType, AllRowsInv, SizeInv, SetWidth \/ SetLength
  PROVE  AllRowsInv'
<1>1. PICK tag \in {WebWidth, WebLength} : rows' \in Replaced(tag)
  BY DEF SetWidth, SetLength
<1>2. /\ step \in {"width", "length"} /\ UNCHANGED <<conf, mode, argv>>
      /\ mode = "web" /\ Img.frame /\ tag \in Tag /\ rows \in Seq(Row) /\ File' = File
      /\ File \in Files
  <2>1. step \in {"width", "length"} /\ UNCHANGED <<conf, mode, argv>>
    BY DEF SetWidth, SetLength
  <2> QED  BY <1>1, <2>1, TagAssumption, FileType DEF SizeInv, ShownType, ControlInv, File
<1>3. \A t : (IsPrinted(t)' <=> IsPrinted(t)) /\ (IsSize(File, t)' <=> IsSize(File, t))
  BY <1>2 DEF IsPrinted, IsSize, conf
<1>4. IsSize(File, tag)
  BY <1>1, <1>2 DEF IsSize, Img
<1>5. ASSUME NEW t \in Tag, IsPrinted(t), ~IsSize(File, t)
      PROVE  SaidByRows(rows', File, t)
  <2>1. SaidByRows(rows, File, t)
    BY <1>2, <1>5 DEF AllRowsInv
  <2>2. /\ NoRow(rows, t) => NoRow(rows', t)
        /\ \A k \in DOMAIN rows : FirstRow(rows, t, k) =>
             k \in DOMAIN rows' /\ FirstRow(rows', t, k) /\ rows'[k] = rows[k]
    BY <1>1, <1>2, <1>4, <1>5, OthersKept
  <2> QED  BY <2>1, <2>2, Zenon DEF SaidByRows
<1>6. \A t \in Tag : IsPrinted(t)' /\ ~IsSize(File, t)' => SaidByRows(rows', File', t)
  BY <1>2, <1>3, <1>5
<1> QED  BY <1>6 DEF AllRowsInv
LEMMA SameColumns == UNCHANGED conf => Columns' = Columns
  BY Zenon DEF Columns, IsPrinted, conf

\* Nothing is shown before the lists are made and after the run has ended.
Blank == argv = <<>> /\ step = "next" /\ header = <<>> /\ out = <<>>

LEMMA BlankInv == (Blank => RecordInv) /\ (Blank' => RecordInv')
<1>1. Blank => RecordInv
  BY DEF Blank, RecordInv, HeaderInv, RowInv, AllRowsInv, NameInv, SizeInv, OwnCells
<1>2. Blank' => RecordInv'
  BY DEF Blank, RecordInv, HeaderInv, RowInv, AllRowsInv, NameInv, SizeInv, OwnCells
<1> QED  BY <1>1, <1>2

\* What the run does with an image.
ShownAction ==
  \/ BeginFile \/ ShowEntry \/ NextDirectory \/ ShowXmp \/ SetWidth \/ SetLength
  \/ NullList \/ PrintRecord

LEMMA RowsStep ==
  ASSUME ConfType, ShownType, RecordInv, ShownAction
  PROVE  RowInv' /\ AllRowsInv'
<1>1. CASE BeginFile
  BY <1>1, BeginStep DEF BeginFile, AllRowsInv
<1>2. CASE ShowEntry
  BY <1>2, ShowStep DEF RecordInv, ShowEntry, InDirectory, AllRowsInv
<1>3. CASE NextDirectory
  BY <1>3, NextDirectoryStep DEF RecordInv, NextDirectory, InDirectory, AllRowsInv
<1>4. CASE ShowXmp
  BY <1>4, XmpStep DEF RecordInv, ShowXmp, RowInv
<1>5. CASE SetWidth \/ SetLength
  BY <1>5, SizeStep DEF RecordInv, SetWidth, SetLength, RowInv
<1>6. CASE NullList \/ PrintRecord
  BY <1>6 DEF NullList, PrintRecord, RowInv, AllRowsInv
<1> QED  BY <1>1, <1>2, <1>3, <1>4, <1>5, <1>6 DEF ShownAction

LEMMA NameStep ==
  ASSUME ConfType, ShownType, RecordInv, ShownAction
  PROVE  NameInv' /\ SizeInv'
<1>1. CASE BeginFile
  <2>1. PICK f \in Files : argv' = Append(argv, f)
                           /\ rows' = <<[tag |-> NameTag, value |-> NameOf(f)]>>
    BY <1>1 DEF BeginFile
  <2>2. File' = f
    BY <2>1 DEF ShownType, File
  <2>3. NameInv'
    BY <2>1, <2>2 DEF NameInv
  <2> QED  BY <1>1, <2>3 DEF BeginFile, SizeInv
<1>2. CASE ~BeginFile
  <2>1. step \notin {"next", "crash"} /\ UNCHANGED <<mode, argv>> /\ File' = File
    BY <1>2 DEF ShownAction, ShowEntry, NextDirectory, InDirectory, ShowXmp, SetWidth, SetLength,
                NullList, PrintRecord, File
  <2>2. rows # <<>> /\ rows[1].tag = NameTag /\ rows[1].value = NameOf(File) /\ rows \in Seq(Row)
    BY <2>1 DEF RecordInv, NameInv, ShownType
  <2>3. 1 \in DOMAIN rows
    BY <2>2
  <2>4. (rows' # <<>> /\ rows'[1] = rows[1]) \/ step' \in {"next", "crash"}
    <3>1. CASE ShowEntry
      <4> DEFINE r == OwnRow(File, Img.dirs[dir].entries[entry])
      <4>1. r \in Row
        BY <3>1, AtEntryType, OwnRowType DEF ShowEntry
      <4>2. rows' = rows \/ rows' = Append(rows, r)
        BY <3>1 DEF ShowEntry
      <4> HIDE DEF r
      <4>3. Append(rows, r) # <<>> /\ Append(rows, r)[1] = rows[1]
        BY <2>2, <2>3, <4>1
      <4> QED  BY <2>2, <4>2, <4>3
    <3>2. CASE NextDirectory \/ NullList \/ PrintRecord
      BY <2>2, <3>2 DEF NextDirectory, NullList, PrintRecord
    <3>3. CASE ShowXmp
      <4> DEFINE x == XmpRows
      <4>1. x \in Seq(Row)
        BY <2>1, FileType, XmpRowsType DEF ShownType, ControlInv
      <4>2. rows' = rows \o x
        BY <3>3 DEF ShowXmp, XmpLast
      <4> HIDE DEF x
      <4> QED  BY <2>2, <2>3, <4>1, <4>2
    <3>4. CASE SetWidth \/ SetLength
      <4>1. PICK tag \in {WebWidth, WebLength} : rows' \in Replaced(tag)
        BY <3>4 DEF SetWidth, SetLength
      <4>2. File \in Files /\ tag \in Tag /\ tag # NameTag
        BY <2>1, <4>1, FileType, TagAssumption DEF ShownType, ControlInv
      <4>3. rows' \in Seq(Row) /\ Len(rows') >= Len(rows) /\ rows'[1] = rows[1]
        BY <2>2, <2>3, <4>1, <4>2, ReplacedIs
      <4> QED  BY <2>2, <4>3
    <3> QED  BY <1>2, <3>1, <3>2, <3>3, <3>4 DEF ShownAction
  <2>5. NameInv'
    BY <2>1, <2>2, <2>4 DEF NameInv
  <2>6. SizeInv'
    BY <1>2, <2>1 DEF ShownAction, ShowEntry, NextDirectory, InDirectory, ShowXmp, SetWidth,
                      SetLength, NullList, PrintRecord, SizeInv, RecordInv, Img
  <2> QED  BY <2>5, <2>6
<1> QED  BY <1>1, <1>2

LEMMA HeaderStep ==
  ASSUME ConfType, ShownType, RecordInv, ShownAction
  PROVE  HeaderInv'
<1>1. UNCHANGED conf
  BY DEF ShownAction, BeginFile, ShowEntry, NextDirectory, ShowXmp, SetWidth, SetLength, NullList,
         PrintRecord
<1>2. phase' = phase /\ Columns' = Columns
  BY <1>1, SameColumns DEF conf
<1> DEFINE c == Columns
<1>3. c' = c
  BY <1>2
<1>4. /\ phase \in {"off", "write", "read"} => argv = <<>> /\ step = "next" /\ header = <<>>
      /\ header = <<>> \/ header = <<c>>
      /\ header = <<>> => out = <<>>
      /\ Len(argv) = Len(out) + (IF step = "next" THEN 0 ELSE 1)
  BY DEF RecordInv, HeaderInv
<1> SUFFICES
      /\ phase' \in {"off", "write", "read"} => argv' = <<>> /\ step' = "next" /\ header' = <<>>
      /\ header' = <<>> \/ header' = <<c>>'
      /\ header' = <<>> => out' = <<>>
      /\ Len(argv') = Len(out') + (IF step' = "next" THEN 0 ELSE 1)
  BY DEF HeaderInv
<1>5. CASE BeginFile
  <2>1. PICK f \in Files : argv' = Append(argv, f)
    BY <1>5 DEF BeginFile
  <2>2. Len(argv') = Len(argv) + 1 /\ Len(argv) \in Nat
    BY <2>1, AppendProperties DEF ShownType
  <2>3. /\ phase \notin {"off", "write", "read"} /\ step = "next" /\ step' = "dirs"
        /\ UNCHANGED <<header, out>>
    BY <1>5 DEF BeginFile, Ready
  <2> HIDE DEF c
  <2> QED  BY <1>2, <1>3, <1>4, <2>2, <2>3
<1>6. CASE PrintRecord
  <2> DEFINE r == [name |-> FirstValue(NameTag), cells |-> Cells(Columns)]
  <2>1. /\ step = "print" /\ step' = "next" /\ argv' = argv /\ out' = Append(out, r)
        /\ header' = IF header = <<>> THEN <<c>> ELSE header
    BY <1>6 DEF PrintRecord, HeaderOnce
  <2>2. r \in Record
    BY CellsType, ColumnsType, FirstValueType DEF Record, ShownType
  <2> HIDE DEF r, c
  <2>3. Len(out') = Len(out) + 1 /\ Len(out) \in Nat
    BY <2>1, <2>2, AppendProperties DEF ShownType
  <2>4. <<c>> # <<>> /\ header' = <<c>>
    BY <1>4, <2>1
  <2> QED  BY <1>2, <1>3, <1>4, <2>1, <2>3, <2>4
<1>7. CASE ~BeginFile /\ ~PrintRecord
  <2>1. step # "next" /\ step' # "next" /\ UNCHANGED <<argv, header, out>>
    BY <1>7 DEF ShownAction, ShowEntry, NextDirectory, InDirectory, ShowXmp, SetWidth, SetLength,
                NullList
  <2> HIDE DEF c
  <2> QED  BY <1>2, <1>3, <1>4, <2>1
<1> QED  BY <1>5, <1>6, <1>7
\* A column of the record of file f.
CellsOf(f, cols, cells) ==
  \A i \in DOMAIN cols : ~IsSize(f, cols[i]) => SaysOf(f, cols[i], cells[i])

LEMMA CellsFromRows ==
  ASSUME ConfType, ShownType, RecordInv, step = "print"
  PROVE  FirstValue(NameTag) = NameOf(File) /\ CellsOf(File, Columns, Cells(Columns))
<1>1. rows \in Seq(Row)
  BY DEF ShownType
<1>2. FirstValue(NameTag) = NameOf(File)
  <2>1. rows # <<>> /\ rows[1].tag = NameTag /\ rows[1].value = NameOf(File)
    BY DEF RecordInv, NameInv
  <2>2. 1 \in DOMAIN rows /\ FirstRow(rows, NameTag, 1)
    BY <1>1, <2>1 DEF FirstRow
  <2> QED  BY <1>1, <2>1, <2>2, FirstIsValue
<1>3. Columns \in Seq(Tag) /\ \A i \in DOMAIN Columns : Cells(Columns)[i] = FirstValue(Columns[i])
  BY <1>1, ColumnsType, CellsType
<1>4. ASSUME NEW i \in DOMAIN Columns, ~IsSize(File, Columns[i])
      PROVE  SaysOf(File, Columns[i], FirstValue(Columns[i]))
  <2>1. Listed(Columns, Columns[i])
    BY DEF Listed
  <2>2. Columns[i] \in Tag /\ IsPrinted(Columns[i])
    BY <2>1, ColumnsType
  <2>3. SaidByRows(rows, File, Columns[i])
    BY <1>4, <2>2 DEF RecordInv, AllRowsInv
  <2>4. CASE NoRow(rows, Columns[i]) /\ SaysOf(File, Columns[i], Empty)
    <3>1. FirstValue(Columns[i]) = Empty
      BY <1>1, <2>4, FirstIsValue
    <3> QED  BY <2>4, <3>1, Zenon
  <2>5. CASE \E k \in DOMAIN rows :
               FirstRow(rows, Columns[i], k) /\ SaysOf(File, Columns[i], rows[k].value)
    <3>1. PICK k \in DOMAIN rows :
            FirstRow(rows, Columns[i], k) /\ SaysOf(File, Columns[i], rows[k].value)
      BY <2>5
    <3>2. FirstValue(Columns[i]) = rows[k].value
      BY <1>1, <3>1, FirstIsValue
    <3> QED  BY <3>1, <3>2, Zenon
  <2> QED  BY <2>3, <2>4, <2>5 DEF SaidByRows
<1>5. \A i \in DOMAIN Columns :
        ~IsSize(File, Columns[i]) => SaysOf(File, Columns[i], Cells(Columns)[i])
  BY <1>3, <1>4, Zenon
<1> QED  BY <1>2, <1>5 DEF CellsOf

LEMMA CellsStep ==
  ASSUME ConfType, ShownType, RecordInv, ShownAction
  PROVE  OwnCells'
<1> DEFINE c == Columns
<1>1. /\ UNCHANGED conf /\ mode' = mode
      /\ argv' = argv \/ (~PrintRecord /\ \E f \in Files : argv' = Append(argv, f))
  BY Zenon DEF ShownAction, BeginFile, ShowEntry, NextDirectory, ShowXmp, SetWidth, SetLength,
               NullList, PrintRecord
<1>2. c' = c /\ c \in Seq(Tag)
  BY <1>1, SameColumns, ColumnsType
<1>3. \A f, cells : CellsOf(f, c, cells) =>
        \A i \in DOMAIN c : ~(mode' = "web" /\ Image[f].frame /\ c[i] \in {WebWidth, WebLength})
                            => SaysOf(f, c[i], cells[i])
  BY <1>1 DEF CellsOf, IsSize
<1>4. /\ out \in Seq(Record) /\ argv \in Seq(Files) /\ Len(argv) \in Nat /\ Len(out) \in Nat
      /\ DOMAIN out = 1..Len(out)
  BY DEF ShownType
<1>5. HeaderInv
  BY DEF RecordInv
<1>6. ASSUME NEW k \in DOMAIN out
      PROVE  /\ out[k].name = NameOf(argv[k]) /\ Len(out[k].cells) = Len(header[1])
             /\ CellsOf(argv[k], c, out[k].cells)
             /\ k \in 1..Len(argv) /\ argv'[k] = argv[k] /\ header # <<>>
  <2>1. /\ out[k].name = NameOf(argv[k]) /\ Len(out[k].cells) = Len(header[1])
        /\ CellsOf(argv[k], c, out[k].cells)
    BY DEF RecordInv, OwnCells, CellsOf
  <2>2. k \in 1..Len(argv) /\ header # <<>>
    BY <1>4, <1>5 DEF HeaderInv
  <2>3. argv'[k] = argv[k]
    BY <1>1, <1>4, <2>2
  <2> QED  BY <2>1, <2>2, <2>3
<1> SUFFICES ASSUME NEW k \in DOMAIN out'
             PROVE  /\ out'[k].name = NameOf(argv'[k])
                    /\ Len(out'[k].cells) = Len(header'[1])
                    /\ CellsOf(argv'[k], c, out'[k].cells)
  BY <1>2, <1>3, Zenon DEF OwnCells, IsSize
<1>7. CASE ~PrintRecord
  <2>1. UNCHANGED <<header, out>>
    BY <1>7 DEF ShownAction, BeginFile, ShowEntry, NextDirectory, InDirectory, ShowXmp, SetWidth,
                SetLength, NullList
  <2> HIDE DEF c
  <2> QED  BY <1>6, <2>1
<1>8. CASE PrintRecord
  <2> DEFINE r == [name |-> FirstValue(NameTag), cells |-> Cells(Columns)]
  <2>1. /\ step = "print" /\ argv' = argv /\ out' = Append(out, r)
        /\ header' = IF header = <<>> THEN <<c>> ELSE header
    BY <1>8 DEF PrintRecord, HeaderOnce
  <2>2. r \in Record
    BY CellsType, ColumnsType, FirstValueType DEF Record, ShownType
  <2>3. r.name = NameOf(File) /\ CellsOf(File, c, r.cells)
    BY <2>1, CellsFromRows
  <2>4. Len(r.cells) = Len(c)
    BY ColumnsType, CellsType DEF ShownType
  <2>5. header = <<>> \/ header = <<c>>
    BY <1>5 DEF HeaderInv
  <2> HIDE DEF r, c
  <2>6. header'[1] = c /\ (header # <<>> => header' = header)
    BY <2>1, <2>5
  <2>7. k \in DOMAIN out \/ k = Len(out) + 1
    BY <1>4, <2>1, <2>2, AppendProperties
  <2>8. CASE k \in DOMAIN out
    <3>1. out'[k] = out[k]
      BY <1>4, <2>1, <2>2, <2>8, AppendProperties
    <3> QED  BY <1>6, <2>6, <2>8, <3>1
  <2>9. CASE k = Len(out) + 1
    <3>1. out'[k] = r
      BY <1>4, <2>1, <2>2, <2>9, AppendProperties
    <3>2. argv'[k] = File
      BY <1>4, <1>5, <2>1, <2>9 DEF HeaderInv, File
    <3> QED  BY <2>3, <2>4, <2>6, <3>1, <3>2
  <2> QED  BY <2>7, <2>8, <2>9
<1> QED  BY <1>7, <1>8

LEMMA RecordStep == ConfType /\ ShownType /\ RecordInv /\ [Next]_vars => RecordInv'
<1> SUFFICES ASSUME ConfType, ShownType, RecordInv, [Next]_vars
             PROVE  RecordInv'
  OBVIOUS
<1>1. CASE ShownAction
  BY <1>1, RowsStep, NameStep, HeaderStep, CellsStep DEF RecordInv
<1>2. CASE CheckForConfig /\ UNCHANGED shown
  <2>1. phase \in {"off", "write", "read"}
    BY <1>2 DEF CheckForConfig, NotCreated, Create, WriteTag, WriteFails, CloseFile, NotOpened,
                OpenFile, ReadLine, EndOfLines, Start
  <2>2. Blank
    BY <2>1 DEF RecordInv, HeaderInv, Blank
  <2>3. Blank'
    BY <1>2, <2>2 DEF Blank, shown
  <2> QED  BY <2>3, BlankInv
<1>3. CASE EndRun \/ (Killed /\ Leave)
  <2>1. Blank'
    BY <1>3 DEF EndRun, Leave, Blank
  <2> QED  BY <2>1, BlankInv
<1>4. CASE (Edit \/ DeleteFile) /\ UNCHANGED shown
  <2>1. phase = "off"
    BY <1>4 DEF Edit, DeleteFile
  <2>2. Blank
    BY <2>1 DEF RecordInv, HeaderInv, Blank
  <2>3. Blank'
    BY <1>4, <2>2 DEF Blank, shown
  <2> QED  BY <2>3, BlankInv
<1>5. CASE UNCHANGED vars
  <2>1. UNCHANGED conf /\ UNCHANGED shown /\ phase' = phase /\ Columns' = Columns
    BY <1>5, SameColumns DEF vars, conf
  <2>2. File' = File /\ Img' = Img /\ \A t : IsPrinted(t)' <=> IsPrinted(t)
    BY <2>1 DEF shown, conf, File, Img, IsPrinted
  <2> QED  BY <2>1, <2>2, Zenon DEF RecordInv, HeaderInv, RowInv, AllRowsInv, NameInv, SizeInv,
                                    OwnCells, IsSize, shown
<1> QED  BY <1>1, <1>2, <1>3, <1>4, <1>5 DEF Next, Run, Stopped, ShownAction

\* In the record of an image every column shows what that image says of the tag,
\* for any table, configuration file and images: the rows of an image begin with
\* its own name, display_data leaves out no entry that it should print, the XMP
\* packet comes after the directories, and output_csv and output_js take the first
\* row of each tag, under one header line with as many columns.
THEOREM CellsCorrect == Spec => []OwnCells
<1>1. Init => ConfType /\ ShownType /\ RecordInv
  <2>1. Init => Blank
    BY DEF Init, Blank
  <2> QED  BY <2>1, BlankInv, ConfTypeInit, ShownTypeInit
<1>2. ConfType /\ ShownType /\ RecordInv /\ [Next]_vars => (ConfType /\ ShownType /\ RecordInv)'
  BY TypeStep, RecordStep
<1>3. RecordInv => OwnCells
  BY DEF RecordInv
<1> QED  BY <1>1, <1>2, <1>3, PTL DEF Spec

-----------------------------------------------------------------------------
(* The texts of the values: Values over the inputs of MCAlgorithms.          *)

\* A function on 1 to m is a sequence of m elements.
LEMMA FunctionIsSeq ==
  ASSUME NEW S, NEW m \in Nat, NEW s \in [1..m -> S]
  PROVE  s \in Seq(S) /\ Len(s) = m
  <1>1. s \in Seq(S)
    BY SeqDef
  <1> QED
    BY <1>1, LenProperties

\* A sequence of one element, and of two.
LEMMA Single ==
  ASSUME NEW S, NEW t \in Seq(S), Len(t) = 1
  PROVE  t = <<t[1]>>
  <1>1. PICK a : a = t[1]
    OBVIOUS
  <1>2. t = [i \in 1..1 |-> t[i]] /\ <<a>> = [i \in 1..1 |-> a]
    BY LenProperties
  <1>3. \A i \in 1..1 : t[i] = a
    BY <1>1
  <1> QED
    BY <1>1, <1>2, <1>3

LEMMA Pair ==
  ASSUME NEW S, NEW t \in Seq(S), Len(t) = 2
  PROVE  t = <<t[1], t[2]>>
  <1>1. PICK a, b : a = t[1] /\ b = t[2]
    OBVIOUS
  <1>2. t = [i \in 1..2 |-> t[i]] /\ <<a, b>> = [i \in 1..2 |-> IF i = 1 THEN a ELSE b]
    BY LenProperties
  <1>3. \A i \in 1..2 : t[i] = IF i = 1 THEN a ELSE b
    BY <1>1
  <1> QED
    BY <1>1, <1>2, <1>3

\* The four bytes of an entry, a count of values that fit into them, and a byte order.
IsEntry(e) ==
  e.four \in [1..4 -> Nat] /\ e.count \in 0..4 /\ e.mm \in BOOLEAN

IsSmallEntry(e) ==
  /\ IsEntry(e) /\ IsSmall(e) /\ e.iso \in BOOLEAN
  /\ e.type \in {1, 2, 3, 4, 6, 8, 9}
  /\ e.type \in {4, 9} => e.count = 1
  /\ e.iso => e.type = 3 /\ e.count > 0

\* A number of the file that has these bytes.
Number(e, bytes) ==
  [bytes |-> bytes, negative |-> e.type \in {6, 8, 9} /\ bytes[1] >= 128]

\* The four bytes of an entry, in both orders.
LEMMA Four ==
  ASSUME NEW s \in [1..4 -> Nat]
  PROVE  /\ s = <<s[1], s[2], s[3], s[4]>> /\ Len(s) = 4 /\ s \in Seq(Nat)
         /\ Reverse(s) = <<s[4], s[3], s[2], s[1]>>
  <1>1. s \in Seq(Nat) /\ Len(s) = 4
    <2>1. 4 \in Nat
      OBVIOUS
    <2> QED
      BY ONLY <2>1, s \in [1..4 -> Nat], FunctionIsSeq
  <1>2. s = <<s[1], s[2], s[3], s[4]>>
    <2>1. PICK t : t = <<s[1], s[2], s[3], s[4]>>
      OBVIOUS
    <2>2. t = [i \in 1..4 |-> t[i]] /\ s = [i \in 1..4 |-> s[i]]
      BY <2>1
    <2>3. ASSUME NEW i \in 1..4 PROVE t[i] = s[i]
      <3>1. i = 1 \/ i = 2 \/ i = 3 \/ i = 4
        OBVIOUS
      <3> QED
        BY <2>1, <3>1
    <2> QED
      BY <2>1, <2>2, <2>3
  <1>3. Reverse(s) = [i \in 1..4 |-> s[(4 - i) + 1]]
    BY <1>1 DEF Reverse
  <1> QED
    BY <1>1, <1>2, <1>3

\* Get32u: the four bytes, the most significant first.
LEMMA Wholes ==
  ASSUME NEW e, IsEntry(e), NEW u, u = Get32u(e), NEW s, s = e.four
  PROVE  u = IF e.mm THEN <<s[1], s[2], s[3], s[4]>> ELSE <<s[4], s[3], s[2], s[1]>>
  BY Four DEF IsEntry, Get32u

\* The bytes of the first and of the later numbers, one, two or four of them.
LEMMA OneByte ==
  ASSUME NEW s \in [1..4 -> Nat], NEW k \in 1..4
  PROVE  SubSeq(s, k, k) = <<s[k]>> /\ Reverse(<<s[k]>>) = <<s[k]>>
  <1>1. s = <<s[1], s[2], s[3], s[4]>> /\ Len(s) = 4 /\ s \in Seq(Nat)
    BY Four
  <1>2. Reverse(<<s[k]>>) = [i \in 1..1 |-> (<<s[k]>>)[(1 - i) + 1]]
    BY DEF Reverse
  <1>3. Reverse(<<s[k]>>) = <<s[k]>>
    BY <1>2
  <1>4. SubSeq(s, k, k) = <<s[k]>>
    <2>1. PICK t : t = SubSeq(s, k, k)
      OBVIOUS
    <2>2. t \in Seq(Nat) /\ Len(t) = 1 /\ t[1] = s[k]
      BY <2>1, SubSeqProperties
    <2> QED
      BY <2>1, <2>2, Single
  <1> QED
    BY <1>3, <1>4

LEMMA TwoBytes ==
  ASSUME NEW s \in [1..4 -> Nat], NEW k \in {1, 3}
  PROVE  /\ SubSeq(s, k, k + 1) = <<s[k], s[k + 1]>>
         /\ Reverse(<<s[k], s[k + 1]>>) = <<s[k + 1], s[k]>>
  <1>1. s = <<s[1], s[2], s[3], s[4]>> /\ Len(s) = 4 /\ s \in Seq(Nat)
    BY Four
  <1>2. PICK a, b : a = s[k] /\ b = s[k + 1]
    OBVIOUS
  <1>3. Reverse(<<a, b>>) = [i \in 1..2 |-> (<<a, b>>)[(2 - i) + 1]]
    BY DEF Reverse
  <1>4. Reverse(<<a, b>>) = <<b, a>>
    BY <1>3
  <1>5. SubSeq(s, k, k + 1) = <<s[k], s[k + 1]>>
    <2>1. PICK t : t = SubSeq(s, k, k + 1)
      OBVIOUS
    <2>2. t \in Seq(Nat) /\ Len(t) = 2 /\ t[1] = s[k] /\ t[2] = s[k + 1]
      BY <2>1, SubSeqProperties
    <2> QED
      BY <2>1, <2>2, Pair
  <1> QED
    BY <1>2, <1>4, <1>5

LEMMA FourBytes ==
  ASSUME NEW s \in [1..4 -> Nat]
  PROVE  SubSeq(s, 1, 4) = s
  BY Four

\* The numbers of the file, by the size of their type.
LEMMA MeantBytes ==
  ASSUME NEW e, IsEntry(e), e.type \in {1, 2, 6}
  PROVE  Meant(e) = [k \in 1..e.count |-> Number(e, <<e.four[k]>>)]
  <1>1. UnitOf(e.type) = 1
    BY DEF UnitOf
  <1>2. ASSUME NEW k \in 1..e.count
        PROVE  /\ SubSeq(e.four, 1 * (k - 1) + 1, 1 * k) = <<e.four[k]>>
               /\ Reverse(<<e.four[k]>>) = <<e.four[k]>>
    <2>1. 1 * (k - 1) + 1 = k /\ 1 * k = k /\ k \in 1..4
      BY DEF IsEntry
    <2> QED
      BY <2>1, OneByte DEF IsEntry
  <1> QED
    BY <1>1, <1>2 DEF Meant, Number

\* Turned around twice, they are as they were.
LEMMA ReverseTwice ==
  ASSUME NEW s \in [1..4 -> Nat], NEW r, r = Reverse(s)
  PROVE  r \in [1..4 -> Nat] /\ Reverse(r) = s
  <1>1. r = <<s[4], s[3], s[2], s[1]>>
    BY Four
  <1>2. r \in [1..4 -> Nat] /\ r[1] = s[4] /\ r[2] = s[3] /\ r[3] = s[2] /\ r[4] = s[1]
    BY <1>1
  <1>3. Reverse(r) = <<s[1], s[2], s[3], s[4]>>
    BY <1>2, Four
  <1> QED
    BY <1>2, <1>3, Four

\* A number that is not read with a wrong sign is printed.
LEMMA SignRight ==
  ASSUME NEW e, ~WrongSign(e), e.type \notin {4, 9}, NEW k \in 1..e.count, NEW b,
         Meant(e)[k] = Number(e, b)
  PROVE  Number(e, b) = Printed(b)
  <1> DEFINE negative == e.type \in {6, 8, 9} /\ b[1] >= 128
  <1>1. Number(e, b) = [bytes |-> b, negative |-> negative]
    BY DEF Number
  <1>2. Meant(e)[k].negative = negative
    BY <1>1
  <1>3. negative = FALSE
    <2>1. Meant(e)[k].negative = (e.type \in {4, 9} /\ Meant(e)[k].bytes[1] >= 128)
      BY Zenon DEF WrongSign
    <2> QED
      BY <1>2, <2>1, Zenon
  <1> QED
    BY <1>1, <1>3, Zenon DEF Printed

\* The number at position k of those of two bytes.
PairAt(e, k) ==
  LET s == e.four
  IN  Number(e, IF e.mm THEN <<s[2 * k - 1], s[2 * k]>> ELSE <<s[2 * k], s[2 * k - 1]>>)

\* The numbers of two bytes that the file has, and the one of four.
LEMMA MeantPairs ==
  ASSUME NEW e, IsEntry(e), e.type \in {3, 8}, e.count <= 2
  PROVE  Meant(e) = [k \in 1..e.count |-> PairAt(e, k)]
  <1>1. UnitOf(e.type) = 2
    BY DEF UnitOf
  <1>2. PICK s : s = e.four /\ s \in [1..4 -> Nat]
    BY DEF IsEntry
  <1>3. ASSUME NEW k \in 1..e.count
        PROVE  /\ SubSeq(s, 2 * (k - 1) + 1, 2 * k) = <<s[2 * k - 1], s[2 * k]>>
               /\ Reverse(<<s[2 * k - 1], s[2 * k]>>) = <<s[2 * k], s[2 * k - 1]>>
    <2>1. PICK j \in {1, 3} : 2 * (k - 1) + 1 = j /\ 2 * k = j + 1 /\ 2 * k - 1 = j
      BY DEF IsEntry
    <2> QED
      BY ONLY <2>1, <1>2, TwoBytes
  <1> QED
    BY <1>1, <1>2, <1>3 DEF Meant, Number, PairAt

LEMMA MeantWhole ==
  ASSUME NEW e, IsEntry(e), e.type \in {4, 9}, e.count = 1, NEW u, u = Get32u(e)
  PROVE  Meant(e) = <<Number(e, u)>>
  <1>1. UnitOf(e.type) = 4
    BY DEF UnitOf
  <1>2. ASSUME NEW k \in 1..e.count
        PROVE  SubSeq(e.four, 4 * (k - 1) + 1, 4 * k) = e.four
    <2>1. 4 * (k - 1) + 1 = 1 /\ 4 * k = 4
      OBVIOUS
    <2> QED
      BY <2>1, FourBytes DEF IsEntry
  <1>3. u = IF e.mm THEN e.four ELSE Reverse(e.four)
    BY DEF Get32u
  <1>4. Meant(e) = [k \in 1..1 |-> Number(e, u)]
    <2>1. Meant(e) = [k \in 1..e.count |-> Number(e, u)]
      BY ONLY <1>1, <1>2, <1>3 DEF Meant, Number
    <2>2. e.count = 1
      OBVIOUS
    <2> QED
      BY ONLY <2>1, <2>2
  <1> QED
    BY <1>4

\* BYTE, ASCII and SBYTE.
LEMMA BytesRight ==
  ASSUME NEW e, IsSmallEntry(e), e.type \in {1, 2, 6}
  PROVE  SmallRight(e, SmallText(e))
  <1> DEFINE s == e.four
             Shown == [k \in 1..e.count |-> Printed(<<s[k]>>)]
  <1> SUFFICES ASSUME ~ReadAsMM(e), ~WrongSign(e)
               PROVE  SmallText(e) = Meant(e)
    BY DEF SmallRight, IsSmallEntry
  <1>1. IsEntry(e) /\ s \in [1..4 -> Nat] /\ e.count \in 0..4 /\ e.mm \in BOOLEAN
    BY DEF IsSmallEntry, IsEntry
  <1>2. Meant(e) = [k \in 1..e.count |-> Number(e, <<s[k]>>)]
    BY <1>1, MeantBytes
  <1>3. Meant(e) = Shown
    <2>1. ASSUME NEW k \in 1..e.count
          PROVE  Number(e, <<s[k]>>) = Printed(<<s[k]>>)
      <3>1. Meant(e)[k] = Number(e, <<s[k]>>) /\ e.type \notin {4, 9}
        BY <1>2
      <3> QED
        BY <3>1, SignRight
    <2> QED
      BY <1>2, <2>1, Zenon
  <1>4. Bytes(s, e.count) = Shown
    BY DEF Bytes
  <1>5. PICK r : r = Reverse(s)
    OBVIOUS
  <1>6. r \in [1..4 -> Nat] /\ Reverse(r) = s
    BY <1>1, <1>5, ReverseTwice
  <1>7. CASE e.type = 1
    BY <1>3, <1>4, <1>5, <1>6, <1>7
    DEF SmallText, ByteText, Get32u
  <1>8. CASE e.type = 2
    BY <1>3, <1>4, <1>5, <1>6, <1>8
    DEF SmallText, AsciiText, Get32u, ReadAsMM
  <1>9. CASE e.type = 6
    BY <1>3, <1>4, <1>9
    DEF SmallText, SbyteText, Get32u, ReadAsMM
  <1> QED
    BY <1>7, <1>8, <1>9

\* LONG and SLONG.
LEMMA LongsRight ==
  ASSUME NEW e, IsSmallEntry(e), e.type \in {4, 9}
  PROVE  SmallRight(e, SmallText(e))
  <1> SUFFICES ASSUME ~WrongSign(e)
               PROVE  SmallText(e) = Meant(e)
    BY DEF SmallRight, IsSmallEntry
  <1>1. IsEntry(e) /\ e.count = 1
    BY DEF IsSmallEntry
  <1>2. PICK u : u = Get32u(e)
    OBVIOUS
  <1>3. Meant(e) = <<Number(e, u)>>
    BY <1>1, <1>2, MeantWhole
  <1> DEFINE negative == e.type \in {6, 8, 9} /\ u[1] >= 128
  <1>4. negative = (u[1] >= 128)
    <2>1. 1 \in 1..e.count /\ Meant(e)[1] = Number(e, u)
      BY <1>1, <1>3
    <2>2. Number(e, u) = [bytes |-> u, negative |-> negative]
      BY DEF Number
    <2>3. Number(e, u).negative = negative /\ Number(e, u).bytes = u
      BY <2>2
    <2>4. Number(e, u).negative = (e.type \in {4, 9} /\ Number(e, u).bytes[1] >= 128)
      BY <2>1, Zenon DEF WrongSign
    <2>5. (e.type \in {4, 9} /\ u[1] >= 128) = (u[1] >= 128)
      OBVIOUS
    <2> QED
      BY <2>3, <2>4, <2>5, Zenon
  <1>5. Number(e, u) = [bytes |-> u, negative |-> u[1] >= 128]
    BY <1>4, Zenon DEF Number
  <1>6. SmallText(e) = <<[bytes |-> u, negative |-> u[1] >= 128]>>
    BY <1>2 DEF SmallText, LongText
  <1> QED
    BY <1>3, <1>5, <1>6

\* The halves of what Get32u gives.
LEMMA Halves ==
  ASSUME NEW e, IsEntry(e), NEW u, u = Get32u(e), NEW s, s = e.four
  PROVE  /\ e.mm => High(u) = <<s[1], s[2]>> /\ Low(u) = <<s[3], s[4]>>
         /\ ~e.mm => High(u) = <<s[4], s[3]>> /\ Low(u) = <<s[2], s[1]>>
  BY Wholes DEF High, Low

\* SHORT and SSHORT.
LEMMA ShortsRight ==
  ASSUME NEW e, IsSmallEntry(e), e.type \in {3, 8}
  PROVE  SmallRight(e, SmallText(e))
  <1>1. IsEntry(e) /\ e.count \in 0..2 /\ e.mm \in BOOLEAN /\ e.iso \in BOOLEAN
    <2>1. UnitOf(e.type) = 2
      BY DEF UnitOf
    <2> QED
      BY <2>1 DEF IsSmallEntry, IsEntry, IsSmall
  <1>2. PICK u, s, m : u = Get32u(e) /\ s = e.four /\ m = Meant(e)
    OBVIOUS
  <1>3. PICK high, low : high = High(u) /\ low = Low(u)
    OBVIOUS
  <1>4. /\ e.mm => high = <<s[1], s[2]>> /\ low = <<s[3], s[4]>>
        /\ ~e.mm => high = <<s[4], s[3]>> /\ low = <<s[2], s[1]>>
    BY <1>1, <1>2, <1>3, Halves
  <1>5. m = [k \in 1..e.count |-> PairAt(e, k)]
    BY <1>1, <1>2, MeantPairs
  <1>6. /\ e.count >= 1 /\ e.mm => m[1] = Number(e, high)
        /\ e.count >= 1 /\ ~e.mm => m[1] = Number(e, low)
        /\ e.count = 2 /\ e.mm => m[2] = Number(e, low)
        /\ e.count = 2 /\ ~e.mm => m[2] = Number(e, high)
    <2>1. PairAt(e, 1) = Number(e, IF e.mm THEN <<s[1], s[2]>> ELSE <<s[2], s[1]>>)
      BY <1>2 DEF PairAt
    <2>2. PairAt(e, 2) = Number(e, IF e.mm THEN <<s[3], s[4]>> ELSE <<s[4], s[3]>>)
      BY <1>2 DEF PairAt
    <2>3. e.count >= 1 => m[1] = PairAt(e, 1)
      BY <1>1, <1>5
    <2>4. e.count = 2 => m[2] = PairAt(e, 2)
      BY <1>1, <1>5
    <2> QED
      BY <1>1, <1>4, <2>1, <2>2, <2>3, <2>4
  <1>7. /\ e.count = 0 => m = <<>>
        /\ e.count = 1 => m = <<m[1]>>
        /\ e.count = 2 => m = <<m[1], m[2]>>
    <2>1. CASE e.count = 0
      BY <1>5, <2>1
    <2>2. CASE e.count = 1
      BY <1>5, <2>2
    <2>3. CASE e.count = 2
      BY <1>5, <2>3
    <2> QED
      BY <1>1, <2>1, <2>2, <2>3
  <1>8. PICK text : text = SmallText(e)
    OBVIOUS
  <1>9. text = ShortText(e)
    BY <1>8 DEF SmallText
  <1>10. CASE ~e.iso
    <2> SUFFICES ASSUME ~ReadAsMM(e), ~WrongSign(e)
                 PROVE  text = m
      BY <1>2, <1>8, <1>10 DEF SmallRight
    <2>1. ASSUME NEW k \in 1..e.count, NEW b, m[k] = Number(e, b)
          PROVE  m[k] = Printed(b)
      <3>1. e.type \notin {4, 9}
        OBVIOUS
      <3> QED
        BY <1>2, <2>1, <3>1, SignRight
    <2>3. CASE e.count = 0
      BY <1>7, <1>9, <1>10, <2>3 DEF ShortText
    <2>4. CASE e.count = 1
      <3>1. m[1] = Printed(IF e.mm THEN high ELSE low)
        BY <1>1, <1>6, <2>1, <2>4
      <3>2. text = <<Printed(IF e.mm THEN high ELSE low)>>
        BY <1>2, <1>3, <1>9, <1>10, <2>4 DEF ShortText
      <3> QED
        BY <1>7, <2>4, <3>1, <3>2
    <2>5. CASE e.count = 2
      <3>1. e.mm
        BY <2>5 DEF ReadAsMM
      <3>2. m[1] = Printed(high) /\ m[2] = Printed(low)
        BY <1>1, <1>6, <2>1, <2>5, <3>1
      <3>3. text = <<Printed(high), Printed(low)>>
        BY <1>2, <1>3, <1>9, <1>10, <2>5 DEF ShortText
      <3> QED
        BY <1>7, <2>5, <3>2, <3>3
    <2> QED
      BY <1>1, <2>3, <2>4, <2>5
  <1>11. CASE e.iso
    <2>1. e.type = 3 /\ e.count \in 1..2
      BY <1>1, <1>11 DEF IsSmallEntry
    <2>2. text = <<Printed(IF low # <<0, 0>> THEN low ELSE high)>>
      BY <1>2, <1>3, <1>9, <1>11 DEF ShortText
    <2>3. \A b : Number(e, b) = Printed(b)
      <3>1. ASSUME NEW b PROVE (e.type \in {6, 8, 9} /\ b[1] >= 128) = FALSE
        BY <2>1
      <3> QED
        BY <3>1, Zenon DEF Number, Printed
    <2> SUFFICES ASSUME ~AfterIso(e)
                 PROVE  \/ Speeds(e) = {} /\ text = <<Printed(<<0, 0>>)>>
                        \/ \E k \in Speeds(e) : text = <<m[k]>>
      BY <1>2, <1>8, <1>11 DEF SmallRight
    <2>4. \A k \in 1..e.count : k \in Speeds(e) <=> m[k].bytes # <<0, 0>>
      BY <1>2 DEF Speeds
    <2>5. Speeds(e) \subseteq 1..e.count
      BY DEF Speeds
    <2>6. \A b : Printed(b).bytes = b
      BY DEF Printed
    <2>7. CASE e.count = 1
      <3>1. <<s[3], s[4]>> = <<0, 0>>
        <4>1. SubSeq(s, 3, 3 + 1) = <<s[3], s[3 + 1]>>
          BY <1>1, <1>2, TwoBytes DEF IsEntry
        <4> QED
          BY <1>2, <2>7, <4>1 DEF AfterIso
      <3>2. m[1] = Printed(IF e.mm THEN high ELSE low)
        BY <1>1, <1>6, <2>3, <2>7
      <3>3. IF e.mm THEN low = <<0, 0>> ELSE high = <<0, 0>>
        <4>1. s[3] = 0 /\ s[4] = 0
          BY <3>1
        <4> QED
          BY <1>1, <1>4, <4>1
      <3>4. CASE m[1].bytes = <<0, 0>>
        <4>1. Speeds(e) = {}
          BY <2>4, <2>5, <2>7, <3>4
        <4>2. text = <<Printed(<<0, 0>>)>>
          BY <1>1, <2>2, <2>6, <3>2, <3>3, <3>4
        <4> QED
          BY <4>1, <4>2
      <3>5. CASE m[1].bytes # <<0, 0>>
        <4>1. 1 \in Speeds(e)
          BY <2>4, <2>7, <3>5
        <4>2. text = <<m[1]>>
          BY <1>1, <2>2, <2>6, <3>2, <3>3, <3>5
        <4> QED
          BY <4>1, <4>2
      <3> QED
        BY <3>4, <3>5
    <2>8. CASE e.count = 2
      <3>1. PICK i, j \in 1..2 : i # j /\ m[i] = Printed(low) /\ m[j] = Printed(high)
        <4>1. CASE e.mm
          BY <1>6, <2>3, <2>8, <4>1
        <4>2. CASE ~e.mm
          BY <1>6, <2>3, <2>8, <4>2
        <4> QED
          BY <1>1, <4>1, <4>2
      <3>2. CASE low # <<0, 0>>
        BY <2>2, <2>4, <2>6, <2>8, <3>1, <3>2
      <3>3. CASE low = <<0, 0>> /\ high # <<0, 0>>
        BY <2>2, <2>4, <2>6, <2>8, <3>1, <3>3
      <3>4. CASE low = <<0, 0>> /\ high = <<0, 0>>
        <4>1. Speeds(e) = {}
          <5>1. \A k \in 1..2 : k = i \/ k = j
            BY <3>1
          <5> QED
            BY <2>4, <2>5, <2>6, <2>8, <3>1, <3>4, <5>1
        <4> QED
          BY <2>2, <3>4, <4>1
      <3> QED
        BY <3>2, <3>3, <3>4
    <2> QED
      BY <2>1, <2>7, <2>8
  <1> QED
    BY <1>1, <1>10, <1>11

\* For all four bytes, types, counts and byte orders: the text of a small value that
\* extract_and_format_data makes has the numbers of the file, but for the named exceptions.
THEOREM SmallsRight ==
  ASSUME NEW e, IsSmallEntry(e)
  PROVE  SmallRight(e, SmallText(e))
  BY BytesRight, LongsRight, ShortsRight DEF IsSmallEntry

-----------------------------------------------------------------------------
(* Digits. *)

IsBytes(e) == e.four \in [1..4 -> 0..255] /\ e.count \in 1..4 /\ e.mm \in BOOLEAN

\* The digits of bytes: two of each.
LEMMA NibblesOf ==
  ASSUME NEW u \in [1..4 -> 0..255], NEW d, d = Nibbles(u)
  PROVE  /\ d \in [1..8 -> Nat] /\ d \in Seq(Nat) /\ Len(d) = 8
         /\ \A k \in 1..4 : d[2 * k - 1] = u[k] \div 16 /\ d[2 * k] = u[k] % 16
  <1>1. Len(u) = 4
    BY Four
  <1>2. d = [k \in 1..8 |->
              IF k % 2 = 1 THEN u[(k + 1) \div 2] \div 16 ELSE u[(k + 1) \div 2] % 16]
    BY <1>1 DEF Nibbles
  <1>3. \A k \in 1..8 : (k + 1) \div 2 \in 1..4
    OBVIOUS
  <1>4. \A b \in 0..255 : b \div 16 \in Nat /\ b % 16 \in Nat
    OBVIOUS
  <1>5. d \in [1..8 -> Nat]
    BY <1>2, <1>3, <1>4
  <1>6. PICK m \in Nat : m = 8
    OBVIOUS
  <1>7. d \in Seq(Nat) /\ Len(d) = 8
    <2>1. d \in [1..m -> Nat]
      BY <1>5, <1>6
    <2>2. d \in Seq(Nat) /\ Len(d) = m
      BY ONLY <2>1, FunctionIsSeq, Zenon
    <2> QED
      BY <1>6, <2>2
  <1>8. ASSUME NEW k \in 1..4
        PROVE  d[2 * k - 1] = u[k] \div 16 /\ d[2 * k] = u[k] % 16
    <2>1. /\ 2 * k - 1 \in 1..8 /\ (2 * k - 1) % 2 = 1 /\ ((2 * k - 1) + 1) \div 2 = k
          /\ 2 * k \in 1..8 /\ (2 * k) % 2 # 1 /\ ((2 * k) + 1) \div 2 = k
      OBVIOUS
    <2> QED
      BY <1>2, <2>1
  <1> QED
    BY <1>5, <1>7, <1>8

\* The digits of one byte.
LEMMA NibblesOfByte ==
  ASSUME NEW b \in 0..255
  PROVE  Nibbles(<<b>>) = <<b \div 16, b % 16>>
  <1>1. PICK x, y : x = b \div 16 /\ y = b % 16
    OBVIOUS
  <1>2. PICK d : d = Nibbles(<<b>>)
    OBVIOUS
  <1>3. d = [k \in 1..2 |-> IF k % 2 = 1 THEN x ELSE y]
    <2>1. Len(<<b>>) = 1
      OBVIOUS
    <2>2. \A k \in 1..2 : (<<b>>)[(k + 1) \div 2] = b
      <3>1. \A k \in 1..2 : (k + 1) \div 2 = 1
        OBVIOUS
      <3> QED
        BY <3>1
    <2>3. d = [k \in 1..2 |-> LET byte == (<<b>>)[(k + 1) \div 2]
                              IN  IF k % 2 = 1 THEN byte \div 16 ELSE byte % 16]
      BY <1>2, <2>1 DEF Nibbles
    <2> QED
      BY <1>1, <2>2, <2>3
  <1>4. d = <<x, y>>
    <2>1. <<x, y>> = [k \in 1..2 |-> IF k = 1 THEN x ELSE y]
      OBVIOUS
    <2>2. \A k \in 1..2 : (k % 2 = 1) <=> (k = 1)
      OBVIOUS
    <2> QED
      BY <1>3, <2>1, <2>2
  <1> QED
    BY <1>1, <1>2, <1>4

\* The digits begin at the first one that is not 0, or with the last one.
Beginning(d, a) ==
  /\ a \in 1..8
  /\ \A j \in 1..8 : j < a => d[j] = 0
  /\ a = 8 \/ d[a] # 0

\* %x leaves zeros in front out, but for a last one.
LEMMA HexOf ==
  ASSUME NEW d \in [1..8 -> Nat], Len(d) = 8
  PROVE  \E a : Beginning(d, a) /\ Hex(d) = SubSeq(d, a, 8)
  <1> DEFINE visible == {k \in 1..8 : d[k] # 0} \cup {8}
  <1>1. DOMAIN d = 1..8
    OBVIOUS
  <1>2. Hex(d) = SubSeq(d, CHOOSE k \in visible : \A j \in visible : k <= j, 8)
    BY <1>1 DEF Hex
  <1>3. \E k \in visible : \A j \in visible : k <= j
    <2>1. visible \subseteq 1..8 /\ 8 \in visible
      OBVIOUS
    <2> HIDE DEF visible
    <2>2. CASE 1 \in visible
      BY <2>1, <2>2
    <2>3. CASE 1 \notin visible /\ 2 \in visible
      BY <2>1, <2>3
    <2>4. CASE 1 \notin visible /\ 2 \notin visible /\ 3 \in visible
      BY <2>1, <2>4
    <2>5. CASE 1 \notin visible /\ 2 \notin visible /\ 3 \notin visible /\ 4 \in visible
      BY <2>1, <2>5
    <2>6. CASE 1 \notin visible /\ 2 \notin visible /\ 3 \notin visible /\ 4 \notin visible /\ 5 \in visible
      BY <2>1, <2>6
    <2>7. CASE /\ 1 \notin visible /\ 2 \notin visible /\ 3 \notin visible /\ 4 \notin visible
               /\ 5 \notin visible /\ 6 \in visible
      BY <2>1, <2>7
    <2>8. CASE /\ 1 \notin visible /\ 2 \notin visible /\ 3 \notin visible /\ 4 \notin visible
               /\ 5 \notin visible /\ 6 \notin visible
      BY <2>1, <2>8
    <2> QED
      BY <2>2, <2>3, <2>4, <2>5, <2>6, <2>7, <2>8, Zenon
  <1>4. PICK a : a = CHOOSE k \in visible : \A j \in visible : k <= j
    OBVIOUS
  <1>5. a \in visible /\ \A j \in visible : a <= j
    BY <1>3, <1>4, Zenon
  <1>6. Beginning(d, a)
    BY <1>5 DEF Beginning
  <1> QED
    BY <1>2, <1>4, <1>6, Zenon

\* Two digits of those that do not begin too early: the padding stands for zeros.
LEMMA PaddedDigits ==
  ASSUME NEW d \in [1..8 -> Nat], d \in Seq(Nat), NEW c \in 1..4, NEW a, Beginning(d, a),
         a >= 9 - 2 * c, NEW p, p = Padded(SubSeq(d, a, 8), 2 * c)
  PROVE  p \in Seq(Nat) /\ Len(p) = 2 * c /\ \A j \in 1..(2 * c) : p[j] = d[j + 8 - 2 * c]
  <1>1. PICK hex : hex = SubSeq(d, a, 8)
    OBVIOUS
  <1>2. a \in 1..8
    BY DEF Beginning
  <1>3. hex \in Seq(Nat) /\ Len(hex) = 9 - a /\ \A i \in 1..(9 - a) : hex[i] = d[a + i - 1]
    <2>1. ASSUME NEW i \in a..8 PROVE d[i] \in Nat
      <3>1. i \in 1..8
        BY <1>2
      <3> QED
        BY <3>1
    <2>2. /\ hex \in Seq(Nat) /\ Len(hex) = IF a <= 8 THEN 8 - a + 1 ELSE 0
          /\ \A i \in 1..(8 - a + 1) : hex[i] = d[a + i - 1]
      <3>1. a \in Int /\ 8 \in Int
        BY <1>2
      <3> QED
        BY ONLY <1>1, <2>1, <3>1, SubSeqProperties
    <2>3. 8 - a + 1 = 9 - a /\ a <= 8
      BY <1>2
    <2> QED
      BY <2>2, <2>3
  <1>4. PICK z \in Nat : z = 2 * c - (9 - a)
    BY <1>2
  <1>5. PICK zeros : zeros = [k \in 1..z |-> 0]
    OBVIOUS
  <1>6. zeros \in Seq(Nat) /\ Len(zeros) = z /\ \A k \in 1..z : zeros[k] = 0
    <2>1. zeros \in [1..z -> Nat]
      BY <1>5
    <2>2. z \in Nat
      OBVIOUS
    <2>3. zeros \in Seq(Nat) /\ Len(zeros) = z
      BY ONLY <2>1, <2>2, FunctionIsSeq
    <2> QED
      BY <1>5, <2>3
  <1>7. p = zeros \o hex
    BY <1>1, <1>3, <1>4, <1>5 DEF Padded
  <1>8. p \in Seq(Nat) /\ Len(p) = z + (9 - a)
    BY ONLY <1>3, <1>6, <1>7, ConcatProperties
  <1>9. ASSUME NEW j \in 1..(2 * c) PROVE p[j] = d[j + 8 - 2 * c]
    <2>1. CASE j <= z
      <3>1. p[j] = 0
        <4>1. j \in 1..(Len(zeros) + Len(hex)) /\ j <= Len(zeros) /\ j \in 1..z
          BY <1>2, <1>3, <1>4, <1>6, <2>1
        <4>2. p[j] = IF j <= Len(zeros) THEN zeros[j] ELSE hex[j - Len(zeros)]
          BY ONLY <1>3, <1>6, <1>7, <4>1, ConcatProperties
        <4> QED
          BY <1>6, <4>1, <4>2
      <3>2. j + 8 - 2 * c \in 1..8 /\ j + 8 - 2 * c < a
        BY <1>2, <1>4, <2>1
      <3> QED
        BY <3>1, <3>2 DEF Beginning
    <2>2. CASE j > z
      <3>1. j - z \in 1..(9 - a)
        BY <1>2, <1>4, <2>2
      <3>2. p[j] = hex[j - z]
        <4>1. j \in 1..(Len(zeros) + Len(hex)) /\ ~(j <= Len(zeros))
          BY <1>2, <1>3, <1>4, <1>6, <2>2
        <4>2. p[j] = IF j <= Len(zeros) THEN zeros[j] ELSE hex[j - Len(zeros)]
          BY ONLY <1>3, <1>6, <1>7, <4>1, ConcatProperties
        <4> QED
          BY <1>6, <4>1, <4>2
      <3>3. a + (j - z) - 1 = j + 8 - 2 * c
        BY <1>2, <1>4
      <3> QED
        BY <1>3, <3>1, <3>2, <3>3
    <2> QED
      BY <2>1, <2>2, <1>4
  <1> QED
    BY <1>2, <1>4, <1>8, <1>9

\* A text of pairs.
LEMMA PairsOf ==
  ASSUME NEW c \in 1..4, NEW p \in Seq(Nat), Len(p) >= 2 * c, NEW k \in 1..c
  PROVE  SubSeq(p, 2 * k - 1, 2 * k) = <<p[2 * k - 1], p[2 * k]>>
  <1>1. PICK t : t = SubSeq(p, 2 * k - 1, 2 * k)
    OBVIOUS
  <1>2. \A i \in (2 * k - 1)..(2 * k) : p[i] \in Nat
    <2>1. \A i \in (2 * k - 1)..(2 * k) : i \in 1..Len(p)
      BY LenProperties
    <2> QED
      BY <2>1, LenProperties
  <1>3. 2 * k - 1 \in Int /\ 2 * k \in Int
    OBVIOUS
  <1>4. /\ t \in Seq(Nat) /\ Len(t) = IF 2 * k - 1 <= 2 * k THEN 2 * k - (2 * k - 1) + 1 ELSE 0
        /\ \A i \in 1..(2 * k - (2 * k - 1) + 1) : t[i] = p[(2 * k - 1) + i - 1]
    BY ONLY <1>1, <1>2, <1>3, SubSeqProperties
  <1>5. Len(t) = 2 /\ t[1] = p[2 * k - 1] /\ t[2] = p[2 * k]
    BY <1>4
  <1> QED
    BY <1>1, <1>4, <1>5, Pair

\* Get32u gives bytes.
LEMMA WholeBytes ==
  ASSUME NEW e, IsBytes(e), NEW u, u = Get32u(e), NEW s, s = e.four
  PROVE  /\ u \in [1..4 -> 0..255] /\ s \in [1..4 -> 0..255] /\ e.mm \in BOOLEAN /\ e.count \in 1..4
         /\ e.mm => u = s
         /\ ~e.mm => u[1] = s[4] /\ u[2] = s[3] /\ u[3] = s[2] /\ u[4] = s[1]
  <1>1. s \in [1..4 -> 0..255] /\ e.mm \in BOOLEAN /\ e.count \in 1..4
    BY DEF IsBytes
  <1>2. s \in [1..4 -> Nat]
    BY <1>1
  <1>3. e.mm => u = s
    BY DEF Get32u
  <1>4. ~e.mm => u = <<s[4], s[3], s[2], s[1]>>
    BY <1>2, Four DEF Get32u
  <1> QED
    BY <1>1, <1>3, <1>4

\* For all bytes: the pairs of digits of print_16bit_hex are those of the bytes.
THEOREM HexesRight ==
  ASSUME NEW e, IsBytes(e)
  PROVE  HexRight(e, HexText(e))
  <1>1. PICK u, s, c : u = Get32u(e) /\ s = e.four /\ c = e.count
    OBVIOUS
  <1>2. /\ u \in [1..4 -> 0..255] /\ s \in [1..4 -> 0..255] /\ e.mm \in BOOLEAN /\ c \in 1..4
        /\ e.mm => u = s
        /\ ~e.mm => u[1] = s[4] /\ u[2] = s[3] /\ u[3] = s[2] /\ u[4] = s[1]
    BY <1>1, WholeBytes
  <1>3. PICK d : d = Nibbles(u)
    OBVIOUS
  <1>4. /\ d \in [1..8 -> Nat] /\ d \in Seq(Nat) /\ Len(d) = 8
        /\ \A k \in 1..4 : d[2 * k - 1] = u[k] \div 16 /\ d[2 * k] = u[k] % 16
    BY <1>2, <1>3, NibblesOf
  <1>5. PICK a : Beginning(d, a) /\ Hex(d) = SubSeq(d, a, 8)
    BY <1>4, HexOf
  <1>6. PICK p : p = Padded(SubSeq(d, a, 8), 2 * c)
    OBVIOUS
  <1>7. HexText(e) = [k \in 1..c |-> SubSeq(p, 2 * k - 1, 2 * k)]
    <2>1. HexDigitsOf(e) = p
      BY <1>1, <1>3, <1>5, <1>6 DEF HexDigitsOf
    <2> QED
      BY <1>1, <2>1 DEF HexText
  <1> SUFFICES ASSUME ZeroAfter(e), e.mm => c = 4 \/ s[1] >= 16
               PROVE  HexText(e) =
                        [k \in 1..c |-> Nibbles(<<IF e.mm THEN s[k] ELSE s[c + 1 - k]>>)]
    <2>1. CASE e.mm
      <3>1. CASE c = 4 \/ s[1] >= 16
        <4>1. ZeroAfter(e) =>
                HexText(e) = [k \in 1..c |-> Nibbles(<<s[k]>>)]
          BY <2>1, <3>1
        <4> QED
          BY <1>1, <2>1, <3>1, <4>1 DEF HexRight
      <3>2. CASE ~(c = 4 \/ s[1] >= 16)
        <4>1. c < 4 /\ s[1] < 16
          <5>1. c \in 1..4 /\ s[1] \in 0..255
            BY <1>2
          <5> QED
            BY ONLY <3>2, <5>1
        <4> QED
          BY <1>1, <2>1, <4>1 DEF HexRight
      <3> QED
        BY <3>1, <3>2
    <2>2. CASE ~e.mm
      BY <1>1, <1>2, <2>2 DEF HexRight
    <2> QED
      BY <2>1, <2>2
  <1> DEFINE from(k) == IF e.mm THEN k ELSE k + 4 - c
  <1>8. ASSUME NEW k \in 1..c
        PROVE  from(k) \in 1..4 /\ u[from(k)] = IF e.mm THEN s[k] ELSE s[c + 1 - k]
    <2>1. CASE e.mm
      BY <1>2, <2>1
    <2>2. CASE ~e.mm
      <3>1. from(k) \in 1..4 /\ c + 1 - k = 5 - from(k)
        BY <1>2, <2>2
      <3>2. \A i \in 1..4 : u[i] = s[5 - i]
        BY <1>2, <2>2
      <3> QED
        BY <2>2, <3>1, <3>2
    <2> QED
      BY <2>1, <2>2
  <1>9. /\ p \in Seq(Nat) /\ Len(p) >= 2 * c
        /\ \A k \in 1..c : p[2 * k - 1] = d[2 * from(k) - 1] /\ p[2 * k] = d[2 * from(k)]
    <2>1. CASE e.mm => c = 4
      <3>1. a >= 9 - 2 * c
        <4>1. CASE c = 4
          BY <1>5, <4>1 DEF Beginning
        <4>2. CASE ~e.mm /\ c # 4
          <5>1. \A k \in 1..(4 - c) : u[k] = 0
            BY <1>1, <1>2, <4>2 DEF ZeroAfter
          <5>2. \A k \in 1..(4 - c) : d[2 * k - 1] = 0 /\ d[2 * k] = 0
            <6>1. 0 \div 16 = 0 /\ 0 % 16 = 0
              OBVIOUS
            <6>2. \A k \in 1..(4 - c) : k \in 1..4
              BY <1>2
            <6> QED
              BY <1>4, <5>1, <6>1, <6>2
          <5>3. \A j \in 1..(8 - 2 * c) : d[j] = 0
            <6>1. ASSUME NEW j \in 1..(8 - 2 * c)
                  PROVE  \E k \in 1..(4 - c) : j = 2 * k - 1 \/ j = 2 * k
              <7>1. (j + 1) \div 2 \in 1..(4 - c)
                BY <1>2
              <7>2. j = 2 * ((j + 1) \div 2) - 1 \/ j = 2 * ((j + 1) \div 2)
                OBVIOUS
              <7> QED
                BY <7>1, <7>2
            <6> QED
              BY <5>2, <6>1
          <5> QED
            BY <1>2, <1>5, <5>3 DEF Beginning
        <4> QED
          BY <2>1, <4>1, <4>2
      <3>2. p \in Seq(Nat) /\ Len(p) = 2 * c /\ \A j \in 1..(2 * c) : p[j] = d[j + 8 - 2 * c]
        BY ONLY <1>2, <1>4, <1>5, <1>6, <3>1, PaddedDigits
      <3>3. ASSUME NEW k \in 1..c
            PROVE  p[2 * k - 1] = d[2 * from(k) - 1] /\ p[2 * k] = d[2 * from(k)]
        <4>1. /\ 2 * k - 1 \in 1..(2 * c) /\ 2 * k \in 1..(2 * c)
              /\ (2 * k - 1) + 8 - 2 * c = 2 * from(k) - 1 /\ 2 * k + 8 - 2 * c = 2 * from(k)
          BY <1>2, <2>1
        <4> QED
          BY <3>2, <4>1
      <3> QED
        BY <1>2, <3>2, <3>3
    <2>2. CASE e.mm /\ s[1] >= 16
      <3>1. d[1] # 0
        <4>1. d[2 * 1 - 1] = u[1] \div 16
          BY <1>4
        <4>2. s[1] \div 16 # 0
          BY <1>2, <2>2
        <4> QED
          BY <1>2, <2>2, <4>1, <4>2
      <3>2. a = 1
        BY <1>5, <3>1 DEF Beginning
      <3>3. SubSeq(d, 1, 8) = d
        BY <1>4
      <3>4. p = d
        <4>1. [k \in 1..(2 * c - 8) |-> 0] = <<>>
          BY <1>2
        <4>2. p = [k \in 1..(2 * c - 8) |-> 0] \o d
          BY <1>4, <1>6, <3>2, <3>3 DEF Padded
        <4> QED
          BY <1>4, <4>1, <4>2, ConcatEmptySeq
      <3>5. ASSUME NEW k \in 1..c
            PROVE  p[2 * k - 1] = d[2 * from(k) - 1] /\ p[2 * k] = d[2 * from(k)]
        BY <2>2, <3>4
      <3>6. p \in Seq(Nat) /\ Len(p) >= 2 * c
        <4>1. p \in Seq(Nat) /\ Len(p) = 8
          BY <1>4, <3>4, Zenon
        <4>2. c \in 1..4
          BY <1>2
        <4> QED
          BY ONLY <4>1, <4>2
      <3> QED
        BY <3>5, <3>6, Zenon
    <2> QED
      BY <1>2, <2>1, <2>2
  <1>10. ASSUME NEW k \in 1..c
         PROVE  SubSeq(p, 2 * k - 1, 2 * k) =
                  Nibbles(<<IF e.mm THEN s[k] ELSE s[c + 1 - k]>>)
    <2>1. SubSeq(p, 2 * k - 1, 2 * k) = <<p[2 * k - 1], p[2 * k]>>
      BY <1>2, <1>9, PairsOf
    <2>2. PICK i \in 1..4 : i = from(k)
      BY <1>8
    <2>3. PICK b \in 0..255 : b = u[i]
      BY <1>2
    <2>4. p[2 * k - 1] = b \div 16 /\ p[2 * k] = b % 16
      <3>1. p[2 * k - 1] = d[2 * i - 1] /\ p[2 * k] = d[2 * i]
        BY <1>9, <2>2
      <3> QED
        BY <1>4, <2>3, <3>1
    <2>5. Nibbles(<<b>>) = <<b \div 16, b % 16>>
      BY NibblesOfByte
    <2>6. b = IF e.mm THEN s[k] ELSE s[c + 1 - k]
      BY <1>8, <2>2, <2>3
    <2> QED
      BY <2>1, <2>4, <2>5, <2>6, Zenon
  <1> QED
    BY <1>7, <1>10, Zenon

\* For all bytes: a small one is shown by print_8bit_bytes as its digit.
LEMMA DigitsRight ==
  ASSUME NEW e, IsBytes(e)
  PROVE  DigitRight(e, DigitText(e))
  <1>1. PICK u, s : u = Get32u(e) /\ s = e.four
    OBVIOUS
  <1>2. /\ u \in [1..4 -> 0..255] /\ s \in [1..4 -> 0..255] /\ e.mm \in BOOLEAN
        /\ e.mm => u = s
        /\ ~e.mm => u[1] = s[4] /\ u[2] = s[3] /\ u[3] = s[2] /\ u[4] = s[1]
    BY <1>1, WholeBytes
  <1> SUFFICES ASSUME e.count = 1, ZeroAfter(e), s[1] < 16
               PROVE  DigitText(e) = <<s[1]>>
    BY <1>1 DEF DigitRight
  <1>3. PICK d : d = Nibbles(u)
    OBVIOUS
  <1>4. /\ d \in [1..8 -> Nat] /\ d \in Seq(Nat) /\ Len(d) = 8
        /\ \A k \in 1..4 : d[2 * k - 1] = u[k] \div 16 /\ d[2 * k] = u[k] % 16
    BY <1>2, <1>3, NibblesOf
  <1>5. PICK a : Beginning(d, a) /\ Hex(d) = SubSeq(d, a, 8)
    BY <1>4, HexOf
  <1>6. PICK b \in 0..15 : b = s[1]
    BY <1>2
  <1>7. s[2] = 0 /\ s[3] = 0 /\ s[4] = 0
    BY <1>1 DEF ZeroAfter
  <1>8. /\ d[1] = u[1] \div 16 /\ d[2] = u[1] % 16 /\ d[3] = u[2] \div 16 /\ d[4] = u[2] % 16
        /\ d[5] = u[3] \div 16 /\ d[6] = u[3] % 16 /\ d[7] = u[4] \div 16 /\ d[8] = u[4] % 16
    <2>1. \A k \in {1, 2, 3, 4} : d[2 * k - 1] = u[k] \div 16 /\ d[2 * k] = u[k] % 16
      BY <1>4
    <2> QED
      BY <2>1
  <1>9. 0 \div 16 = 0 /\ 0 % 16 = 0 /\ b \div 16 = 0 /\ b % 16 = b
    OBVIOUS
  <1>10. PICK digits : digits = Hex(d)
    OBVIOUS
  <1>11. /\ a \in 1..8 /\ digits \in Seq(Nat) /\ Len(digits) = 9 - a
         /\ digits[1] = d[a]
    <2>1. a \in 1..8
      BY <1>5 DEF Beginning
    <2>2. ASSUME NEW i \in a..8 PROVE d[i] \in Nat
      <3>1. i \in 1..8
        BY <2>1
      <3> QED
        BY <1>4, <3>1
    <2>3. a \in Int /\ 8 \in Int
      BY <2>1
    <2>4. /\ digits \in Seq(Nat) /\ Len(digits) = IF a <= 8 THEN 8 - a + 1 ELSE 0
          /\ \A i \in 1..(8 - a + 1) : digits[i] = d[a + i - 1]
      BY ONLY <1>5, <1>10, <2>2, <2>3, SubSeqProperties
    <2>5. 8 - a + 1 = 9 - a /\ a <= 8 /\ 1 \in 1..(9 - a) /\ a + 1 - 1 = a
      BY <2>1
    <2> QED
      BY <2>1, <2>4, <2>5
  <1>12. digits[1] = b
    <2>1. CASE ~e.mm
      <3>1. /\ d[1] = 0 /\ d[2] = 0 /\ d[3] = 0 /\ d[4] = 0 /\ d[5] = 0 /\ d[6] = 0
            /\ d[7] = 0 /\ d[8] = b
        BY <1>2, <1>6, <1>7, <1>8, <1>9, <2>1
      <3>2. a = 8
        <4>1. \A i \in 1..7 : d[i] = 0
          BY <3>1
        <4> QED
          BY <1>5, <4>1 DEF Beginning
      <3> QED
        BY <1>11, <3>1, <3>2
    <2>2. CASE e.mm
      <3>1. /\ d[1] = 0 /\ d[2] = b /\ d[3] = 0 /\ d[4] = 0 /\ d[5] = 0 /\ d[6] = 0
            /\ d[7] = 0 /\ d[8] = 0
        BY <1>2, <1>6, <1>7, <1>8, <1>9, <2>2
      <3>2. CASE b # 0
        <4>1. d[1] = 0 /\ d[2] # 0 /\ 1 \in 1..8 /\ 2 \in 1..8
          BY <3>1, <3>2
        <4>2. a = 2
          BY ONLY <1>5, <4>1 DEF Beginning
        <4> QED
          BY <1>11, <3>1, <4>2
      <3>3. CASE b = 0
        <4>1. \A i \in 1..8 : d[i] = 0
          BY <3>1, <3>3
        <4> QED
          BY <1>11, <3>3, <4>1
      <3> QED
        BY <3>2, <3>3
    <2> QED
      BY <1>2, <2>1, <2>2
  <1>13. DigitText(e) = SubSeq(digits, 1, 1)
    <2>1. DigitText(e) =
            SubSeq(digits, 1, IF 1 < Len(digits) THEN 1 ELSE Len(digits))
      BY <1>1, <1>3, <1>10 DEF DigitText
    <2>2. (IF 1 < Len(digits) THEN 1 ELSE Len(digits)) = 1
      BY <1>11
    <2> QED
      BY <2>1, <2>2
  <1>14. SubSeq(digits, 1, 1) = <<digits[1]>>
    <2>1. PICK t : t = SubSeq(digits, 1, 1)
      OBVIOUS
    <2>2. \A i \in 1..1 : digits[i] \in Nat
      BY <1>12
    <2>3. t \in Seq(Nat) /\ Len(t) = 1 /\ t[1] = digits[1]
      BY <2>1, <2>2, SubSeqProperties
    <2> QED
      BY <2>1, <2>3, Single
  <1> QED
    BY <1>6, <1>12, <1>13, <1>14

\* What integer division of C gives for numbers that are not negative.
LEMMA DivMod ==
  ASSUME NEW a \in Nat, NEW b \in Nat \ {0}
  PROVE  /\ a \div b \in Nat
         /\ (a \div b) * b <= a
         /\ a < (a \div b) * b + b
  OBVIOUS

\* Products of numbers.
LEMMA TimesKeeps ==
  ASSUME NEW a \in Nat, NEW b \in Nat, a <= b, NEW c \in Nat
  PROVE  a * c <= b * c
  OBVIOUS

LEMMA TimesLess ==
  ASSUME NEW a \in Nat, NEW b \in Nat, NEW c \in Nat, a * c < b * c
  PROVE  a < b
  OBVIOUS

LEMMA TimesMost ==
  ASSUME NEW a \in Nat, NEW b \in Nat, NEW c \in Nat \ {0}, a * c <= b * c
  PROVE  a <= b
  OBVIOUS

LEMMA TimesType ==
  ASSUME NEW a \in Nat, NEW b \in Nat
  PROVE  a * b \in Nat /\ a * b = b * a /\ (a + 1) * b = a * b + b
  OBVIOUS

-----------------------------------------------------------------------------
(* Lenses and shutter speeds. *)

\* Cutting leaves the largest multiple.
LEMMA ModBelow ==
  ASSUME NEW m \in Nat, NEW d \in Nat \ {0}
  PROVE  /\ m % d \in Nat /\ m % d < d
         /\ m \div d = 0 => m < d
  OBVIOUS

\* What is left of a number, and how much less it is.
LEMMA TruncatedWithin ==
  ASSUME NEW m \in Nat
  PROVE  /\ Within(Truncate(m, 0), m, 1000000)
         /\ Within(Truncate(m, 2), m, 100000)
         /\ Within(FocalLength(m), m, 100000)
         /\ Within(FocalLength(m), m, 1000000)
  <1>1. /\ Truncate(m, 0) = m - (m % 1000000)
        /\ Truncate(m, 2) = m - (m % 100000)
    BY SMT DEF Truncate, Million
  <1>2. FocalLength(m) =
          IF (m % 1000000) \div 100000 = 0 THEN m - (m % 1000000) ELSE m - (m % 100000)
    BY <1>1, SMT DEF FocalLength, Precision, Tenth, Million
  <1>3. PICK a, b \in Nat : /\ a = m % 1000000 /\ a < 1000000
                            /\ b = m % 100000 /\ b < 100000
    BY ModBelow, SMT
  <1>4. a \div 100000 = 0 => a < 100000
    BY ModBelow, SMT
  <1> HIDE DEF Truncate, FocalLength
  <1>5. /\ Truncate(m, 0) = m - a /\ Truncate(m, 2) = m - b
        /\ \/ FocalLength(m) = m - a /\ a < 100000
           \/ FocalLength(m) = m - b
    BY <1>1, <1>2, <1>3, <1>4, SMT
  <1>6. \A c \in Nat, d \in Nat : c < d => Within(m - c, m, d)
    BY SMT DEF Within
  <1> QED
    BY <1>3, <1>5, <1>6, SMT

\* For all focal lengths and apertures: convert_lens never rounds up, and cuts off less
\* than a tenth, or a millimeter of the longer focal length.
THEOREM LensesRight ==
  ASSUME NEW l \in [1..4 -> Nat]
  PROVE  LensRight(l, ConvertLens(l))
  <1>1. PICK a, b, c, d \in Nat : a = l[1] /\ b = l[2] /\ c = l[3] /\ d = l[4]
    BY SMT
  <1>2. PICK text : text = ConvertLens(l)
    BY SMT
  <1>3. /\ text.from = FocalLength(a)
        /\ text.to = IF a = b /\ c = d THEN FocalLength(a) ELSE Truncate(b, 0)
        /\ text.widest = Truncate(c, 2)
        /\ text.narrowest = IF c = d THEN Truncate(c, 2) ELSE Truncate(d, 2)
    BY <1>1, <1>2, SMT DEF ConvertLens
  <1>4. \A m \in Nat :
          /\ Within(Truncate(m, 0), m, 1000000)
          /\ Within(Truncate(m, 2), m, 100000)
          /\ Within(FocalLength(m), m, 100000)
          /\ Within(FocalLength(m), m, 1000000)
    BY TruncatedWithin, SMT
  <1>5. Within(text.from, a, 100000) /\ Within(text.widest, c, 100000)
    BY <1>3, <1>4, SMT
  <1>6. Within(text.to, b, 1000000)
    BY <1>3, <1>4, SMT
  <1>7. Within(text.narrowest, d, 100000)
    BY <1>3, <1>4, SMT
  <1> QED
    BY <1>1, <1>2, <1>5, <1>6, <1>7, SMT DEF LensRight, Million

\* The number m next to half of k over n.
IsRounded(k, m, n) ==
  m \in Nat /\ \E p \in Nat : p = m * n /\ 2 * p <= k + n /\ k < 2 * p + n

\* The nearest multiple, and how far it is away.
LEMMA Rounding ==
  ASSUME NEW k \in Nat, NEW n \in Nat \ {0}
  PROVE  IsRounded(k, (k + n) \div (2 * n), n)
  <1>1. PICK d \in Nat \ {0} : d = 2 * n
    OBVIOUS
  <1>2. k + n \in Nat
    OBVIOUS
  <1>3. PICK m \in Nat : m = (k + n) \div d /\ m * d <= k + n /\ k + n < m * d + d
    BY ONLY <1>2, DivMod, d \in Nat \ {0}
  <1>4. PICK p \in Nat : p = m * n
    BY TimesType
  <1>5. m * d = 2 * p
    <2>1. m * (2 * n) = 2 * (m * n)
      OBVIOUS
    <2> QED
      BY <1>1, <1>4, <2>1
  <1>6. 2 * p <= k + n /\ k < 2 * p + n
    BY <1>1, <1>3, <1>5
  <1>7. IsRounded(k, m, n)
    BY <1>4, <1>6 DEF IsRounded
  <1> QED
    BY <1>1, <1>3, <1>7, Zenon

LEMMA Deviation ==
  ASSUME NEW m \in Nat, m >= 125, NEW n \in Nat, n > 1000, NEW t \in Nat,
         2 * (m * t) < n + m
  PROVE  200 * t <= n
  <1> SUFFICES ASSUME n + 1 <= 200 * t PROVE FALSE
    BY SMT
  <1>1. PICK a \in Nat : a = m - 100
    BY SMT
  <1>2. PICK mn, mt, an \in Nat : mn = m * n /\ mt = m * t /\ an = a * n
    BY TimesType, SMT
  <1>3. (n + 1) * m <= (200 * t) * m
    BY TimesKeeps, SMT
  <1>4. (n + 1) * m = mn + m /\ (200 * t) * m = 200 * mt
    BY <1>2, SMT
  <1>5. mn = an + 100 * n
    <2>1. m = a + 100
      BY <1>1, SMT
    <2>2. (a + 100) * n = a * n + 100 * n
      BY SMT
    <2> QED
      BY <1>2, <2>1, <2>2, SMT
  <1>6. a * 1001 <= a * n
    <2>1. 1001 * a <= n * a
      BY TimesKeeps, SMT
    <2> QED
      BY <2>1, TimesType, SMT
  <1> QED
    BY <1>1, <1>2, <1>3, <1>4, <1>5, <1>6, SMT

\* The number that is shown, of the number of millionths.
LEMMA Shown ==
  ASSUME NEW k \in Nat, NEW n \in Nat, NEW m, NEW s, IsRounded(k, m, n), IsRounded(k, s, m)
  PROVE  /\ m >= n /\ m > 0 => s = n
         /\ m >= 125 /\ n > 1000 => 200 * (s - n) <= n /\ 200 * (n - s) <= n
  <1> m \in Nat /\ s \in Nat
    BY DEF IsRounded
  <1>0. PICK mn, ms \in Nat :
          /\ mn = m * n /\ 2 * mn <= k + n /\ k < 2 * mn + n
          /\ ms = s * m /\ 2 * ms <= k + m /\ k < 2 * ms + m
    BY DEF IsRounded
  <1>1. ASSUME m >= n, m > 0 PROVE s = n
    <2>1. (s + 1) * m = ms + m /\ (n + 1) * m = mn + m /\ n * m = mn
      BY <1>0, TimesType
    <2>2. mn < ms + m /\ ms < mn + m
      BY <1>0, <1>1
    <2>3. n * m < (s + 1) * m /\ s * m < (n + 1) * m
      BY <2>1, <2>2
    <2>4. n < s + 1 /\ s < n + 1
      <3>1. s + 1 \in Nat /\ n + 1 \in Nat
        OBVIOUS
      <3> QED
        BY ONLY <2>3, <3>1, TimesLess, m \in Nat, s \in Nat, n \in Nat
    <2> QED
      BY <2>4
  <1>2. ASSUME m >= 125, n > 1000
        PROVE  200 * (s - n) <= n /\ 200 * (n - s) <= n
    <2>1. CASE s >= n
      <3>1. PICK t \in Nat : t = s - n
        BY <2>1
      <3>2. m * t = ms - mn
        <4>1. m * (s - n) = s * m - m * n
          OBVIOUS
        <4> QED
          BY <1>0, <3>1, <4>1
      <3>3. 2 * (m * t) < n + m
        BY <1>0, <3>2
      <3>4. 200 * t <= n
        BY ONLY <1>2, <3>3, Deviation, m \in Nat, n \in Nat, t \in Nat
      <3> QED
        BY <3>1, <3>4
    <2>2. CASE s < n
      <3>1. PICK t \in Nat : t = n - s
        BY <2>2
      <3>2. m * t = mn - ms
        <4>1. m * (n - s) = m * n - s * m
          OBVIOUS
        <4> QED
          BY <1>0, <3>1, <4>1
      <3>3. 2 * (m * t) < n + m
        BY <1>0, <3>2
      <3>4. 200 * t <= n
        BY ONLY <1>2, <3>3, Deviation, m \in Nat, n \in Nat, t \in Nat
      <3> QED
        BY <3>1, <3>4
    <2> QED
      BY <2>1, <2>2
  <1> QED
    BY <1>1, <1>2

\* A small enough number has a large rounding.
LEMMA RoundedAbove ==
  ASSUME NEW k \in Nat, NEW n \in Nat, NEW m, IsRounded(k, m, n),
         NEW c \in Nat, (2 * c + 1) * n <= k
  PROVE  c < m
  <1> m \in Nat
    BY DEF IsRounded
  <1>1. PICK mn \in Nat : mn = m * n /\ k < 2 * mn + n
    BY DEF IsRounded
  <1>2. PICK cn \in Nat : cn = c * n
    BY TimesType
  <1>3. (2 * c + 1) * n = 2 * cn + n
    <2>1. (2 * c + 1) * n = 2 * (c * n) + n
      OBVIOUS
    <2> QED
      BY <1>2, <2>1
  <1>4. c * n < m * n
    BY <1>1, <1>2, <1>3
  <1> QED
    BY <1>4, TimesLess

\* The millionths m of a second that one over n is, and the number s shown for them.
TwoRounded(k, n) ==
  \E m, s : /\ m = (k + n) \div (2 * n) /\ IsRounded(k, m, n) /\ m > 0
            /\ s = (k + m) \div (2 * m) /\ IsRounded(k, s, m)

\* The exposure time is rounded to millionths, and its inverse again.
LEMMA TwoRoundings ==
  ASSUME NEW k \in Nat, NEW n \in Nat \ {0}, n < k
  PROVE  TwoRounded(k, n)
  <1> DEFINE m == (k + n) \div (2 * n)
             s == (k + m) \div (2 * m)
  <1>1. IsRounded(k, m, n)
    BY Rounding, Zenon
  <1>2. m \in Nat
    BY <1>1 DEF IsRounded
  <1>3. m > 0
    <2>1. (2 * 0 + 1) * n <= k
      OBVIOUS
    <2> QED
      BY <1>1, <2>1, RoundedAbove
  <1>4. m \in Nat \ {0}
    BY <1>2, <1>3
  <1>5. IsRounded(k, s, m)
    BY <1>4, Rounding, Zenon
  <1> QED
    BY <1>1, <1>3, <1>5, Zenon DEF TwoRounded

\* The exposures of the camera: one over n seconds.
IsSpeed(n) == n \in 2..8000

\* For all exposures of the camera: display_data shows one over the number itself up to
\* 1000, and above one that is at most a 200th away.
THEOREM ShuttersRight ==
  ASSUME NEW n, IsSpeed(n)
  PROVE  ShutterRight(n, ShutterFraction(Millionths(1, n)))
  <1> n \in 2..8000
    BY SMT DEF IsSpeed
  <1>1. PICK k \in Nat : k = 2000000
    BY SMT
  <1>2. n \in Nat \ {0} /\ n < k
    BY <1>1, SMT
  <1>3. PICK m, s : /\ m = (k + n) \div (2 * n) /\ IsRounded(k, m, n) /\ m > 0
                    /\ s = (k + m) \div (2 * m) /\ IsRounded(k, s, m)
    <2>1. TwoRounded(k, n)
      BY <1>2, TwoRoundings, SMT
    <2> QED
      BY <2>1, SMT DEF TwoRounded
  <1>4. ShutterFraction(Millionths(1, n)) = s
    <2>1. 2 * 1 * Million = k /\ 2 * Million = k
      BY <1>1, SMT DEF Million
    <2>2. Millionths(1, n) = m
      BY <1>3, <2>1, SMT DEF Millionths
    <2> QED
      BY ONLY <1>3, <2>1, <2>2, SMT DEF ShutterFraction
  <1>5. n \in Nat
    BY SMT
  <1>6. IsRounded(k, m, n) /\ m > 0 /\ IsRounded(k, s, m)
    BY <1>3
  <1>7. m \in Nat /\ s \in Nat
    BY <1>6, SMT DEF IsRounded
  <1>8. /\ m >= n => s = n
        /\ m >= 125 /\ n > 1000 => 200 * (s - n) <= n /\ 200 * (n - s) <= n
    BY <1>5, <1>6, Shown, SMT
  <1>9. n <= 1000 => m >= n
    <2>1. n <= 1000 => (2 * 999 + 1) * n <= k
      BY <1>1, SMT
    <2>2. n <= 1000 => 999 < m
      BY <1>5, <1>6, <2>1, RoundedAbove, SMT
    <2> QED
      BY <1>5, <1>7, <2>2, SMT
  <1>10. m >= 125
    <2>1. (2 * 124 + 1) * n <= k
      BY <1>1, SMT
    <2>2. 124 < m
      BY <1>5, <1>6, <2>1, RoundedAbove, SMT
    <2> QED
      BY <1>7, <2>2, SMT
  <1>11. CASE n <= 1000
    <2>1. s = n
      BY <1>8, <1>9, <1>11, SMT
    <2>2. 200 * (n - n) <= n
      BY SMT
    <2> QED
      BY <1>4, <2>1, <2>2, SMT DEF ShutterRight
  <1>12. CASE n > 1000
    <2>1. 200 * (s - n) <= n /\ 200 * (n - s) <= n
      BY <1>8, <1>10, <1>12, SMT
    <2> QED
      BY <1>4, <1>12, <2>1, SMT DEF ShutterRight
  <1> QED
    BY <1>11, <1>12, SMT

-----------------------------------------------------------------------------
(* The names of codes. *)

\* Sequences of one number, and of two.
LEMMA OfOne ==
  ASSUME NEW a \in Nat
  PROVE  <<a>> \in Seq(Nat) /\ Len(<<a>>) = 1 /\ (<<a>>)[1] = a
  OBVIOUS

LEMMA OfTwo ==
  ASSUME NEW a \in Nat, NEW b \in Nat
  PROVE  <<a, b>> \in Seq(Nat) /\ Len(<<a, b>>) = 2 /\ (<<a, b>>)[1] = a /\ (<<a, b>>)[2] = b
  OBVIOUS

\* What begins with one digit, or with two.
LEMMA PrefixOne ==
  ASSUME NEW a \in Nat, NEW t \in Seq(Nat), IsPrefix(<<a>>, t)
  PROVE  Len(t) >= 1 /\ t[1] = a
  <1>1. 1 <= Len(t) /\ SubSeq(<<a>>, 1, 1) = SubSeq(t, 1, 1)
    BY OfOne DEF IsPrefix
  <1>2. SubSeq(<<a>>, 1, 1)[1] = a
    BY SubSeqProperties
  <1>3. SubSeq(t, 1, 1)[1] = t[1]
    <2>1. \A i \in 1..1 : t[i] \in Nat
      BY <1>1, LenProperties
    <2>2. 1 \in Int /\ 1 \in 1..(1 - 1 + 1) /\ 1 + 1 - 1 = 1
      OBVIOUS
    <2> QED
      BY <2>1, <2>2, SubSeqProperties
  <1> QED
    BY <1>1, <1>2, <1>3

LEMMA PrefixTwo ==
  ASSUME NEW a \in Nat, NEW b \in Nat, NEW t \in Seq(Nat), IsPrefix(<<a, b>>, t)
  PROVE  Len(t) >= 2 /\ t[1] = a /\ t[2] = b
  <1>1. 2 <= Len(t) /\ SubSeq(<<a, b>>, 1, 2) = SubSeq(t, 1, 2)
    BY OfTwo DEF IsPrefix
  <1>2. SubSeq(<<a, b>>, 1, 2)[1] = a /\ SubSeq(<<a, b>>, 1, 2)[2] = b
    <2>1. PICK s : s = <<a, b>> /\ s[1] = a /\ s[2] = b
      BY OfTwo
    <2>2. \A i \in 1..2 : s[i] \in Nat
      BY <2>1
    <2>3. /\ 1 \in Int /\ 2 \in Int /\ 1 \in 1..(2 - 1 + 1) /\ 2 \in 1..(2 - 1 + 1)
          /\ 1 + 1 - 1 = 1 /\ 1 + 2 - 1 = 2
      OBVIOUS
    <2>4. \A i \in 1..(2 - 1 + 1) : SubSeq(s, 1, 2)[i] = s[1 + i - 1]
      BY ONLY <2>2, <2>3, SubSeqProperties
    <2>5. SubSeq(s, 1, 2)[1] = a /\ SubSeq(s, 1, 2)[2] = b
      BY <2>1, <2>3, <2>4
    <2> QED
      BY <2>1, <2>5
  <1>3. SubSeq(t, 1, 2)[1] = t[1] /\ SubSeq(t, 1, 2)[2] = t[2]
    <2>1. \A i \in 1..2 : t[i] \in Nat
      BY <1>1, LenProperties
    <2>2. /\ 1 \in Int /\ 2 \in Int /\ 1 \in 1..(2 - 1 + 1) /\ 2 \in 1..(2 - 1 + 1)
          /\ 1 + 1 - 1 = 1 /\ 1 + 2 - 1 = 2
      OBVIOUS
    <2>3. \A i \in 1..(2 - 1 + 1) : SubSeq(t, 1, 2)[i] = t[1 + i - 1]
      BY ONLY <2>1, <2>2, SubSeqProperties
    <2> QED
      BY <2>2, <2>3
  <1> QED
    BY <1>1, <1>2, <1>3

\* The digits of a number.
LEMMA DigitsOf ==
  ASSUME NEW m \in 0..255, NEW t, t = Digits(m)
  PROVE  /\ t \in Seq(Nat)
         /\ m < 10 => t = <<m>>
         /\ 10 <= m /\ m < 100 => t = <<m \div 10, m % 10>>
         /\ 100 <= m => t = <<m \div 100, (m \div 10) % 10, m % 10>>
  <1>1. CASE m < 10
    BY <1>1 DEF Digits
  <1>2. CASE 10 <= m /\ m < 100
    <2>1. m \div 10 \in Nat /\ m % 10 \in Nat
      OBVIOUS
    <2>2. t = <<m \div 10, m % 10>>
      BY <1>2 DEF Digits
    <2> QED
      BY <1>2, <2>1, <2>2
  <1>3. CASE 100 <= m
    <2>1. PICK a, b, c : a = m \div 100 /\ b = (m \div 10) % 10 /\ c = m % 10
      OBVIOUS
    <2>2. a \in Nat /\ b \in Nat /\ c \in Nat
      BY <2>1
    <2>3. t = <<a, b, c>>
      BY <1>3, <2>1 DEF Digits
    <2> QED
      BY <1>3, <2>1, <2>2, <2>3
  <1> QED
    BY <1>1, <1>2, <1>3

\* The text of a code is a sequence of digits.
LEMMA CodeDigits ==
  ASSUME NEW m \in 0..255, NEW tag
  PROVE  CodeText(tag, m) \in Seq(Nat)
  <1>1. CASE tag = "LensType"
    <2>1. CodeText(tag, m) = IF m < 16 THEN <<m>> ELSE <<m \div 16, m % 16>>
      BY <1>1 DEF CodeText, HexDigits
    <2>2. m \div 16 \in Nat /\ m % 16 \in Nat
      OBVIOUS
    <2> QED
      BY <2>1, <2>2
  <1>2. CASE tag # "LensType"
    BY <1>2, DigitsOf DEF CodeText
  <1> QED
    BY <1>1, <1>2

\* Each table: what its table begin with.
Starts(table, digits) ==
  \A k \in DOMAIN table : \E a \in digits : table[k].text = <<a>>

LEMMA Tables ==
  /\ Starts(ProgramRows, 0..4)
  /\ Starts(MeteringRows, {2, 3, 5})
  /\ Starts(OrientationRows, 1..8)
  /\ Starts(LensTypeRows, {2, 6, 10, 14})
  <1>1. Starts(ProgramRows, 0..4)
    BY DEF Starts, ProgramRows, Begins, TableRow
  <1>2. Starts(MeteringRows, {2, 3, 5})
    BY DEF Starts, MeteringRows, Begins, TableRow
  <1>3. Starts(OrientationRows, 1..8)
    BY DEF Starts, OrientationRows, Begins, TableRow
  <1>4. Starts(LensTypeRows, {2, 6, 10, 14})
    BY DEF Starts, LensTypeRows, Begins, TableRow
  <1> QED
    BY <1>1, <1>2, <1>3, <1>4

TwoDigitFlashes == {13, 15, 16, 24, 25, 29, 31, 32, 65, 69, 71, 73, 77, 79, 89, 93, 95}

\* The elements of two sequences, one after the other.
LEMMA JoinedAt ==
  ASSUME NEW S, NEW s \in Seq(S), NEW t \in Seq(S), NEW k \in DOMAIN (s \o t)
  PROVE  /\ k \in 1..(Len(s) + Len(t))
         /\ k <= Len(s) => (s \o t)[k] = s[k]
         /\ k > Len(s) => (s \o t)[k] = t[k - Len(s)]
  <1>1. k \in 1..(Len(s) + Len(t))
    BY ConcatProperties, LenProperties
  <1>2. (s \o t)[k] = IF k <= Len(s) THEN s[k] ELSE t[k - Len(s)]
    BY <1>1, ConcatProperties
  <1>3. k \in Nat /\ Len(s) \in Nat
    BY <1>1, LenProperties
  <1> QED
    BY <1>1, <1>2, <1>3

\* The rows for the flash: 0, one digit that is compared as a whole, or two digits.
LEMMA FlashTable ==
  ASSUME NEW k \in DOMAIN FlashRows
  PROVE  /\ k \in 1..22
         /\ \/ FlashRows[k].text = <<0>>
            \/ /\ \E a \in {1, 5, 7, 9} : FlashRows[k].text = <<a>>
               /\ FlashRows[k].whole = TRUE
            \/ \E m \in TwoDigitFlashes : FlashRows[k].text = Digits(m)
  <1> DEFINE two == <<13, 15, 16, 24, 25, 29, 31, 32, 65, 69, 71, 73, 77, 79, 89, 93, 95>>
             one == <<TableRow(<<0>>, FALSE), TableRow(<<1>>, TRUE),
                      TableRow(<<5>>, TRUE), TableRow(<<7>>, TRUE),
                      TableRow(<<9>>, TRUE)>>
             rest == [i \in 1..17 |-> TableRow(Digits(two[i]), FALSE)]
  <1>1. DOMAIN two = 1..17 /\ \A i \in 1..17 : two[i] \in TwoDigitFlashes
    BY DEF TwoDigitFlashes
  <1>2. FlashRows = one \o rest
    BY <1>1 DEF FlashRows, Begins
  <1> DEFINE S == {one[i] : i \in 1..5} \cup {rest[i] : i \in 1..17}
  <1> HIDE DEF one, rest, two
  <1>3. one \in Seq(S) /\ Len(one) = 5
    <2>1. PICK a, b, c, d, e : /\ a = TableRow(<<0>>, FALSE) /\ b = TableRow(<<1>>, TRUE)
                               /\ c = TableRow(<<5>>, TRUE) /\ d = TableRow(<<7>>, TRUE)
                               /\ e = TableRow(<<9>>, TRUE)
      OBVIOUS
    <2>2. one = <<a, b, c, d, e>>
      BY <2>1 DEF one
    <2>3. one = [i \in 1..5 |-> one[i]]
      BY <2>2
    <2>4. one \in [1..5 -> S]
      BY <2>3
    <2>5. PICK j \in Nat : j = 5
      OBVIOUS
    <2>6. one \in [1..j -> S]
      BY <2>4, <2>5
    <2>7. one \in Seq(S) /\ Len(one) = j
      BY ONLY <2>6, FunctionIsSeq, Zenon
    <2> QED
      BY <2>5, <2>7
  <1>4. rest \in Seq(S) /\ Len(rest) = 17
    <2>1. rest \in [1..17 -> S]
      BY DEF rest
    <2>2. PICK j \in Nat : j = 17
      OBVIOUS
    <2>3. rest \in [1..j -> S]
      BY <2>1, <2>2
    <2>4. rest \in Seq(S) /\ Len(rest) = j
      BY ONLY <2>3, FunctionIsSeq, Zenon
    <2> QED
      BY <2>2, <2>4
  <1> HIDE DEF S
  <1>5. k \in DOMAIN (one \o rest)
    BY <1>2, Zenon
  <1>6. /\ k \in 1..(Len(one) + Len(rest))
        /\ k <= Len(one) => FlashRows[k] = one[k]
        /\ k > Len(one) => FlashRows[k] = rest[k - Len(one)]
    <2>1. /\ k \in 1..(Len(one) + Len(rest))
          /\ k <= Len(one) => (one \o rest)[k] = one[k]
          /\ k > Len(one) => (one \o rest)[k] = rest[k - Len(one)]
      <3>1. PICK s, t : s = one /\ t = rest
        OBVIOUS
      <3>2. s \in Seq(S) /\ t \in Seq(S) /\ k \in DOMAIN (s \o t)
        BY <1>3, <1>4, <1>5, <3>1, Zenon
      <3>3. /\ k \in 1..(Len(s) + Len(t))
            /\ k <= Len(s) => (s \o t)[k] = s[k]
            /\ k > Len(s) => (s \o t)[k] = t[k - Len(s)]
        BY ONLY <3>2, JoinedAt
      <3> QED
        BY <3>1, <3>3, Zenon
    <2> QED
      BY <1>2, <2>1, Zenon
  <1>7. k \in 1..22
    BY <1>3, <1>4, <1>6
  <1>8. CASE k <= 5
    <2>1. FlashRows[k] = one[k]
      BY <1>3, <1>6, <1>8
    <2>2. k = 1 \/ k = 2 \/ k = 3 \/ k = 4 \/ k = 5
      BY <1>7, <1>8
    <2>3. /\ one[1].text = <<0>>
          /\ one[2].text = <<1>> /\ one[2].whole = TRUE
          /\ one[3].text = <<5>> /\ one[3].whole = TRUE
          /\ one[4].text = <<7>> /\ one[4].whole = TRUE
          /\ one[5].text = <<9>> /\ one[5].whole = TRUE
      BY DEF one, TableRow
    <2> QED
      BY <2>1, <2>2, <2>3
  <1>9. CASE k > 5
    <2>1. k - 5 \in 1..17
      BY <1>7, <1>9
    <2>3. FlashRows[k] = rest[k - 5]
      <3>1. Len(one) = 5
        BY <1>3
      <3> QED
        BY <1>6, <1>9, <3>1
    <2>2. rest[k - 5].text = Digits(two[k - 5])
      BY <2>1 DEF rest, TableRow
    <2> QED
      BY <1>1, <2>1, <2>2, <2>3
  <1>10. k <= 5 \/ k > 5
    BY <1>7
  <1> QED
    BY <1>7, <1>8, <1>9, <1>10, Zenon

\* A row of one digit fits only a text that begins with it.
LEMMA OneDigit ==
  ASSUME NEW table, NEW digits \in SUBSET Nat, Starts(table, digits), NEW k \in DOMAIN table,
         NEW t \in Seq(Nat), Fits(table[k], t)
  PROVE  \E a \in digits : table[k].text = <<a>> /\ Len(t) >= 1 /\ t[1] = a
  <1>1. PICK a \in digits : table[k].text = <<a>>
    BY DEF Starts
  <1>2. IsPrefix(<<a>>, t)
    BY <1>1 DEF Fits
  <1>3. a \in Nat
    OBVIOUS
  <1>4. Len(t) >= 1 /\ t[1] = a
    BY <1>2, <1>3, PrefixOne
  <1> QED
    BY <1>1, <1>4

Tags == {"Flash", "Program", "Metering", "Orientation", "LensType"}

\* It fits no other code of one digit.
LEMMA PlainCode ==
  ASSUME NEW table, NEW digits \in SUBSET Nat, Starts(table, digits), NEW k \in DOMAIN table,
         NEW n \in 0..9, Fits(table[k], <<n>>)
  PROVE  table[k].text = <<n>>
  <1>1. PICK t \in Seq(Nat) : t = <<n>> /\ t[1] = n
    <2>1. n \in Nat
      OBVIOUS
    <2>2. <<n>> \in Seq(Nat) /\ (<<n>>)[1] = n
      BY ONLY <2>1, OfOne
    <2> QED
      BY <2>2, Zenon
  <1>2. Fits(table[k], t)
    BY <1>1
  <1>3. PICK a \in digits : table[k].text = <<a>> /\ Len(t) >= 1 /\ t[1] = a
    BY <1>2, OneDigit
  <1> QED
    BY <1>1, <1>3

\* The rows for the flash fit their codes only: none of two digits begins one of three.
LEMMA FlashFits ==
  ASSUME NEW n \in 0..127, NEW k \in DOMAIN FlashRows,
         Fits(FlashRows[k], Digits(n))
  PROVE  FlashRows[k].text = Digits(n)
  <1>1. PICK t, text, whole : /\ t = Digits(n)
                              /\ text = FlashRows[k].text
                              /\ whole = FlashRows[k].whole
    OBVIOUS
  <1>2. n \in 0..255
    OBVIOUS
  <1>3. /\ t \in Seq(Nat)
        /\ n < 10 => t = <<n>>
        /\ 10 <= n /\ n < 100 => t = <<n \div 10, n % 10>>
        /\ 100 <= n => t = <<n \div 100, (n \div 10) % 10, n % 10>>
    BY ONLY <1>1, <1>2, DigitsOf
  <1>4. IsPrefix(text, t) /\ (whole => Len(text) = Len(t))
    BY <1>1 DEF Fits
  <1>5. CASE text = <<0>>
    <2>1. t[1] = 0
      BY <1>3, <1>4, <1>5, PrefixOne
    <2>2. n < 10
      BY <1>3, <2>1
    <2> QED
      BY <1>1, <1>3, <1>5, <2>1, <2>2
  <1>6. ASSUME NEW a \in {1, 5, 7, 9}, text = <<a>>, whole = TRUE PROVE text = t
    <2>1. Len(<<a>>) = 1
      OBVIOUS
    <2>2. t[1] = a /\ Len(t) = 1
      BY <1>3, <1>4, <1>6, <2>1, PrefixOne
    <2>3. t = <<t[1]>>
      BY ONLY <1>3, <2>2, Single
    <2> QED
      BY <1>6, <2>2, <2>3
  <1>7. ASSUME NEW m \in TwoDigitFlashes, text = Digits(m) PROVE text = t
    <2>1. m \in 0..255 /\ 10 <= m /\ m < 100
      BY DEF TwoDigitFlashes
    <2>2. text = <<m \div 10, m % 10>>
      BY ONLY <1>7, <2>1, DigitsOf
    <2>3. PICK a \in Nat, b \in Nat : a = m \div 10 /\ b = m % 10
      BY <2>1
    <2>4. Len(t) >= 2 /\ t[1] = a /\ t[2] = b
      BY ONLY <1>3, <1>4, <2>2, <2>3, PrefixTwo
    <2>5. CASE n < 10
      <3>1. Len(t) = 1
        BY <1>3, <2>5
      <3> QED
        BY <2>4, <3>1
    <2>6. CASE 10 <= n /\ n < 100
      <3>1. t = <<n \div 10, n % 10>>
        BY <1>3, <2>6
      <3>2. n \div 10 = a /\ n % 10 = b
        BY <2>4, <3>1
      <3> QED
        BY <2>2, <2>3, <3>1, <3>2
    <2>7. CASE 100 <= n
      <3>1. t = <<n \div 100, (n \div 10) % 10, n % 10>>
        BY <1>3, <2>7
      <3>2. t[1] = n \div 100 /\ t[2] = (n \div 10) % 10
        BY <3>1
      <3>3. n \div 100 = 1 /\ (n \div 10) % 10 \in 0..2
        BY <2>7
      <3>4. a = 1 /\ b \in 0..2
        BY <2>4, <3>2, <3>3
      <3>5. m \in 10..12
        BY <2>1, <2>3, <3>4
      <3> QED
        BY <3>5 DEF TwoDigitFlashes
    <2> QED
      BY <2>5, <2>6, <2>7
  <1> QED
    BY <1>1, <1>5, <1>6, <1>7, FlashTable

\* A row that fits a code is its own, but for the codes that are like another.
LEMMA FitsRight ==
  ASSUME NEW tag \in Tags, NEW n \in CodesOf(tag),
         NEW k \in DOMAIN RowsFor(tag),
         Fits(RowsFor(tag)[k], CodeText(tag, n))
  PROVE  \/ RowsFor(tag)[k].text = CodeText(tag, n)
         \/ LikeAnother(tag, n)
  <1>1. CASE tag = "Flash"
    <2>1. /\ n \in 0..127 /\ RowsFor(tag) = FlashRows
          /\ CodeText(tag, n) = Digits(n)
      BY <1>1 DEF RowsFor, CodesOf, CodeText
    <2> QED
      BY <2>1, FlashFits
  <1>2. CASE tag = "Program"
    <2>1. /\ n \in 0..9 /\ RowsFor(tag) = ProgramRows
          /\ CodeText(tag, n) = <<n>>
      BY <1>2 DEF RowsFor, CodesOf, CodeText, Digits
    <2> QED
      BY <2>1, Tables, PlainCode
  <1>3. CASE tag = "Metering" /\ n # 255
    <2>1. /\ n \in 0..9 /\ RowsFor(tag) = MeteringRows
          /\ CodeText(tag, n) = <<n>>
      BY <1>3 DEF RowsFor, CodesOf, CodeText, Digits
    <2> QED
      BY <2>1, Tables, PlainCode
  <1>4. CASE tag = "Metering" /\ n = 255
    BY <1>4 DEF LikeAnother
  <1>5. CASE tag = "Orientation"
    <2>1. /\ n \in 0..9 /\ RowsFor(tag) = OrientationRows
          /\ CodeText(tag, n) = <<n>>
      BY <1>5 DEF RowsFor, CodesOf, CodeText, Digits
    <2> QED
      BY <2>1, Tables, PlainCode
  <1>6. CASE tag = "LensType"
    <2>1. /\ n \in 0..255 /\ RowsFor(tag) = LensTypeRows
          /\ CodeText(tag, n) = IF n < 16 THEN <<n>> ELSE <<n \div 16, n % 16>>
      BY <1>6 DEF RowsFor, CodesOf, CodeText, HexDigits
    <2>2. PICK t \in Seq(Nat) : t = CodeText(tag, n)
      BY <2>1, CodeDigits
    <2>3. PICK a \in {2, 6, 10, 14} :
             RowsFor(tag)[k].text = <<a>> /\ Len(t) >= 1 /\ t[1] = a
      <3>1. PICK table, digits : table = RowsFor(tag) /\ digits = {2, 6, 10, 14}
        OBVIOUS
      <3>2. digits \in SUBSET Nat
        BY <3>1
      <3>3. Starts(table, digits) /\ k \in DOMAIN table /\ Fits(table[k], t)
        BY <2>1, <2>2, <3>1, Tables, Zenon
      <3>4. \E a \in digits : table[k].text = <<a>> /\ Len(t) >= 1 /\ t[1] = a
        BY ONLY <3>2, <3>3, t \in Seq(Nat), OneDigit
      <3> QED
        BY <3>1, <3>4, Zenon
    <2>4. CASE n < 16
      BY <2>1, <2>2, <2>3, <2>4
    <2>5. CASE n >= 16
      <3>1. t = <<n \div 16, n % 16>>
        BY <2>1, <2>2, <2>5
      <3>2. n \div 16 = a
        BY <2>3, <3>1
      <3> QED
        BY <1>6, <2>5, <3>2 DEF LikeAnother
    <2>6. n < 16 \/ n >= 16
      BY <2>1
    <2> QED
      BY <2>4, <2>5, <2>6, Zenon
  <1> QED
    BY <1>1, <1>2, <1>3, <1>4, <1>5, <1>6 DEF Tags

\* The rows of a table have numbers, so that there is a first one.
LEMMA RowNumbers ==
  ASSUME NEW tag \in Tags
  PROVE  DOMAIN RowsFor(tag) \subseteq Nat
  <1>1. CASE tag = "Flash"
    <2>1. RowsFor(tag) = FlashRows
      BY <1>1 DEF RowsFor
    <2>2. \A k \in DOMAIN FlashRows : k \in 1..22
      BY FlashTable, Zenon
    <2>3. DOMAIN FlashRows \subseteq Nat
      BY <2>2
    <2> QED
      BY <2>1, <2>3, Zenon
  <1>2. CASE tag = "Program"
    <2>1. RowsFor(tag) = ProgramRows
      BY <1>2 DEF RowsFor
    <2>2. DOMAIN ProgramRows \subseteq Nat
      BY DEF ProgramRows, Begins
    <2> QED
      BY <2>1, <2>2
  <1>3. CASE tag = "Metering"
    <2>1. RowsFor(tag) = MeteringRows
      BY <1>3 DEF RowsFor
    <2>2. DOMAIN MeteringRows \subseteq Nat
      BY DEF MeteringRows, Begins
    <2> QED
      BY <2>1, <2>2
  <1>4. CASE tag = "Orientation"
    <2>1. RowsFor(tag) = OrientationRows
      BY <1>4 DEF RowsFor
    <2>2. DOMAIN OrientationRows \subseteq Nat
      BY DEF OrientationRows, Begins
    <2> QED
      BY <2>1, <2>2
  <1>5. CASE tag = "LensType"
    <2>1. RowsFor(tag) = LensTypeRows
      BY <1>5 DEF RowsFor
    <2>2. DOMAIN LensTypeRows \subseteq Nat
      BY DEF LensTypeRows, Begins
    <2> QED
      BY <2>1, <2>2
  <1> QED
    BY <1>1, <1>2, <1>3, <1>4, <1>5 DEF Tags

\* The codes are bytes.
LEMMA CodeTextIs ==
  ASSUME NEW tag \in Tags, NEW n \in CodesOf(tag)
  PROVE  n \in 0..255
  <1>1. CASE tag = "Flash"
    BY <1>1 DEF CodesOf
  <1>2. CASE tag = "Program"
    BY <1>2 DEF CodesOf
  <1>3. CASE tag = "Metering"
    BY <1>3 DEF CodesOf
  <1>4. CASE tag = "Orientation"
    BY <1>4 DEF CodesOf
  <1>5. CASE tag = "LensType"
    BY <1>5 DEF CodesOf
  <1> QED
    BY <1>1, <1>2, <1>3, <1>4, <1>5 DEF Tags

\* A text begins with itself.
LEMMA SelfPrefix ==
  ASSUME NEW t \in Seq(Nat)
  PROVE  IsPrefix(t, t)
  <1>1. Len(t) \in Nat
    BY LenProperties
  <1> QED
    BY <1>1 DEF IsPrefix

\* The name of a code is its own, the first row that fits notwithstanding.
LEMMA CodesRight ==
  ASSUME NEW tag \in Tags, NEW n \in CodesOf(tag)
  PROVE  CodeRight(tag, n, CodeName(tag, n))
  <1> DEFINE table == RowsFor(tag)
             text == CodeText(tag, n)
             fit == {k \in DOMAIN table : Fits(table[k], text)}
  <1>1. table = RowsFor(tag) /\ text = CodeText(tag, n)
    OBVIOUS
  <1>2. CodeName(tag, n) =
          IF fit = {} THEN <<>> ELSE table[CHOOSE k \in fit : \A j \in fit : k <= j].text
    BY DEF CodeName
  <1> HIDE DEF table, text
  <1>3. text \in Seq(Nat)
    BY <1>1, CodeTextIs, CodeDigits
  <1>4. CASE fit = {}
    <2>1. ASSUME NEW k \in DOMAIN table, table[k].text = text PROVE FALSE
      <3>1. Fits(table[k], text)
        BY <1>3, <2>1, SelfPrefix DEF Fits
      <3> QED
        BY <1>4, <3>1
    <2>2. CodeName(tag, n) = <<>>
      BY <1>2, <1>4, Zenon
    <2>3. \A k \in DOMAIN RowsFor(tag) :
            RowsFor(tag)[k].text # CodeText(tag, n)
      BY <1>1, <2>1, Zenon
    <2> QED
      BY <2>2, <2>3, Zenon DEF CodeRight
  <1>5. CASE fit # {}
    <2>1. fit \in SUBSET Nat
      BY <1>1, RowNumbers
    <2>2. \E k \in fit : \A j \in fit : k <= j
      <3> HIDE DEF fit
      <3> QED
        BY <1>5, <2>1, Least
    <2>3. PICK first : first = (CHOOSE k \in fit : \A j \in fit : k <= j) /\ first \in fit
      BY <2>2, Zenon
    <2>4. CodeName(tag, n) = table[first].text
      BY <1>2, <1>5, <2>3, Zenon
    <2>5. table[first].text = text \/ LikeAnother(tag, n)
      BY <1>1, <2>3, FitsRight, Zenon
    <2> QED
      BY <1>1, <2>4, <2>5, Zenon DEF CodeRight
  <1> QED
    BY <1>4, <1>5, Zenon

\* What a value of each kind is.
IsCode(v) == v.tag \in Tags /\ v.code \in CodesOf(v.tag)
IsShutter(v) == IsSpeed(v.one)
IsLens(v) == v.lens \in [1..4 -> Nat]

\* Nothing is computed yet, or what the action of the kind of the input computes.
Gives(value) == output = <<>> \/ output = value

TextInv ==
  /\ input.kind = "small" => IsSmallEntry(input) /\ Gives(<<SmallText(input)>>)
  /\ input.kind = "undefined" =>
       IsBytes(input) /\ Gives(<<HexText(input), DigitText(input)>>)
  /\ input.kind = "code" => IsCode(input) /\ Gives(<<CodeName(input.tag, input.code)>>)
  /\ input.kind = "shutter" =>
       /\ IsShutter(input)
       /\ Gives(<<ShutterFraction(Millionths(1, input.one))>>)
  /\ input.kind = "lens" => IsLens(input) /\ Gives(<<ConvertLens(input.lens)>>)

\* The inputs of a kind.
LEMMA KindsOf ==
  /\ \A v \in Smalls : v.kind = "small"
  /\ \A v \in Undefineds : v.kind = "undefined"
  /\ \A v \in Codes : v.kind = "code"
  /\ \A v \in Shutters : v.kind = "shutter"
  /\ \A v \in Lenses : v.kind = "lens"
  /\ \A v \in Photos : v.kind = "photo"
  <1>1. \A v \in Smalls : v.kind = "small"
    BY DEF Smalls
  <1>2. \A v \in Undefineds : v.kind = "undefined"
    BY DEF Undefineds
  <1>3. \A v \in Codes : v.kind = "code"
    BY DEF Codes
  <1>4. \A v \in Shutters : v.kind = "shutter"
    BY DEF Shutters
  <1>5. \A v \in Lenses : v.kind = "lens"
    BY DEF Lenses
  <1>6. \A v \in Photos : v.kind = "photo"
    BY DEF Photos
  <1> QED
    BY <1>1, <1>2, <1>3, <1>4, <1>5, <1>6

\* What the inputs of each kind are.
LEMMA SmallFacts ==
  ASSUME NEW v \in Smalls
  PROVE  IsSmallEntry(v)
  <1>1. /\ v.type \in {1, 2, 3, 4, 6, 8, 9} /\ v.count \in 0..4 /\ v.mm \in BOOLEAN
        /\ v.iso \in BOOLEAN
        /\ IsSmall(v) /\ (v.type \in {4, 9} => v.count = 1)
        /\ (v.iso => v.type = 3 /\ v.count > 0)
    BY DEF Smalls
  <1>2. v.four \in [1..4 -> {0, 1, 200}]
    BY DEF Smalls, Fours
  <1>3. v.four \in [1..4 -> Nat]
    BY <1>2
  <1> QED
    BY <1>1, <1>3 DEF IsSmallEntry, IsEntry

LEMMA ByteFacts ==
  ASSUME NEW v \in Undefineds
  PROVE  IsBytes(v)
  <1>1. v.count \in 1..4 /\ v.mm \in BOOLEAN /\ v.four \in [1..4 -> {0, 2, 48, 49}]
    BY DEF Undefineds
  <1>2. v.four \in [1..4 -> 0..255]
    BY <1>1
  <1> QED
    BY <1>1, <1>2 DEF IsBytes

LEMMA CodeFacts ==
  ASSUME NEW v \in Codes
  PROVE  IsCode(v)
  BY DEF Codes, IsCode, Tags

LEMMA ShutterFacts ==
  ASSUME NEW v \in Shutters, MaxShutter \in Nat, MaxShutter <= 8000
  PROVE  IsShutter(v)
  <1>1. PICK n \in 2..MaxShutter : v = [kind |-> "shutter", one |-> n]
    BY SMT DEF Shutters
  <1>2. v.one = n
    BY <1>1, SMT
  <1>3. n \in 2..8000
    BY SMT
  <1> QED
    BY <1>2, <1>3, SMT DEF IsShutter, IsSpeed

LEMMA LensFacts ==
  ASSUME NEW v \in Lenses
  PROVE  IsLens(v)
  <1>1. Focals \in SUBSET Nat /\ Apertures \in SUBSET Nat
    BY SMT DEF Focals, Apertures
  <1>2. PICK a, b \in Focals, c, d \in Apertures : v.lens = <<a, b, c, d>>
    BY SMT DEF Lenses
  <1>3. a \in Nat /\ b \in Nat /\ c \in Nat /\ d \in Nat
    BY <1>1
  <1>4. <<a, b, c, d>> \in [1..4 -> Nat]
    BY ONLY <1>3
  <1> QED
    BY <1>2, <1>4 DEF IsLens

\* An input has its kind from the set it is chosen of.
LEMMA TextKinds ==
  ASSUME Given
  PROVE  /\ input.kind = "small" => input \in Smalls
         /\ input.kind = "undefined" => input \in Undefineds
         /\ input.kind = "code" => input \in Codes
         /\ input.kind = "shutter" => input \in Shutters
         /\ input.kind = "lens" => input \in Lenses
  BY KindsOf DEF Given

\* The invariant: at first, and after each action.
LEMMA TextInit ==
  ASSUME Given, MaxShutter \in Nat, MaxShutter <= 8000
  PROVE  TextInv
  <1>1. \A value : Gives(value)
    BY DEF Given, Gives
  <1>2. /\ input.kind = "small" => input \in Smalls
        /\ input.kind = "undefined" => input \in Undefineds
        /\ input.kind = "code" => input \in Codes
        /\ input.kind = "shutter" => input \in Shutters
        /\ input.kind = "lens" => input \in Lenses
    BY TextKinds
  <1>3. /\ input.kind = "small" => IsSmallEntry(input)
        /\ input.kind = "undefined" => IsBytes(input)
        /\ input.kind = "code" => IsCode(input)
        /\ input.kind = "shutter" => IsShutter(input)
        /\ input.kind = "lens" => IsLens(input)
    BY <1>2, SmallFacts, ByteFacts, CodeFacts, ShutterFacts, LensFacts, SMT
  <1> QED
    BY ONLY <1>1, <1>3 DEF TextInv

LEMMA TextStep ==
  ASSUME TextInv, [Evaluate]_io
  PROVE  TextInv'
  <1>1. input' = input
    BY DEF Evaluate, io, Computed, Computes,
           FormatSmall, FormatHex, NameCode,
           PrintShutter, PrintLens, SizePicture
  <1>2. CASE output' = output
    BY <1>1, <1>2, Zenon DEF TextInv, Gives
  <1>3. CASE FormatSmall
    <2>1. input.kind = "small" /\ output' = <<SmallText(input)>>
      BY <1>3 DEF FormatSmall, Computes
    <2> QED
      BY <1>1, <2>1 DEF TextInv, Gives
  <1>4. CASE FormatHex
    <2>1. /\ input.kind = "undefined"
          /\ output' = <<HexText(input), DigitText(input)>>
      BY <1>4 DEF FormatHex, Computes
    <2> QED
      BY <1>1, <2>1 DEF TextInv, Gives
  <1>5. CASE NameCode
    <2>1. input.kind = "code" /\ output' = <<CodeName(input.tag, input.code)>>
      BY <1>5 DEF NameCode, Computes
    <2> QED
      BY <1>1, <2>1 DEF TextInv, Gives
  <1>6. CASE PrintShutter
    <2>1. /\ input.kind = "shutter"
          /\ output' = <<ShutterFraction(Millionths(1, input.one))>>
      BY <1>6 DEF PrintShutter, Computes
    <2> QED
      BY <1>1, <2>1 DEF TextInv, Gives
  <1>7. CASE PrintLens
    <2>1. input.kind = "lens" /\ output' = <<ConvertLens(input.lens)>>
      BY <1>7 DEF PrintLens, Computes
    <2> QED
      BY <1>1, <2>1 DEF TextInv, Gives
  <1>8. CASE SizePicture
    <2>1. input.kind = "photo"
      BY <1>8 DEF SizePicture, Computes
    <2> QED
      BY <1>1, <2>1 DEF TextInv
  <1> QED
    BY <1>2, <1>3, <1>4, <1>5, <1>6, <1>7, <1>8
    DEF Evaluate, io, Computed

\* What is computed is right, kind by kind.
LEMMA TextsOf ==
  ASSUME TextInv
  PROVE  TextsRight
  <1>1. ASSUME output # <<>>, input.kind = "small"
        PROVE  SmallRight(input, output[1])
    <2>1. PICK a : a = SmallText(input)
      OBVIOUS
    <2>2. output = <<a>> /\ IsSmallEntry(input)
      BY <1>1, <2>1, Zenon DEF TextInv, Gives
    <2>3. output[1] = a
      BY ONLY <2>2
    <2> QED
      BY <2>1, <2>2, <2>3, SmallsRight, Zenon
  <1>2. ASSUME output # <<>>, input.kind = "undefined"
        PROVE  HexRight(input, output[1]) /\ DigitRight(input, output[2])
    <2>1. PICK a, b : a = HexText(input) /\ b = DigitText(input)
      OBVIOUS
    <2>2. output = <<a, b>> /\ IsBytes(input)
      BY <1>2, <2>1, Zenon DEF TextInv, Gives
    <2>3. output[1] = a /\ output[2] = b
      BY ONLY <2>2
    <2> QED
      BY <2>1, <2>2, <2>3, HexesRight, DigitsRight, Zenon
  <1>3. ASSUME output # <<>>, input.kind = "code"
        PROVE  CodeRight(input.tag, input.code, output[1])
    <2>1. PICK a : a = CodeName(input.tag, input.code)
      OBVIOUS
    <2>2. output = <<a>> /\ IsCode(input)
      BY <1>3, <2>1, Zenon DEF TextInv, Gives
    <2>3. output[1] = a
      BY ONLY <2>2
    <2> QED
      BY <2>1, <2>2, <2>3, CodesRight, Zenon DEF IsCode
  <1>4. ASSUME output # <<>>, input.kind = "shutter"
        PROVE  ShutterRight(input.one, output[1])
    <2>1. PICK a : a = ShutterFraction(Millionths(1, input.one))
      OBVIOUS
    <2>2. output = <<a>> /\ IsShutter(input)
      BY <1>4, <2>1, Zenon DEF TextInv, Gives
    <2>3. output[1] = a
      BY ONLY <2>2
    <2> QED
      BY <2>1, <2>2, <2>3, ShuttersRight, Zenon DEF IsShutter
  <1>5. ASSUME output # <<>>, input.kind = "lens"
        PROVE  LensRight(input.lens, output[1])
    <2>1. PICK a : a = ConvertLens(input.lens)
      OBVIOUS
    <2>2. output = <<a>> /\ IsLens(input)
      BY <1>5, <2>1, Zenon DEF TextInv, Gives
    <2>3. output[1] = a
      BY ONLY <2>2
    <2> QED
      BY <2>1, <2>2, <2>3, LensesRight, Zenon DEF IsLens
  <1> QED
    BY <1>1, <1>2, <1>3, <1>4, <1>5, Zenon
    DEF TextsRight, SmallValuesRight, ShownRight, Has

\* For every number of exposures up to the shortest of the camera, 1/8000: the text of a
\* small value has the numbers of the file, the name of a code is its own, the exposure
\* and the lens are as close as their digits allow, all but for the cases that the
\* property names (extract_and_format_data, print_16bit_hex, print_8bit_bytes,
\* display_data, convert_lens).
THEOREM TextsCorrect ==
  ASSUME MaxShutter \in Nat, MaxShutter <= 8000
  PROVE  Evaluation => []TextsRight
  <1>1. Given => TextInv
    BY TextInit
  <1>2. TextInv /\ [Evaluate]_io => TextInv'
    BY TextStep
  <1>3. TextInv => TextsRight
    BY TextsOf
  <1> QED
    BY <1>1, <1>2, <1>3, PTL DEF Evaluation

=============================================================================
