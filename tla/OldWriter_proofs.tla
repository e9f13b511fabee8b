-------------------------- MODULE OldWriter_proofs --------------------------
(***************************************************************************)
(* Theorems about OldWriter, for every NEF: the types, that every entry of *)
(* the header is found where the header says, and that the values and the  *)
(* image are the NEF's own.                                                *)
(***************************************************************************)
EXTENDS OldWriter, WellFoundedInduction, SequenceTheorems, TLAPS

-----------------------------------------------------------------------------
(* The inductive invariants. *)

\* A call that waits has read its entry, IFD0 first; the node at the end of the list
\* is filled only while IFD0's entry is being followed.
StackInv ==
  /\ stack # <<>> => stack[1].dir = "IFD0"
  /\ Len(stack) > 1 => stack[1].read
  /\ list[Len(list)] # Blank => stack # <<>> /\ stack[1].read
  /\ \A k \in DOMAIN stack : stack[k].read => stack[k].n <= Len(file.dirs[stack[k].dir])
  /\ pc # "walk" => stack = <<>>

\* The header has as many entries as there are copied nodes before the next, and its
\* data is as long as the offset says.
NoneMade ==
  /\ out.at = 1 /\ out.count = 0 /\ out.dir = <<>> /\ out.data = <<>>
  /\ pc # "copy" /\ ~HeaderMade
Counted ==
  /\ pc # "walk" /\ out.count = CountTags(list)
  /\ Len(out.dir) = Counts(list)[out.at - 1]
  /\ HeaderMade => out.at = Len(list)
  /\ out.offset = 12 * out.count + 14 + Used
  /\ \A i \in DOMAIN out.dir : EntryOf(out.dir[i].of).size > 4 =>
       \E k \in DOMAIN out.data :
         /\ out.data[k].of = out.dir[i].of /\ out.data[k].size = out.dir[i].size
         /\ out.dir[i].offset = StartOf(k)
HeaderInv == NoneMade \/ Counted

-----------------------------------------------------------------------------
(* Sums. *)

LEMMA Least ==
  ASSUME NEW T \in SUBSET Nat, T # {}
  PROVE  \E m \in T : \A k \in T : m <= k
<1>1. IsWellFoundedOn(OpToRel(<, Nat), Nat)
  BY NatLessThanWellFounded
<1>2. PICK m \in T : \A k \in T : ~(<<k, m>> \in OpToRel(<, Nat))
  BY <1>1, WFMin
<1>3. \A k, l \in Nat : k < l => <<k, l>> \in OpToRel(<, Nat)
  BY DEF OpToRel
<1>4. m \in Nat /\ \A k \in T : k \in Nat
  OBVIOUS
<1>5. \A k \in T : ~(k < m)
  BY <1>2, <1>3, <1>4, Zenon
<1> QED  BY <1>4, <1>5, SMT

\* The function is defined as far as m.
SumsTo(sums, m, v) ==
  sums = [k \in 0..m |-> IF k = 0 THEN 0 ELSE sums[k - 1] + v[k]]

LEMMA SumsMore ==
  ASSUME NEW v, NEW m \in Nat, m > 0, NEW sums, SumsTo(sums, m - 1, v)
  PROVE  \E h : SumsTo(h, m, v)
<1> DEFINE next == sums[m - 1] + v[m]
           h == [k \in 0..m |-> IF k = m THEN next ELSE sums[k]]
<1>1. \A k \in 0..m - 1 : h[k] = sums[k]
  OBVIOUS
<1>2. h[m] = next
  OBVIOUS
<1>3. \A k \in 0..m : h[k] = IF k = 0 THEN 0 ELSE h[k - 1] + v[k]
  <2> TAKE k \in 0..m
  <2>1. CASE k = m
    <3>1. m - 1 \in 0..m - 1 /\ k # 0
      BY <2>1
    <3> QED  BY <2>1, <3>1, <1>1, <1>2
  <2>2. CASE k # m
    <3>1. k \in 0..m - 1 /\ (k # 0 => k - 1 \in 0..m - 1)
      BY <2>2
    <3>2. sums[k] = IF k = 0 THEN 0 ELSE sums[k - 1] + v[k]
      BY <3>1 DEF SumsTo
    <3>3. k # 0 => h[k - 1] = sums[k - 1]
      BY <3>1, <1>1
    <3>4. h[k] = sums[k]
      BY <3>1, <1>1
    <3> HIDE DEF h
    <3> QED  BY <3>2, <3>3, <3>4, Zenon
  <2> QED  BY <2>1, <2>2
<1>4. h = [k \in 0..m |-> h[k]]
  OBVIOUS
<1> HIDE DEF h
<1>5. SumsTo(h, m, v)
  BY <1>3, <1>4 DEF SumsTo
<1> QED  BY <1>5

LEMMA SumsExist ==
  ASSUME NEW v, NEW n \in Nat
  PROVE  \E sums : SumsTo(sums, n, v)
<1> DEFINE T == {m \in Nat : ~\E sums : SumsTo(sums, m, v)}
<1> SUFFICES ASSUME T # {} PROVE FALSE
  OBVIOUS
<1>1. PICK m \in T : \A k \in T : m <= k
  BY Least
<1>2. m # 0
  <2>1. SumsTo([k \in 0..0 |-> 0], 0, v)
    BY DEF SumsTo
  <2> QED  BY <1>1, <2>1
<1>3. m - 1 \in Nat /\ m \in Nat /\ m > 0 /\ m - 1 \notin T
  BY <1>1, <1>2
<1>4. PICK sums : SumsTo(sums, m - 1, v)
  BY <1>3
<1>5. \E h : SumsTo(h, m, v)
  BY <1>3, <1>4, SumsMore
<1> QED  BY <1>1, <1>5

LEMMA SumsSteps ==
  ASSUME NEW v \in Seq(Nat)
  PROVE  /\ SumsOf(v)[0] = 0
         /\ \A k \in 1..Len(v) : SumsOf(v)[k] = SumsOf(v)[k - 1] + v[k]
<1> DEFINE s == SumsOf(v)
<1>1. Len(v) \in Nat
  OBVIOUS
<1>2. SumsTo(s, Len(v), v)
  <2>1. PICK sums : SumsTo(sums, Len(v), v)
    BY <1>1, SumsExist
  <2>2. sums = [k \in 0..Len(v) |-> IF k = 0 THEN 0 ELSE sums[k - 1] + v[k]]
    BY <2>1 DEF SumsTo
  <2> QED  BY <2>2, Zenon DEF SumsOf, SumsTo
<1> HIDE DEF s
<1>3. \A k \in 0..Len(v) : s[k] = IF k = 0 THEN 0 ELSE s[k - 1] + v[k]
  BY <1>2, <1>1 DEF SumsTo
<1>4. s[0] = 0
  BY <1>3, <1>1
<1>5. ASSUME NEW k \in 1..Len(v)
      PROVE  s[k] = s[k - 1] + v[k]
  <2>1. k \in 0..Len(v) /\ k # 0
    BY <1>1
  <2> QED  BY <2>1, <1>3
<1> QED  BY <1>4, <1>5 DEF s

LEMMA SumsType ==
  ASSUME NEW v \in Seq(Nat), NEW n \in 0..Len(v)
  PROVE  SumsOf(v)[n] \in Nat
<1> DEFINE T == {m \in Nat : m <= Len(v) /\ SumsOf(v)[m] \notin Nat}
<1> SUFFICES ASSUME T # {} PROVE FALSE
  OBVIOUS
<1>1. PICK m \in T : \A l \in T : m <= l
  BY Least
<1>2. SumsOf(v)[0] = 0
  BY SumsSteps
<1>3. m # 0
  BY <1>1, <1>2
<1>4. m \in 1..Len(v) /\ m - 1 \in Nat /\ m - 1 <= Len(v) /\ ~(m <= m - 1)
  BY <1>1, <1>3
<1>5. SumsOf(v)[m - 1] \in Nat
  BY <1>1, <1>4
<1>6. SumsOf(v)[m] = SumsOf(v)[m - 1] + v[m] /\ v[m] \in Nat
  BY <1>4, SumsSteps
<1>7. SumsOf(v)[m] \in Nat
  BY <1>5, <1>6
<1> QED  BY <1>1, <1>7

\* One more number changes none of the sums before it.
LEMMA SumsAppend ==
  ASSUME NEW v \in Seq(Nat), NEW x \in Nat
  PROVE  /\ \A n \in 0..Len(v) : SumsOf(Append(v, x))[n] = SumsOf(v)[n]
         /\ SumsOf(Append(v, x))[Len(v) + 1] = SumsOf(v)[Len(v)] + x
<1> DEFINE w == Append(v, x)
           T == {m \in Nat : m <= Len(v) /\ SumsOf(w)[m] # SumsOf(v)[m]}
<1>1. /\ w \in Seq(Nat) /\ Len(w) = Len(v) + 1 /\ w[Len(v) + 1] = x /\ Len(v) \in Nat
      /\ \A i \in 1..Len(v) : w[i] = v[i]
  BY AppendProperties
<1> HIDE DEF w
<1>2. ASSUME T # {} PROVE FALSE
  <2>1. PICK m \in T : \A l \in T : m <= l
    BY <1>2, Least
  <2>2. m # 0
    BY <1>1, <2>1, SumsSteps
  <2>3. m \in 1..Len(v) /\ m \in 1..Len(w) /\ m - 1 \in Nat /\ m - 1 <= Len(v) /\ ~(m <= m - 1)
    BY <1>1, <2>1, <2>2
  <2>4. SumsOf(w)[m - 1] = SumsOf(v)[m - 1]
    BY <2>1, <2>3
  <2>5. SumsOf(w)[m] = SumsOf(w)[m - 1] + w[m]
    BY <1>1, <2>3, SumsSteps
  <2>6. SumsOf(v)[m] = SumsOf(v)[m - 1] + v[m]
    BY <2>3, SumsSteps
  <2>7. SumsOf(w)[m] = SumsOf(v)[m]
    BY <1>1, <2>3, <2>4, <2>5, <2>6
  <2> QED  BY <2>1, <2>7
<1>3. \A n \in 0..Len(v) : SumsOf(w)[n] = SumsOf(v)[n]
  BY <1>1, <1>2
<1>4. SumsOf(w)[Len(v) + 1] = SumsOf(w)[Len(v)] + x
  <2>1. Len(v) + 1 \in 1..Len(w) /\ (Len(v) + 1) - 1 = Len(v)
    BY <1>1
  <2> QED  BY <1>1, <2>1, SumsSteps
<1>5. SumsOf(w)[Len(v)] = SumsOf(v)[Len(v)]
  BY <1>1, <1>3
<1> QED  BY <1>3, <1>4, <1>5 DEF w

LEMMA SumsGrow ==
  ASSUME NEW v \in Seq(Nat), NEW l \in Nat, NEW n \in Nat, l <= n, n <= Len(v)
  PROVE  SumsOf(v)[l] <= SumsOf(v)[n]
<1> DEFINE T == {m \in Nat : l <= m /\ m <= Len(v) /\ ~(SumsOf(v)[l] <= SumsOf(v)[m])}
<1> SUFFICES ASSUME T # {} PROVE FALSE
  OBVIOUS
<1>1. PICK m \in T : \A k \in T : m <= k
  BY Least
<1>2. l \in 0..Len(v) /\ SumsOf(v)[l] \in Nat
  BY SumsType
<1>3. m # l
  BY <1>1, <1>2
<1>4. /\ m \in 1..Len(v) /\ m - 1 \in Nat /\ m - 1 \in 0..Len(v)
      /\ l <= m - 1 /\ m - 1 <= Len(v) /\ ~(m <= m - 1)
  BY <1>1, <1>3
<1>5. SumsOf(v)[l] <= SumsOf(v)[m - 1]
  BY <1>1, <1>4
<1>6. SumsOf(v)[m] = SumsOf(v)[m - 1] + v[m] /\ v[m] \in Nat
  BY <1>4, SumsSteps
<1>7. SumsOf(v)[m - 1] \in Nat
  BY <1>4, SumsType
<1>8. SumsOf(v)[l] <= SumsOf(v)[m]
  BY <1>2, <1>5, <1>6, <1>7
<1> QED  BY <1>1, <1>8

LEMMA CountsSteps ==
  ASSUME NEW nodes \in Seq(Node)
  PROVE  /\ Counts(nodes)[0] = 0
         /\ \A k \in 0..Len(nodes) : Counts(nodes)[k] \in Nat
         /\ \A k \in 1..Len(nodes) :
              Counts(nodes)[k] = Counts(nodes)[k - 1] + (IF IsCopied(nodes[k]) THEN 1 ELSE 0)
         /\ \A k, l \in 0..Len(nodes) : k <= l => Counts(nodes)[k] <= Counts(nodes)[l]
<1> DEFINE v == [i \in DOMAIN nodes |-> IF IsCopied(nodes[i]) THEN 1 ELSE 0]
<1>1. /\ v \in Seq(Nat) /\ Len(v) = Len(nodes) /\ Len(nodes) \in Nat
      /\ \A k \in 1..Len(nodes) : v[k] = IF IsCopied(nodes[k]) THEN 1 ELSE 0
  <2>1. DOMAIN nodes = 1..Len(nodes) /\ Len(nodes) \in Nat
    OBVIOUS
  <2>2. \A i \in 1..Len(nodes) : v[i] \in Nat
    BY <2>1
  <2>3. DOMAIN v = 1..Len(nodes) /\ v = [i \in 1..Len(nodes) |-> v[i]]
    BY <2>1
  <2>4. \A i \in 1..Len(nodes) : v[i] = IF IsCopied(nodes[i]) THEN 1 ELSE 0
    BY <2>1
  <2> HIDE DEF v
  <2>5. v \in Seq(Nat)
    BY <2>1, <2>2, <2>3, SeqDef
  <2>6. Len(v) = Len(nodes)
    BY <2>1, <2>3, <2>5
  <2> QED  BY <2>1, <2>4, <2>5, <2>6
<1> HIDE DEF v
<1>2. Counts(nodes) = SumsOf(v)
  BY DEF Counts, v
<1>3. \A k \in 1..Len(nodes) :
        SumsOf(v)[k] = SumsOf(v)[k - 1] + (IF IsCopied(nodes[k]) THEN 1 ELSE 0)
  BY <1>1, SumsSteps
<1>4. \A k, l \in 0..Len(nodes) : k <= l => SumsOf(v)[k] <= SumsOf(v)[l]
  BY <1>1, SumsGrow
<1>5. SumsOf(v)[0] = 0 /\ \A k \in 0..Len(nodes) : SumsOf(v)[k] \in Nat
  BY <1>1, SumsSteps, SumsType
<1> QED  BY <1>2, <1>3, <1>4, <1>5

LEMMA SizesSteps ==
  ASSUME NEW data \in Seq(Piece), NEW p \in Piece
  PROVE  /\ \A k \in 0..Len(data) : Sizes(data)[k] \in Nat
         /\ \A k \in 0..Len(data) : Sizes(Append(data, p))[k] = Sizes(data)[k]
         /\ Sizes(Append(data, p))[Len(data) + 1] = Sizes(data)[Len(data)] + p.size
<1> DEFINE v == [k \in DOMAIN data |-> data[k].size]
           a == Append(data, p)
           w == [k \in DOMAIN a |-> a[k].size]
<1>1. /\ v \in Seq(Nat) /\ Len(v) = Len(data) /\ Len(data) \in Nat
      /\ \A k \in 1..Len(data) : v[k] = data[k].size
  <2>1. DOMAIN data = 1..Len(data) /\ Len(data) \in Nat /\ \A k \in 1..Len(data) : data[k] \in Piece
    OBVIOUS
  <2>2. \A k \in 1..Len(data) : data[k].size \in Nat
    BY <2>1 DEF Piece
  <2> QED  BY <2>1, <2>2
<1>2. /\ a \in Seq(Piece) /\ Len(a) = Len(data) + 1 /\ a[Len(data) + 1] = p
      /\ \A k \in 1..Len(data) : a[k] = data[k]
  BY AppendProperties
<1>3. p.size \in Nat
  BY DEF Piece
<1> HIDE DEF a
<1>4. w = Append(v, p.size)
  <2>1. DOMAIN a = 1..Len(data) + 1
    BY <1>1, <1>2
  <2>2. /\ Append(v, p.size) \in Seq(Nat) /\ Len(Append(v, p.size)) = Len(data) + 1
        /\ Append(v, p.size)[Len(data) + 1] = p.size
        /\ \A k \in 1..Len(data) : Append(v, p.size)[k] = data[k].size
    BY <1>1, <1>3, AppendProperties
  <2>3. DOMAIN w = 1..Len(data) + 1 /\ \A k \in 1..Len(data) + 1 : w[k] = a[k].size
    BY <2>1
  <2> DEFINE x == Append(v, p.size)
  <2> HIDE DEF v, w, x
  <2>4. \A k \in 1..Len(data) + 1 : w[k] = x[k]
    BY <1>1, <1>2, <2>2, <2>3 DEF x
  <2>5. w = [k \in 1..Len(data) + 1 |-> w[k]]
    BY <2>3 DEF w
  <2>6. x = [k \in 1..Len(data) + 1 |-> x[k]]
    BY <2>2, <1>1 DEF x
  <2> QED  BY <2>4, <2>5, <2>6 DEF x
<1>5. Sizes(data) = SumsOf(v) /\ Sizes(a) = SumsOf(w)
  BY DEF Sizes
<1> HIDE DEF v, w
<1>6. /\ \A n \in 0..Len(v) : SumsOf(w)[n] = SumsOf(v)[n]
      /\ SumsOf(w)[Len(v) + 1] = SumsOf(v)[Len(v)] + p.size
  BY <1>1, <1>3, <1>4, SumsAppend
<1>7. \A n \in 0..Len(v) : SumsOf(v)[n] \in Nat
  BY <1>1, SumsType
<1> QED  BY <1>1, <1>5, <1>6, <1>7 DEF a

LEMMA NoSizes == Sizes(<<>>)[0] = 0
<1> DEFINE v == [k \in DOMAIN <<>> |-> <<>>[k].size]
<1>1. v = <<>>
  OBVIOUS
<1>2. <<>> \in Seq(Nat)
  OBVIOUS
<1>3. SumsOf(v)[0] = 0
  BY <1>1, <1>2, SumsSteps, Zenon
<1> QED  BY <1>3, Zenon DEF Sizes-----------------------------------------------------------------------------
(* Types. *)

Globals == [order : BOOLEAN, calc : Nat, software : {"none", "Capture", "camera"},
            thumbOffset : Nat, thumbLength : Nat]
Header == [count : Nat, offset : Nat, length : Nat, at : Nat \ {0}, dir : Seq(Written),
           data : Seq(Piece), orientation : Nat]
DiskFile == [header : Nat, from : Nat, length : Nat, turned : {0, 90, 270}]

FileType == file \in Files /\ rotates \in BOOLEAN
StackType ==
  stack \in Seq(Frame) /\
  \A k \in DOMAIN stack : 0 < stack[k].n /\ stack[k].n <= Len(file.dirs[stack[k].dir]) + 1
ListType == list \in Seq(Node) /\ list # <<>> /\ \A k \in DOMAIN list : IsNode(list[k])
OutType == out \in Header /\ out.at <= Len(list) /\ Used <= BufferSize
WalkOut == pc = "walk" => out = NoHeader
DiskType == disk \in [jpg : DiskFile, tmp : DiskFile]

Types ==
  /\ FileType /\ StackType /\ ListType /\ g \in Globals /\ OutType /\ WalkOut /\ DiskType
  /\ pc \in {"walk", "copy", "image", "written", "done", "exit", "crash"}

LEMMA FileIs ==
  ASSUME FileType
  PROVE  /\ \A d \in Dirs : /\ file.dirs[d] \in Seq(Entry) /\ file.order[d] \in BOOLEAN
                            /\ Len(file.dirs[d]) \in Nat
                            /\ DOMAIN file.dirs[d] = 1..Len(file.dirs[d])
                            /\ \A n \in DOMAIN file.dirs[d] : file.dirs[d][n] \in Entry
         /\ file.subs \in Seq(Dirs) /\ file.calc \in Nat /\ file.old \in BOOLEAN
         /\ file.software \in {"Capture", "camera"}
<1>1. file \in File
  BY FilesAssumption DEF FileType
<1>2. file.dirs \in [Dirs -> Seq(Entry)] /\ file.order \in [Dirs -> BOOLEAN]
  BY <1>1 DEF File
<1>3. file.subs \in Seq(Dirs) /\ file.calc \in Nat /\ file.software \in {"Capture", "camera"}
  BY <1>1 DEF File
<1>4. file.old \in BOOLEAN
  BY <1>1, Zenon DEF File
<1>5. ASSUME NEW d \in Dirs
      PROVE  /\ file.dirs[d] \in Seq(Entry) /\ Len(file.dirs[d]) \in Nat
             /\ DOMAIN file.dirs[d] = 1..Len(file.dirs[d])
             /\ \A n \in DOMAIN file.dirs[d] : file.dirs[d][n] \in Entry
  <2>1. file.dirs[d] \in Seq(Entry)
    BY <1>2
  <2> QED  BY <2>1, ElementOfSeq
<1>6. \A d \in Dirs : file.order[d] \in BOOLEAN
  BY <1>2, Zenon
<1> QED  BY <1>3, <1>4, <1>5, <1>6

\* The entry that the walk is at.
LEMMA AtEntryIs ==
  ASSUME FileType, StackType, AtEntry
  PROVE  /\ Top \in Frame /\ Top.dir \in Dirs /\ Top.n \in DOMAIN file.dirs[Top.dir]
         /\ E \in Entry /\ Len(stack) \in Nat \ {0} /\ Len(stack) \in DOMAIN stack
<1>1. Len(stack) \in Nat \ {0} /\ Len(stack) \in DOMAIN stack /\ Top \in Frame
  BY DEF AtEntry, StackType, Top
<1>2. Top.dir \in Dirs /\ Top.n \in Nat /\ 0 < Top.n /\ Top.n <= Len(file.dirs[Top.dir])
  BY <1>1 DEF AtEntry, StackType, Top, Frame
<1>3. Top.n \in DOMAIN file.dirs[Top.dir]
  BY <1>2, FileIs
<1> QED  BY <1>1, <1>2, <1>3, FileIs DEF E

LEMMA FourType ==
  ASSUME NEW a \in Byte, NEW b \in Byte, NEW c \in Byte, NEW d \in Byte
  PROVE  <<a, b, c, d>> \in Four
  BY DEF Four

\* The bytes of a node's entry, whatever is done with them.
LEMMA NodeIs ==
  ASSUME FileType, g \in Globals, NEW node, IsNode(node), node.n # 0
  PROVE  /\ node \in Node => EntryOf(node) \in Entry
         /\ EntryOf(node) \in Entry /\ Number(node) \in Four /\ FourOf(node) \in Four
         /\ Orientation(node)[1] \in Nat /\ Number(node)[1] \in Nat
         /\ SizeOf(node) \in Nat /\ Turned(node) \in BOOLEAN
<1>1. node.dir \in Dirs /\ node.n \in DOMAIN file.dirs[node.dir]
  BY DEF IsNode, Blank
<1>2. EntryOf(node) \in Entry
  BY <1>1, FileIs DEF EntryOf
<1>3. EntryOf(node).four \in Four /\ EntryOf(node).size \in Nat
  BY <1>2 DEF Entry
<1>4. \A f \in Four : f[1] \in Byte /\ f[2] \in Byte /\ f[3] \in Byte /\ f[4] \in Byte
  BY DEF Four
<1>5. \A f \in Four : Swapped(f) \in Four
  BY <1>4, FourType DEF Swapped
<1>6. Number(node) \in Four
  BY <1>3, <1>5 DEF Number
<1>7. 0 \in Byte /\ 1 \in Byte /\ \A b \in Byte : b \in Nat
  BY DEF Byte
<1> DEFINE n == Number(node)
<1>8. n[1] \in Byte /\ n[2] \in Byte /\ n[3] \in Byte /\ n[4] \in Byte
  BY <1>4, <1>6
<1> HIDE DEF n
<1>9. <<1, 0, 0, 0>> \in Four /\ <<n[3], n[4], 0, 0>> \in Four /\ <<n[4], 0, 0, 0>> \in Four
  BY <1>7, <1>8, FourType
<1>10. FourOf(node) \in {<<1, 0, 0, 0>>, <<n[3], n[4], 0, 0>>, <<n[4], 0, 0, 0>>, n}
  BY Zenon DEF FourOf, Orientation, n
<1>11. FourOf(node) \in Four
  <2>1. n \in Four
    BY <1>6 DEF n
  <2> QED  BY <1>9, <1>10, <2>1
<1>12. Orientation(node)[1] \in Nat /\ Number(node)[1] \in Nat
  BY <1>7, <1>8 DEF Orientation, n
<1>13. SizeOf(node) \in Nat
  BY <1>3 DEF SizeOf
<1>14. Turned(node) \in BOOLEAN
  BY <1>1, FileIs, Zenon DEF Turned
<1> QED  BY <1>2, <1>6, <1>11, <1>12, <1>13, <1>14

LEMMA TypesInit == Init => Types /\ StackInv /\ HeaderInv
<1> SUFFICES ASSUME Init PROVE Types /\ StackInv /\ HeaderInv
  OBVIOUS
<1>1. FileType
  BY DEF Init, FileType
<1>2. StackType
  <2>1. NewFrame("IFD0") \in Frame
    BY DEF NewFrame, Frame, Dirs
  <2>2. "IFD0" \in Dirs
    BY DEF Dirs
  <2>3. Len(file.dirs["IFD0"]) \in Nat
    BY <1>1, <2>2, FileIs
  <2> QED  BY <2>1, <2>3 DEF Init, StackType, NewFrame
<1>3. ListType
  <2>1. Blank \in Node /\ IsNode(Blank)
    BY DEF Blank, Node, IsNode, Dirs
  <2> QED  BY <2>1 DEF Init, ListType
<1>4. g \in Globals
  <2>1. file.order["IFD0"] \in BOOLEAN
    BY <1>1, FileIs DEF Dirs
  <2>2. 0 \in Nat
    OBVIOUS
  <2> QED  BY <2>1, <2>2, Zenon DEF Init, Globals
<1>5. out = NoHeader /\ pc = "walk" /\ list = <<Blank>>
  BY DEF Init
<1>6. Used = 0
  <2>1. out.data = <<>> /\ Len(<<>>) = 0
    BY <1>5 DEF NoHeader
  <2>2. Used = Sizes(<<>>)[0]
    BY <2>1, Zenon DEF Used
  <2> QED  BY <2>2, NoSizes
<1>7. OutType
  <2>1. out \in Header /\ out.at = 1
    BY <1>5 DEF NoHeader, Header
  <2> QED  BY <1>5, <1>6, <2>1 DEF OutType, BufferSize
<1>8. DiskType
  BY DEF Init, DiskType, NoFile, DiskFile
<1>9. StackInv
  BY <1>5 DEF Init, StackInv, NewFrame
<1>10. NoneMade
  BY <1>5 DEF NoneMade, NoHeader, HeaderMade
<1> QED  BY <1>1, <1>2, <1>3, <1>4, <1>5, <1>7, <1>8, <1>9, <1>10 DEF Types, WalkOut, HeaderInv

LEMMA WalkTypes ==
  ASSUME Types, StackInv, ReadEntry \/ Call \/ NextEntry \/ Return
  PROVE  StackType' /\ ListType' /\ g' \in Globals /\ StackInv'
<1>1. /\ FileType /\ StackType /\ ListType /\ g \in Globals /\ pc = "walk"
      /\ UNCHANGED <<file, rotates, pc>>
  BY DEF Types, ReadEntry, Call, NextEntry, Return, AtEntry
<1>2. /\ stack \in Seq(Frame) /\ Len(stack) \in Nat \ {0} /\ DOMAIN stack = 1..Len(stack)
      /\ list \in Seq(Node) /\ Len(list) \in Nat \ {0} /\ DOMAIN list = 1..Len(list)
  BY <1>1 DEF StackType, ListType, ReadEntry, Call, NextEntry, Return, AtEntry
<1>3. \A k \in DOMAIN stack : /\ stack[k] \in Frame /\ stack[k].dir \in Dirs
                              /\ Len(file.dirs[stack[k].dir]) \in Nat
                              /\ 0 < stack[k].n /\ stack[k].n <= Len(file.dirs[stack[k].dir]) + 1
  <2> TAKE k \in DOMAIN stack
  <2>1. stack[k] \in Frame
    BY <1>2
  <2>2. stack[k].dir \in Dirs
    BY <2>1 DEF Frame
  <2> QED  BY <1>1, <2>1, <2>2, FileIs DEF StackType
<1>4. /\ Len(stack) > 1 => stack[1].read
      /\ list[Len(list)] # Blank => stack[1].read
      /\ stack[1].dir = "IFD0"
      /\ \A k \in DOMAIN stack : stack[k].read => stack[k].n <= Len(file.dirs[stack[k].dir])
  BY <1>2 DEF StackInv
<1>9. /\ Len(stack) \in DOMAIN stack /\ 1 \in DOMAIN stack
      /\ Len(stack) = 1 \/ (Len(stack) > 1 /\ 1 # Len(stack))
  <2>1. \A n \in Nat \ {0} : n \in 1..n /\ 1 \in 1..n /\ (n = 1 \/ (n > 1 /\ 1 # n))
    OBVIOUS
  <2> QED  BY <1>2, <2>1
<1>5. CASE ReadEntry
  <2> DEFINE t == [Top EXCEPT !.read = TRUE]
             node == [dir |-> Top.dir, n |-> Top.n]
  <2>1. AtEntry /\ ~Top.read /\ stack' = [stack EXCEPT ![Len(stack)] = t]
    BY <1>5 DEF ReadEntry, Replaced
  <2>2. /\ Top \in Frame /\ Top.dir \in Dirs /\ Top.n \in DOMAIN file.dirs[Top.dir]
        /\ E \in Entry /\ Top.n \in Nat /\ Top = stack[Len(stack)]
    BY <1>1, <2>1, AtEntryIs DEF Frame, Top
  <2>3. t \in Frame /\ t.dir = Top.dir /\ t.n = Top.n /\ t.read = TRUE
    BY <2>2 DEF Frame
  <2>4. Top.n <= Len(file.dirs[Top.dir]) /\ 0 < Top.n
    BY <1>3, <1>2, <2>1, <2>2 DEF AtEntry
  <2> HIDE DEF t
  <2>5. /\ stack' \in Seq(Frame) /\ Len(stack') = Len(stack) /\ DOMAIN stack' = DOMAIN stack
        /\ stack'[Len(stack)] = t /\ \A k \in DOMAIN stack : k # Len(stack) => stack'[k] = stack[k]
    BY <1>2, <2>1, <2>3, ExceptSeq
  <2>6. StackType'
    <3>1. \A k \in DOMAIN stack' :
            0 < stack'[k].n /\ stack'[k].n <= Len(file.dirs[stack'[k].dir]) + 1
      BY <1>2, <1>3, <2>2, <2>3, <2>4, <2>5
    <3> QED  BY <1>1, <2>5, <3>1 DEF StackType
  <2>7. list' \in {list, [list EXCEPT ![Len(list)] = node]}
    BY <1>5 DEF ReadEntry
  <2>8. ListType' /\ Len(list') = Len(list)
    <3>1. node \in Node /\ IsNode(node)
      BY <2>2 DEF Node, IsNode
    <3> HIDE DEF node
    <3>2. /\ [list EXCEPT ![Len(list)] = node] \in Seq(Node)
          /\ Len([list EXCEPT ![Len(list)] = node]) = Len(list)
          /\ \A k \in DOMAIN list : [list EXCEPT ![Len(list)] = node][k] \in {list[k], node}
      BY <1>2, <3>1, ExceptSeq
    <3>3. list' \in Seq(Node) /\ Len(list') = Len(list) /\ \A k \in DOMAIN list : list'[k] \in {list[k], node}
      BY <1>2, <2>7, <3>2
    <3>4. \A k \in DOMAIN list' : list'[k] \in {list[k], node} /\ k \in DOMAIN list
      BY <1>2, <3>3
    <3>5. \A k \in DOMAIN list' : IsNode(list'[k])
      BY <1>1, <3>1, <3>4 DEF ListType
    <3>6. \A k \in DOMAIN list' : IsNode(list[k])'
      BY <1>1, <3>5 DEF IsNode
    <3> QED  BY <1>2, <3>3, <3>6 DEF ListType
  <2>9. g' \in Globals
    <3>1. E.number \in Nat
      BY <2>2 DEF Entry
    <3>2. file.software \in {"none", "Capture", "camera"} /\ file.calc \in Nat
      BY <1>1, FileIs
    <3>3. g' \in {[g EXCEPT !.software = file.software], [g EXCEPT !.thumbOffset = E.number],
                  [g EXCEPT !.thumbLength = E.number], [g EXCEPT !.calc = file.calc], g}
      BY <1>5, Zenon DEF ReadEntry
    <3> QED  BY <1>1, <3>1, <3>2, <3>3 DEF Globals
  <2>10. stack'[1].read /\ stack'[1].dir = "IFD0"
    <3>1. CASE Len(stack) = 1
      BY <1>4, <2>2, <2>3, <2>5, <3>1
    <3>2. CASE Len(stack) > 1 /\ 1 # Len(stack)
      <4>1. stack'[1] = stack[1]
        BY <1>9, <2>5, <3>2
      <4> QED  BY <1>4, <3>2, <4>1
    <3> QED  BY <1>9, <3>1, <3>2
  <2>11. \A k \in DOMAIN stack' : stack'[k].read => stack'[k].n <= Len(file.dirs[stack'[k].dir])
    BY <1>2, <1>3, <1>4, <2>2, <2>3, <2>4, <2>5
  <2>12. stack' # <<>> /\ pc' = "walk"
    BY <1>1, <1>2, <2>5
  <2>13. StackInv'
    BY <1>1, <2>10, <2>11, <2>12, Zenon DEF StackInv
  <2> QED  BY <2>6, <2>8, <2>9, <2>13
<1>6. CASE Call
  <2> DEFINE d == Leads[Top.sub + 1]
             t == [Top EXCEPT !.sub = @ + 1]
             f == NewFrame(d)
             s == Replaced(t)
  <2>1. /\ AtEntry /\ Top.read /\ Top.sub < Len(Leads) /\ stack' = Append(s, f) /\ list' = list
        /\ g' = IF d = "MAKER_NOTES" THEN [g EXCEPT !.order = file.order[d]] ELSE g
    BY <1>6, Zenon DEF Call
  <2>2. /\ Top \in Frame /\ Top.dir \in Dirs /\ Top.n \in DOMAIN file.dirs[Top.dir]
        /\ Top.n \in Nat /\ Top.sub \in Nat /\ Top = stack[Len(stack)]
    BY <1>1, <2>1, AtEntryIs DEF Frame, Top
  <2>3. t \in Frame /\ t.dir = Top.dir /\ t.n = Top.n /\ t.read = Top.read
    BY <2>2 DEF Frame
  <2>4. d \in Dirs
    <3>1. Leads \in Seq(Dirs)
      <4>1. /\ file.subs \in Seq(Dirs) /\ <<>> \in Seq(Dirs) /\ <<"EXIF">> \in Seq(Dirs)
            /\ <<"MAKER_NOTES">> \in Seq(Dirs) /\ <<"THUMBNAIL">> \in Seq(Dirs)
        BY <1>1, FileIs DEF Dirs
      <4>2. Leads \in {file.subs, <<>>, <<"EXIF">>, <<"MAKER_NOTES">>, <<"THUMBNAIL">>}
        BY Zenon DEF Leads
      <4> QED  BY <4>1, <4>2
    <3> DEFINE l == Leads
    <3> HIDE DEF l
    <3>2. l \in Seq(Dirs) /\ Top.sub < Len(l) => Top.sub + 1 \in DOMAIN l /\ l[Top.sub + 1] \in Dirs
      BY <2>2, ElementOfSeq
    <3> QED  BY <2>1, <3>1, <3>2 DEF l
  <2>5. f \in Frame /\ f.dir = d /\ f.n = 1 /\ f.read = FALSE /\ Len(file.dirs[f.dir]) \in Nat
    BY <1>1, <2>4, FileIs DEF NewFrame, Frame
  <2> HIDE DEF t, f, d
  <2>6. /\ s \in Seq(Frame) /\ Len(s) = Len(stack) /\ s[Len(stack)] = t
        /\ \A k \in DOMAIN stack : k # Len(stack) => s[k] = stack[k]
    BY <1>2, <2>3, ExceptSeq DEF Replaced
  <2> HIDE DEF s
  <2>7. /\ stack' \in Seq(Frame) /\ Len(stack') = Len(stack) + 1 /\ stack'[Len(stack) + 1] = f
        /\ \A k \in 1..Len(stack) : stack'[k] = s[k]
    BY <2>1, <2>5, <2>6, AppendProperties
  <2>8. DOMAIN stack' = 1..Len(stack) + 1
    BY <1>2, <2>7
  <2>9. \A k \in 1..Len(stack) : stack'[k].n = stack[k].n /\ stack'[k].dir = stack[k].dir
                                 /\ stack'[k].read = stack[k].read
    BY <1>2, <2>2, <2>3, <2>6, <2>7
  <2>10. \A k \in DOMAIN stack' : k \in DOMAIN stack \/ k = Len(stack) + 1
    BY <1>2, <2>8
  <2>11. \A k \in DOMAIN stack' : /\ 0 < stack'[k].n
                                  /\ stack'[k].n <= Len(file.dirs[stack'[k].dir]) + 1
                                  /\ stack'[k].read => stack'[k].n <= Len(file.dirs[stack'[k].dir])
    <3> TAKE k \in DOMAIN stack'
    <3>1. CASE k = Len(stack) + 1
      <4>1. stack'[k].n = 1 /\ stack'[k].read = FALSE /\ Len(file.dirs[stack'[k].dir]) \in Nat
        BY <2>5, <2>7, <3>1
      <4> QED  BY <4>1
    <3>2. CASE k \in DOMAIN stack
      BY <1>2, <1>3, <1>4, <2>9, <3>2
    <3> QED  BY <2>10, <3>1, <3>2
  <2>12. StackType'
    BY <1>1, <2>7, <2>11 DEF StackType
  <2>13. ListType'
    BY <1>1, <2>1 DEF ListType, IsNode
  <2>14. g' \in Globals
    <3>1. file.order[d] \in BOOLEAN
      BY <1>1, <2>4, FileIs
    <3>2. g' = g \/ g' = [g EXCEPT !.order = file.order[d]]
      BY <2>1
    <3>3. [g EXCEPT !.order = file.order[d]] \in Globals
      BY <1>1, <3>1, Zenon DEF Globals
    <3> QED  BY <1>1, <3>2, <3>3, Zenon
  <2>15. stack'[1].read /\ stack'[1].dir = "IFD0"
    <3>1. stack'[1].read = stack[1].read /\ stack'[1].dir = stack[1].dir
      BY <1>2, <1>9, <2>9
    <3>2. stack[1].read
      BY <1>4, <1>9, <2>1, <2>2
    <3> QED  BY <1>4, <3>1, <3>2
  <2>16. stack' # <<>> /\ pc' = "walk"
    BY <1>1, <1>2, <2>7
  <2>17. StackInv'
    BY <1>1, <2>11, <2>15, <2>16, Zenon DEF StackInv
  <2> QED  BY <2>12, <2>13, <2>14, <2>17
<1>7. CASE NextEntry
  <2> DEFINE t == [NewFrame(Top.dir) EXCEPT !.n = Top.n + 1]
  <2>1. /\ AtEntry /\ Top.read /\ stack' = [stack EXCEPT ![Len(stack)] = t] /\ g' = g
        /\ list' = NodeAfter(Top.dir)
    BY <1>7 DEF NextEntry, Replaced
  <2>2. /\ Top \in Frame /\ Top.dir \in Dirs /\ Top.n \in DOMAIN file.dirs[Top.dir]
        /\ Top.n \in Nat /\ Top = stack[Len(stack)]
    BY <1>1, <2>1, AtEntryIs DEF Frame, Top
  <2>3. t \in Frame /\ t.dir = Top.dir /\ t.n = Top.n + 1 /\ t.read = FALSE
    <3>1. NewFrame(Top.dir) \in Frame /\ NewFrame(Top.dir).dir = Top.dir
          /\ NewFrame(Top.dir).read = FALSE
      BY <2>2 DEF NewFrame, Frame
    <3> DEFINE f == NewFrame(Top.dir)
    <3> HIDE DEF f
    <3>2. ASSUME f \in Frame, NEW m \in Nat
          PROVE  /\ [f EXCEPT !.n = m] \in Frame /\ [f EXCEPT !.n = m].n = m
                 /\ [f EXCEPT !.n = m].dir = f.dir /\ [f EXCEPT !.n = m].read = f.read
      BY <3>2 DEF Frame
    <3>3. Top.n + 1 \in Nat
      BY <2>2
    <3> QED  BY <3>1, <3>2, <3>3, Zenon DEF f
  <2>4. Top.n <= Len(file.dirs[Top.dir]) /\ 0 < Top.n
    BY <1>3, <1>2, <2>1, <2>2 DEF AtEntry
  <2> HIDE DEF t
  <2>5. /\ stack' \in Seq(Frame) /\ Len(stack') = Len(stack) /\ DOMAIN stack' = DOMAIN stack
        /\ stack'[Len(stack)] = t /\ \A k \in DOMAIN stack : k # Len(stack) => stack'[k] = stack[k]
    BY <1>2, <2>1, <2>3, ExceptSeq
  <2>6. \A k \in DOMAIN stack' :
          /\ 0 < stack'[k].n /\ stack'[k].n <= Len(file.dirs[stack'[k].dir]) + 1
          /\ stack'[k].read => stack'[k].n <= Len(file.dirs[stack'[k].dir])
    <3> TAKE k \in DOMAIN stack'
    <3>1. CASE k = Len(stack)
      <4>1. stack'[k] = t /\ Len(file.dirs[Top.dir]) \in Nat
        BY <1>3, <1>9, <2>2, <2>5, <3>1
      <4>2. stack'[k].n = Top.n + 1 /\ stack'[k].dir = Top.dir /\ ~stack'[k].read
        BY <2>3, <4>1
      <4> QED  BY <2>2, <2>4, <4>1, <4>2
    <3>2. CASE k # Len(stack)
      <4>1. stack'[k] = stack[k] /\ k \in DOMAIN stack
        BY <2>5, <3>2
      <4> QED  BY <1>3, <1>4, <4>1
    <3> QED  BY <3>1, <3>2
  <2>7. StackType'
    BY <1>1, <2>5, <2>6 DEF StackType
  <2>8. Blank \in Node /\ IsNode(Blank)
    BY DEF Blank, Node, IsNode, Dirs
  <2>9. ListType' /\ (Lists(Top.dir) => list'[Len(list')] = Blank)
    <3>1. CASE Lists(Top.dir)
      <4>1. list' = Append(list, Blank)
        BY <2>1, <3>1 DEF NodeAfter
      <4>2. /\ list' \in Seq(Node) /\ Len(list') = Len(list) + 1 /\ list'[Len(list) + 1] = Blank
            /\ \A k \in 1..Len(list) : list'[k] = list[k]
        BY <1>2, <2>8, <4>1, AppendProperties
      <4>3. \A k \in DOMAIN list' : IsNode(list'[k])
        BY <1>1, <1>2, <2>8, <4>2 DEF ListType
      <4>4. \A k \in DOMAIN list' : IsNode(list[k])'
        BY <1>1, <4>3 DEF IsNode
      <4> QED  BY <1>2, <4>2, <4>4 DEF ListType
    <3>2. CASE ~Lists(Top.dir)
      <4>1. list' = list
        BY <2>1, <3>2 DEF NodeAfter
      <4> QED  BY <1>1, <3>2, <4>1 DEF ListType, IsNode
    <3> QED  BY <3>1, <3>2
  <2>10. Len(stack) > 1 => stack'[1] = stack[1]
    BY <1>2, <2>5
  <2>11. /\ list'[Len(list')] # Blank => stack'[1].read
         /\ stack'[1].dir = "IFD0" /\ (Len(stack') > 1 => stack'[1].read)
    <3>1. CASE Len(stack) > 1
      BY <1>4, <2>5, <2>10, <3>1
    <3>2. CASE Len(stack) = 1
      <4>1. Lists(Top.dir)
        BY <1>4, <2>2, <3>2 DEF Lists
      <4> QED  BY <1>4, <2>2, <2>3, <2>5, <2>9, <3>2, <4>1
    <3> QED  BY <1>9, <3>1, <3>2
  <2>12. stack' # <<>> /\ pc' = "walk"
    BY <1>1, <1>2, <2>5
  <2>13. StackInv'
    BY <1>1, <2>6, <2>11, <2>12, Zenon DEF StackInv
  <2> QED  BY <1>1, <2>1, <2>7, <2>9, <2>13
<1>8. CASE Return
  <2>1. /\ stack' = SubSeq(stack, 1, Len(stack) - 1) /\ list' = list
        /\ Top.n > Len(file.dirs[Top.dir]) /\ Top = stack[Len(stack)]
        /\ g' = [g EXCEPT !.order = IF Top.dir = "MAKER_NOTES" THEN file.order["EXIF"] ELSE @]
    BY <1>8 DEF Return, Top
  <2>2. ~Top.read
    <3>1. Top.n \in Nat
      BY <1>3, <1>9, <2>1 DEF Frame
    <3>2. Len(file.dirs[Top.dir]) \in Nat /\ (Top.read => Top.n <= Len(file.dirs[Top.dir]))
      BY <1>3, <1>4, <1>9, <2>1
    <3> QED  BY <2>1, <3>1, <3>2
  <2>3. /\ stack' \in Seq(Frame) /\ Len(stack') = Len(stack) - 1
        /\ \A k \in 1..Len(stack) - 1 : stack'[k] = stack[k]
    BY <1>2, <2>1, SubSeqProperties
  <2>4. DOMAIN stack' = 1..Len(stack) - 1
    BY <1>2, <2>3
  <2>5. \A k \in DOMAIN stack' :
          /\ 0 < stack'[k].n /\ stack'[k].n <= Len(file.dirs[stack'[k].dir]) + 1
          /\ stack'[k].read => stack'[k].n <= Len(file.dirs[stack'[k].dir])
    <3> TAKE k \in DOMAIN stack'
    <3>1. k \in DOMAIN stack /\ stack'[k] = stack[k]
      <4>1. \A n \in Nat \ {0} : \A i \in 1..n - 1 : i \in 1..n
        OBVIOUS
      <4> QED  BY <1>2, <2>3, <2>4, <4>1
    <3> QED  BY <1>3, <1>4, <3>1
  <2>6. StackType' /\ ListType'
    BY <1>1, <2>1, <2>3, <2>5 DEF StackType, ListType, IsNode
  <2>7. g' \in Globals
    <3>1. file.order["EXIF"] \in BOOLEAN /\ g.order \in BOOLEAN
      BY <1>1, FileIs, Zenon DEF Globals, Dirs
    <3>2. (IF Top.dir = "MAKER_NOTES" THEN file.order["EXIF"] ELSE g.order) \in BOOLEAN
      BY <3>1, Zenon
    <3> QED  BY <1>1, <2>1, <3>2, Zenon DEF Globals
  <2>8. CASE Len(stack) = 1
    <3>1. list[Len(list)] = Blank
      BY <1>4, <2>1, <2>2, <2>8
    <3>2. Len(stack') = 0
      BY <2>3, <2>8
    <3> QED  BY <1>1, <2>1, <2>5, <2>6, <2>7, <3>1, <3>2 DEF StackInv
  <2>9. CASE Len(stack) > 1
    <3>1. stack'[1] = stack[1] /\ stack' # <<>>
      BY <1>2, <2>3, <2>9
    <3> QED  BY <1>1, <1>4, <2>1, <2>5, <2>6, <2>7, <2>9, <3>1 DEF StackInv
  <2> QED  BY <1>2, <2>8, <2>9
<1> QED  BY <1>5, <1>6, <1>7, <1>8

\* The header stays as it is while the nodes do, and so do its sums.
LEMMA SameHeader ==
  ASSUME UNCHANGED <<file, list, out>>, Counted, pc' # "walk", HeaderMade' => HeaderMade
  PROVE  Counted'
<1>1. Used' = Used /\ CountTags(list)' = CountTags(list) /\ Counts(list)' = Counts(list)
  BY Zenon DEF Used, CountTags, Counts, IsCopied, EntryOf
<1>2. \A k : StartOf(k)' = StartOf(k)
  BY DEF StartOf
<1>3. \A i \in DOMAIN out.dir : EntryOf(out.dir[i].of)' = EntryOf(out.dir[i].of)
  BY DEF EntryOf
<1>4. \A i \in DOMAIN out'.dir : EntryOf(out.dir[i].of)'.size > 4 =>
        \E k \in DOMAIN out'.data :
          /\ out'.data[k].of = out'.dir[i].of /\ out'.data[k].size = out'.dir[i].size
          /\ out'.dir[i].offset = StartOf(k)'
  BY <1>2, <1>3 DEF Counted
<1>5. /\ out'.count = CountTags(list)' /\ Len(out'.dir) = Counts(list)'[out'.at - 1]
      /\ HeaderMade' => out'.at = Len(list')
      /\ out'.offset = 12 * out'.count + 14 + Used'
  BY <1>1 DEF Counted
<1> QED  BY <1>4, <1>5 DEF Counted

LEMMA NoneUsed ==
  ASSUME out.data = <<>>
  PROVE  Used = 0
<1>1. Len(<<>>) = 0
  OBVIOUS
<1>2. Used = Sizes(<<>>)[0]
  BY <1>1, Zenon DEF Used
<1> QED  BY <1>2, NoSizes

LEMMA BeginTypes ==
  ASSUME Types, StackInv, HeaderInv, NoSoftware \/ NoHeaderNeeded \/ BeginHeader
  PROVE  OutType' /\ HeaderInv'
<1>1. /\ out = NoHeader /\ pc = "walk" /\ list \in Seq(Node) /\ list # <<>>
      /\ g \in Globals /\ UNCHANGED <<file, list, g>> /\ FileType
  BY DEF Types, WalkOut, ListType, NoSoftware, NoHeaderNeeded, BeginHeader, Begins
<1>2. out \in Header /\ Len(list) \in Nat \ {0} /\ \A o \in Leftovers : o \in Nat
  BY <1>1, FilesAssumption DEF Types, OutType
<1>3. CASE NoSoftware
  <2>1. out' = out /\ pc' = "crash" /\ list' = list
    BY <1>3 DEF NoSoftware
  <2>2. OutType'
    BY <2>1, Zenon DEF Types, OutType, Used
  <2>3. NoneMade'
    BY <1>1, <2>1 DEF NoneMade, NoHeader, HeaderMade
  <2> QED  BY <2>2, <2>3 DEF HeaderInv
<1>4. CASE NoHeaderNeeded
  <2>1. PICK o \in Leftovers : out' = [out EXCEPT !.orientation = o]
    BY <1>4 DEF NoHeaderNeeded
  <2>2. out' \in Header /\ out'.at = 1 /\ out'.count = 0 /\ out'.dir = <<>> /\ out'.data = <<>>
    BY <1>1, <1>2, <2>1 DEF Header, NoHeader
  <2>3. (out.data = <<>> => Used = 0)'
    BY NoneUsed, PTL
  <2>4. OutType'
    BY <1>1, <1>2, <2>2, <2>3 DEF OutType, BufferSize
  <2>5. NoneMade'
    BY <1>4, <1>1, <2>2 DEF NoneMade, HeaderMade, NoHeaderNeeded, Capture
  <2> QED  BY <2>4, <2>5 DEF HeaderInv
<1>5. CASE BeginHeader
  <2> DEFINE n == CountTags(list)
             length == 12 * n + 4 + HeaderSize + BufferSize - 6
             stored == IF g.order THEN length ELSE 256 * (length % 256) + length \div 256
  <2>1. PICK o \in Leftovers :
          out' = [out EXCEPT !.count = n, !.orientation = o,
                             !.offset = HeaderSize + 12 * n + 4 - 14, !.length = stored]
    BY <1>5, Zenon DEF BeginHeader
  <2>2. n \in Nat /\ Counts(list)[0] = 0
    <3>1. Len(list) - 1 \in 0..Len(list)
      BY <1>2
    <3> QED  BY <1>1, <3>1, CountsSteps DEF CountTags
  <2> HIDE DEF n
  <2>3. stored \in Nat
    <3>1. length \in Nat
      BY <2>2 DEF HeaderSize, BufferSize
    <3> HIDE DEF length
    <3>2. length % 256 \in Nat /\ length \div 256 \in Nat
      BY <3>1
    <3> QED  BY <3>1, <3>2
  <2> HIDE DEF length, stored
  <2>4. HeaderSize + 12 * n + 4 - 14 = 12 * n + 14 /\ 12 * n + 14 \in Nat
    BY <2>2 DEF HeaderSize
  <2>5. out' = [count |-> n, offset |-> HeaderSize + 12 * n + 4 - 14, length |-> stored, at |-> 1,
                dir |-> <<>>, data |-> <<>>, orientation |-> o]
    BY <1>1, <2>1 DEF NoHeader
  <2>6. /\ out' \in Header /\ out'.at = 1 /\ out'.count = n /\ out'.dir = <<>> /\ out'.data = <<>>
        /\ out'.offset = 12 * n + 14
    BY <1>2, <2>2, <2>3, <2>4, <2>5 DEF Header
  <2>7. (out.data = <<>> => Used = 0)'
    BY NoneUsed, PTL
  <2>8. OutType'
    BY <1>1, <1>2, <2>6, <2>7 DEF OutType, BufferSize
  <2>9. pc' = "copy" /\ CountTags(list)' = n /\ Counts(list)' = Counts(list)
    <3>1. Counts(list)' = Counts(list)
      BY <1>1, Zenon DEF Counts, IsCopied, EntryOf
    <3> QED  BY <1>1, <1>5, <3>1 DEF BeginHeader, CountTags, n
  <2>10. Len(out'.dir) = Counts(list)'[out'.at - 1]
    BY <2>2, <2>6, <2>9
  <2>11. ~HeaderMade'
    BY <2>9 DEF HeaderMade
  <2>12. Counted'
    BY <2>6, <2>7, <2>9, <2>10, <2>11, <2>2 DEF Counted
  <2> QED  BY <2>8, <2>12 DEF HeaderInv
<1> QED  BY <1>3, <1>4, <1>5

\* The node at hand.
LEMMA NodeAt ==
  ASSUME Types, AtNode
  PROVE  /\ N \in Node /\ IsNode(N) /\ out.at \in 1..Len(list) /\ out.at + 1 <= Len(list)
         /\ Counts(list)[out.at] = Counts(list)[out.at - 1] + (IF IsCopied(N) THEN 1 ELSE 0)
         /\ Counts(list)[out.at - 1] \in Nat
<1>1. /\ out.at \in Nat \ {0} /\ out.at < Len(list) /\ Len(list) \in Nat /\ list \in Seq(Node)
      /\ DOMAIN list = 1..Len(list)
  BY DEF Types, OutType, Header, ListType, AtNode
<1>2. out.at \in 1..Len(list) /\ out.at - 1 \in 0..Len(list) /\ out.at + 1 <= Len(list)
  BY <1>1
<1>3. N \in Node /\ IsNode(N)
  BY <1>1, <1>2 DEF Types, ListType, N
<1> QED  BY <1>1, <1>2, <1>3, CountsSteps DEF N

LEMMA SkipTypes ==
  ASSUME Types, HeaderInv, SkipNode
  PROVE  OutType' /\ HeaderInv'
<1>1. /\ AtNode /\ ~IsCopied(N) /\ out' = [out EXCEPT !.at = @ + 1] /\ UNCHANGED <<file, list, pc>>
      /\ out \in Header /\ pc = "copy"
  BY DEF SkipNode, Types, OutType, AtNode
<1>2. /\ out'.at = out.at + 1 /\ out' \in Header /\ out'.count = out.count /\ out'.dir = out.dir
      /\ out'.data = out.data /\ out'.offset = out.offset
  BY <1>1 DEF Header
<1>3. Used' = Used
  BY <1>2 DEF Used
<1>4. OutType'
  BY <1>1, <1>2, <1>3, NodeAt DEF OutType, Types
<1>5. Counted
  BY <1>1 DEF HeaderInv, NoneMade
<1>6. CountTags(list)' = CountTags(list) /\ Counts(list)' = Counts(list)
  BY <1>1, Zenon DEF CountTags, Counts, IsCopied, EntryOf
<1>7. Len(out'.dir) = Counts(list)'[out'.at - 1]
  <2>1. out.at \in Nat /\ (out.at + 1) - 1 = out.at
    BY <1>1 DEF Header
  <2>2. Counts(list)[out.at] = Counts(list)[out.at - 1]
    BY <1>1, NodeAt
  <2> QED  BY <1>2, <1>5, <1>6, <2>1, <2>2 DEF Counted
<1>8. \A k : StartOf(k)' = StartOf(k)
  BY <1>2 DEF StartOf
<1>9. \A i \in DOMAIN out.dir : EntryOf(out.dir[i].of)' = EntryOf(out.dir[i].of)
  BY <1>1, <1>2 DEF EntryOf
<1>10. \A i \in DOMAIN out'.dir : EntryOf(out.dir[i].of)'.size > 4 =>
         \E k \in DOMAIN out'.data :
           /\ out'.data[k].of = out'.dir[i].of /\ out'.data[k].size = out'.dir[i].size
           /\ out'.dir[i].offset = StartOf(k)'
  <2> TAKE i \in DOMAIN out'.dir
  <2>1. i \in DOMAIN out.dir /\ out'.dir[i] = out.dir[i]
    BY <1>2
  <2>2. EntryOf(out.dir[i].of)' = EntryOf(out.dir[i].of)
    BY <1>9, <2>1
  <2>3. EntryOf(out.dir[i].of).size > 4 =>
          \E k \in DOMAIN out.data :
            /\ out.data[k].of = out.dir[i].of /\ out.data[k].size = out.dir[i].size
            /\ out.dir[i].offset = StartOf(k)
    BY <1>5, <2>1 DEF Counted
  <2> QED  BY <1>2, <1>8, <2>1, <2>2, <2>3
<1>11. Counted'
  BY <1>1, <1>2, <1>3, <1>5, <1>6, <1>7, <1>10 DEF Counted, HeaderMade
<1> QED  BY <1>4, <1>11 DEF HeaderInv

LEMMA SmallTypes ==
  ASSUME Types, HeaderInv, CopySmall
  PROVE  OutType' /\ HeaderInv'
<1> DEFINE w == [of |-> N, size |-> EntryOf(N).size, four |-> FourOf(N), offset |-> 0]
           o == IF EntryOf(N).tag # "Orientation" THEN out.orientation
                ELSE IF g.order THEN Orientation(N)[1] ELSE Number(N)[1]
<1>1. /\ AtNode /\ IsCopied(N) /\ EntryOf(N).size <= 4 /\ UNCHANGED <<file, list, pc>>
      /\ out' = [out EXCEPT !.at = @ + 1, !.dir = Append(@, w), !.orientation = o]
      /\ out \in Header /\ pc = "copy"
  BY DEF CopySmall, Types, OutType, AtNode
<1>2. N \in Node /\ IsNode(N) /\ N.n # 0
  BY <1>1, NodeAt DEF IsCopied
<1>3. /\ EntryOf(N).size \in Nat /\ FourOf(N) \in Four
      /\ Orientation(N)[1] \in Nat /\ Number(N)[1] \in Nat
  BY <1>2, NodeIs DEF Types, Entry
<1>4. w \in Written /\ o \in Nat /\ w.of = N
  <2>1. out.orientation \in Nat
    BY <1>1 DEF Header
  <2> QED  BY <1>2, <1>3, <2>1 DEF Written
<1>5. out.dir \in Seq(Written) /\ out.at \in Nat \ {0}
  BY <1>1 DEF Header
<1> HIDE DEF w, o
<1>6. Append(out.dir, w) \in Seq(Written) /\ Len(Append(out.dir, w)) = Len(out.dir) + 1
      /\ Append(out.dir, w)[Len(out.dir) + 1] = w /\ Len(out.dir) \in Nat
      /\ \A i \in 1..Len(out.dir) : Append(out.dir, w)[i] = out.dir[i]
  BY <1>4, <1>5, AppendProperties
<1>7. /\ out'.at = out.at + 1 /\ out' \in Header /\ out'.count = out.count
      /\ out'.dir = Append(out.dir, w) /\ out'.data = out.data /\ out'.offset = out.offset
  <2>1. out' = [count |-> out.count, offset |-> out.offset, length |-> out.length, at |-> out.at + 1,
                dir |-> Append(out.dir, w), data |-> out.data, orientation |-> o]
    BY <1>1 DEF Header
  <2>2. out.at + 1 \in Nat \ {0}
    BY <1>5
  <2> QED  BY <1>1, <1>4, <1>6, <2>1, <2>2 DEF Header
<1>8. Used' = Used
  BY <1>7 DEF Used
<1>9. OutType'
  BY <1>1, <1>7, <1>8, NodeAt DEF OutType, Types
<1>10. Counted
  BY <1>1 DEF HeaderInv, NoneMade
<1>11. CountTags(list)' = CountTags(list) /\ Counts(list)' = Counts(list)
  BY <1>1, Zenon DEF CountTags, Counts, IsCopied, EntryOf
<1>12. Len(out'.dir) = Counts(list)'[out'.at - 1]
  <2>1. (out.at + 1) - 1 = out.at
    BY <1>5
  <2>2. Counts(list)[out.at] = Counts(list)[out.at - 1] + 1
    BY <1>1, NodeAt
  <2> QED  BY <1>6, <1>7, <1>10, <1>11, <2>1, <2>2 DEF Counted
<1>13. \A k : StartOf(k)' = StartOf(k)
  BY <1>7 DEF StartOf
<1>14. ASSUME NEW i \in DOMAIN out'.dir, EntryOf(out.dir[i].of)'.size > 4
       PROVE  \E k \in DOMAIN out'.data :
                /\ out'.data[k].of = out'.dir[i].of /\ out'.data[k].size = out'.dir[i].size
                /\ out'.dir[i].offset = StartOf(k)'
  <2>1. i \in 1..Len(out.dir) + 1
    BY <1>6, <1>7, <1>14
  <2>2. i # Len(out.dir) + 1
    <3>1. EntryOf(N).size \in Nat /\ ~(EntryOf(N).size > 4)
      BY <1>1, <1>3
    <3>2. i = Len(out.dir) + 1 => EntryOf(out.dir[i].of)' = EntryOf(N)
      BY <1>1, <1>4, <1>6, <1>7 DEF EntryOf
    <3> QED  BY <1>14, <3>1, <3>2
  <2>3. i \in DOMAIN out.dir /\ i \in 1..Len(out.dir)
    BY <1>5, <1>6, <2>1, <2>2
  <2>4. out'.dir[i] = out.dir[i]
    BY <1>6, <1>7, <2>3
  <2>5. EntryOf(out.dir[i].of).size > 4
    BY <1>1, <1>14, <2>4 DEF EntryOf
  <2> QED  BY <1>7, <1>10, <1>13, <2>3, <2>4, <2>5, Zenon DEF Counted
<1>15. Counted'
  BY <1>1, <1>7, <1>8, <1>10, <1>11, <1>12, <1>14 DEF Counted, HeaderMade
<1> QED  BY <1>9, <1>15 DEF HeaderInv

\* A piece is put where the offset says, and the pieces before it stay.
LEMMA DataTypes ==
  ASSUME Types, HeaderInv, CopyData
  PROVE  OutType' /\ HeaderInv'
<1> DEFINE w == [of |-> N, size |-> SizeOf(N), four |-> <<0, 0, 0, 0>>, offset |-> out.offset]
           p == [of |-> N, size |-> SizeOf(N), turned |-> Turned(N)]
           dirs == Append(out.dir, w)
           data == Append(out.data, p)
<1>21. PICK n \in Nat : n = Len(out.data)
  BY DEF Types, OutType, Header
<1>1. /\ AtNode /\ IsCopied(N) /\ Used + SizeOf(N) <= BufferSize /\ UNCHANGED <<file, list, pc>>
      /\ out' = [out EXCEPT !.at = @ + 1, !.dir = dirs, !.data = data, !.offset = @ + SizeOf(N)]
      /\ out \in Header /\ pc = "copy"
  BY DEF CopyData, Types, OutType, AtNode, OffsetAfter
<1>2. N \in Node /\ IsNode(N) /\ N.n # 0
  BY <1>1, NodeAt DEF IsCopied
<1>3. SizeOf(N) \in Nat /\ Turned(N) \in BOOLEAN
  BY <1>2, NodeIs DEF Types
<1>4. /\ out.dir \in Seq(Written) /\ out.at \in Nat \ {0} /\ out.data \in Seq(Piece)
      /\ out.offset \in Nat /\ n \in Nat /\ n = Len(out.data)
  BY <1>1, <1>21 DEF Header
<1>5. w \in Written /\ w.of = N /\ w.size = SizeOf(N) /\ w.offset = out.offset
  <2>1. <<0, 0, 0, 0>> \in Four
    BY FourType DEF Byte
  <2> QED  BY <1>2, <1>3, <1>4, <2>1 DEF Written
<1>6. p \in Piece /\ p.of = N /\ p.size = SizeOf(N)
  <2>1. p \in Piece
    BY <1>2, <1>3, Zenon DEF Piece
  <2> QED  BY <2>1
<1> HIDE DEF w, p
<1>7. /\ dirs \in Seq(Written) /\ Len(dirs) = Len(out.dir) + 1 /\ dirs[Len(out.dir) + 1] = w
      /\ Len(out.dir) \in Nat /\ \A i \in 1..Len(out.dir) : dirs[i] = out.dir[i]
  BY <1>4, <1>5, AppendProperties
<1>8. /\ data \in Seq(Piece) /\ Len(data) = n + 1 /\ data[n + 1] = p
      /\ \A k \in 1..n : data[k] = out.data[k]
  BY <1>4, <1>6, AppendProperties
<1>9. /\ \A k \in 0..n : Sizes(data)[k] = Sizes(out.data)[k]
      /\ Sizes(data)[n + 1] = Used + SizeOf(N) /\ Used = Sizes(out.data)[n] /\ Used \in Nat
  <2>1. n \in 0..n
    BY <1>4
  <2> QED  BY <1>4, <1>6, <2>1, SizesSteps DEF Used
<1> HIDE DEF dirs, data
<1>10. /\ out'.at = out.at + 1 /\ out' \in Header /\ out'.count = out.count
       /\ out'.dir = dirs /\ out'.data = data /\ out'.offset = out.offset + SizeOf(N)
  <2>1. out' = [count |-> out.count, offset |-> out.offset + SizeOf(N), length |-> out.length,
                at |-> out.at + 1, dir |-> dirs, data |-> data, orientation |-> out.orientation]
    BY <1>1 DEF Header
  <2>2. out.at + 1 \in Nat \ {0} /\ out.offset + SizeOf(N) \in Nat
    BY <1>3, <1>4
  <2> QED  BY <1>1, <1>7, <1>8, <2>1, <2>2 DEF Header
<1>11. Used' = Used + SizeOf(N)
  BY <1>8, <1>9, <1>10 DEF Used
<1>12. OutType'
  BY <1>1, <1>10, <1>11, NodeAt DEF OutType, Types
<1>13. Counted
  BY <1>1 DEF HeaderInv, NoneMade
<1>14. CountTags(list)' = CountTags(list) /\ Counts(list)' = Counts(list)
  BY <1>1, Zenon DEF CountTags, Counts, IsCopied, EntryOf
<1>15. Len(out'.dir) = Counts(list)'[out'.at - 1]
  <2>1. (out.at + 1) - 1 = out.at
    BY <1>4
  <2>2. Counts(list)[out.at] = Counts(list)[out.at - 1] + 1
    BY <1>1, NodeAt
  <2> QED  BY <1>7, <1>10, <1>13, <1>14, <2>1, <2>2 DEF Counted
<1>16. \A k \in 1..n : StartOf(k)' = StartOf(k)
  <2>1. \A k \in 1..n : k - 1 \in 0..n
    BY <1>4
  <2> QED  BY <1>9, <1>10, <2>1 DEF StartOf
<1>17. StartOf(n + 1)' = 12 * out.count + 14 + Used
  <2> SUFFICES 12 * out'.count + 14 + Sizes(out'.data)[(n + 1) - 1] = 12 * out.count + 14 + Used
    BY DEF StartOf
  <2>1. (n + 1) - 1 = n /\ n \in 0..n
    BY <1>4
  <2> QED  BY <1>9, <1>10, <2>1
<1>18. ASSUME NEW i \in DOMAIN out'.dir, EntryOf(out.dir[i].of)'.size > 4
       PROVE  \E k \in DOMAIN out'.data :
                /\ out'.data[k].of = out'.dir[i].of /\ out'.data[k].size = out'.dir[i].size
                /\ out'.dir[i].offset = StartOf(k)'
  <2>1. i \in 1..Len(out.dir) \/ i = Len(out.dir) + 1
    BY <1>7, <1>10, <1>18
  <2>2. CASE i = Len(out.dir) + 1
    <3>1. out'.dir[i] = w
      BY <1>7, <1>10, <2>2
    <3>2. n + 1 \in DOMAIN out'.data /\ out'.data[n + 1] = p
      BY <1>4, <1>8, <1>10
    <3>3. w.offset = StartOf(n + 1)'
      BY <1>5, <1>13, <1>17 DEF Counted
    <3>4. /\ out'.data[n + 1].of = out'.dir[i].of /\ out'.data[n + 1].size = out'.dir[i].size
          /\ out'.dir[i].offset = StartOf(n + 1)'
      BY <1>5, <1>6, <3>1, <3>2, <3>3
    <3> QED  BY <3>2, <3>4, Zenon
  <2>3. CASE i \in 1..Len(out.dir)
    <3>1. i \in DOMAIN out.dir /\ out'.dir[i] = out.dir[i]
      BY <1>4, <1>7, <1>10, <2>3
    <3>2. EntryOf(out.dir[i].of).size > 4
      BY <1>1, <1>18, <3>1 DEF EntryOf
    <3>3. PICK k \in DOMAIN out.data :
            /\ out.data[k].of = out.dir[i].of /\ out.data[k].size = out.dir[i].size
            /\ out.dir[i].offset = StartOf(k)
      BY <1>13, <3>1, <3>2 DEF Counted
    <3>4. k \in 1..n
      BY <1>4, <3>3
    <3>5. k \in DOMAIN out'.data /\ out'.data[k] = out.data[k] /\ StartOf(k)' = StartOf(k)
      BY <1>4, <1>8, <1>10, <1>16, <3>4
    <3> QED  BY <3>1, <3>3, <3>5
  <2> QED  BY <2>1, <2>2, <2>3
<1>19. out'.offset = 12 * out'.count + 14 + Used'
  <2>1. out.count \in Nat
    BY <1>1 DEF Header
  <2> QED  BY <1>3, <1>9, <1>10, <1>11, <1>13, <2>1 DEF Counted
<1>20. Counted'
  BY <1>1, <1>10, <1>13, <1>14, <1>15, <1>18, <1>19 DEF Counted, HeaderMade
<1> QED  BY <1>12, <1>20 DEF HeaderInv

FileAction == NotCreated \/ NoImage \/ WriteImage \/ Turn \/ NotTurned

LEMMA DiskTypes ==
  ASSUME Types, FileAction
  PROVE  DiskType'
<1>1. /\ disk \in [jpg : DiskFile, tmp : DiskFile] /\ g \in Globals /\ file.calc \in Nat
      /\ out.count \in Nat
  BY FileIs DEF Types, DiskType, OutType, Header
<1>2. disk.jpg \in DiskFile /\ disk.tmp \in DiskFile
  BY <1>1
<1>3. Image \in DiskFile
  <2>1. g.thumbOffset \in Nat /\ g.thumbLength \in Nat
    BY <1>1 DEF Globals
  <2>2. Skipped \in Nat /\ (IF file.old THEN g.calc ELSE 0) \in Nat
    BY <1>1 DEF Skipped, Globals
  <2>3. (IF Capture THEN 0 ELSE HeaderSize - 2 + 12 * out.count + 4 + BufferSize) \in Nat
    BY <1>1 DEF HeaderSize, BufferSize
  <2> QED  BY <2>1, <2>2, <2>3 DEF Image, DiskFile
<1>4. ASSUME NEW i \in DiskFile, disk' = [disk EXCEPT ![Name] = i]
      PROVE  disk' \in [jpg : DiskFile, tmp : DiskFile]
  BY <1>1, <1>2, <1>4 DEF Name
<1>5. CASE NoImage \/ WriteImage
  <2>1. disk' = [disk EXCEPT ![Name] = Image]
    BY <1>5 DEF NoImage, WriteImage
  <2> QED  BY <1>3, <1>4, <2>1 DEF DiskType
<1>6. CASE Turn
  <2> DEFINE a == IF out.orientation = 6 THEN 90 ELSE 270
             i == [disk.tmp EXCEPT !.turned = a]
  <2>1. disk' = [jpg |-> i, tmp |-> NoFile]
    BY <1>6 DEF Turn
  <2>2. a \in {0, 90, 270}
    OBVIOUS
  <2>3. NoFile \in DiskFile
    BY DEF NoFile, DiskFile
  <2> HIDE DEF a
  <2>4. i \in DiskFile
    BY <1>2, <2>2 DEF DiskFile
  <2> HIDE DEF i
  <2> QED  BY <2>1, <2>3, <2>4 DEF DiskType
<1>7. CASE NotCreated \/ NotTurned
  BY <1>1, <1>7 DEF NotCreated, NotTurned, DiskType
<1> QED  BY <1>5, <1>6, <1>7 DEF FileAction

LEMMA Step == Types /\ StackInv /\ HeaderInv /\ [Next]_vars => (Types /\ StackInv /\ HeaderInv)'
<1> SUFFICES ASSUME Types, StackInv, HeaderInv, [Next]_vars
             PROVE  (Types /\ StackInv /\ HeaderInv)'
  OBVIOUS
<1>1. CASE ReadEntry \/ Call \/ NextEntry \/ Return
  <2>1. UNCHANGED <<file, rotates, pc, out, disk>> /\ pc = "walk" /\ out = NoHeader
    BY <1>1 DEF ReadEntry, Call, NextEntry, Return, AtEntry, Types, WalkOut
  <2>2. StackType' /\ ListType' /\ g' \in Globals /\ StackInv'
    BY <1>1, WalkTypes
  <2>3. OutType'
    <3>1. Used' = Used
      BY <2>1 DEF Used
    <3>2. out.at = 1 /\ Len(list') \in Nat \ {0}
      BY <2>1, <2>2 DEF NoHeader, ListType
    <3> QED  BY <2>1, <3>1, <3>2 DEF Types, OutType
  <2>4. NoneMade'
    BY <2>1 DEF NoneMade, NoHeader, HeaderMade
  <2> QED  BY <2>1, <2>2, <2>3, <2>4 DEF Types, FileType, WalkOut, DiskType, HeaderInv
<1>2. CASE UNCHANGED <<file, rotates, stack, list, g, disk>> /\ pc' # "walk" /\ StackInv'
             /\ OutType' /\ HeaderInv' /\ pc' \in {"copy", "image", "written", "done", "exit", "crash"}
  BY <1>2, Zenon DEF Types, FileType, StackType, ListType, IsNode, DiskType, WalkOut
<1>3. CASE NoSoftware \/ NoHeaderNeeded \/ BeginHeader
  <2>1. OutType' /\ HeaderInv'
    BY <1>3, BeginTypes
  <2>2. /\ UNCHANGED <<file, rotates, stack, list, g, disk>> /\ stack = <<>>
        /\ pc' \in {"copy", "image", "crash"}
    BY <1>3 DEF NoSoftware, NoHeaderNeeded, BeginHeader, Begins
  <2>3. StackInv'
    BY <2>2 DEF StackInv
  <2> QED  BY <1>2, <2>1, <2>2, <2>3
<1>4. CASE SkipNode \/ CopySmall \/ CopyData
  <2>1. OutType' /\ HeaderInv'
    BY <1>4, SkipTypes, SmallTypes, DataTypes
  <2>2. UNCHANGED <<file, rotates, stack, list, g, disk, pc>> /\ pc = "copy"
    BY <1>4 DEF SkipNode, CopySmall, CopyData, AtNode
  <2>3. StackInv'
    BY <2>2 DEF StackInv
  <2> QED  BY <1>2, <2>1, <2>2, <2>3
<1>5. CASE Overrun \/ HeaderDone \/ FileAction
  <2>1. /\ UNCHANGED <<file, rotates, stack, list, g, out>> /\ pc # "walk"
        /\ pc' \in {"image", "written", "done", "exit", "crash"}
        /\ pc' = "image" => pc = "copy" /\ out.at = Len(list)
        /\ pc' = "written" => pc = "image"
        /\ pc' = "done" => pc = "written"
    BY <1>5 DEF Overrun, HeaderDone, FileAction, NotCreated, NoImage, WriteImage, Turn, NotTurned,
                AtNode
  <2>2. StackInv'
    BY <2>1 DEF StackInv
  <2>3. OutType'
    <3>1. Used' = Used
      BY <2>1 DEF Used
    <3> QED  BY <2>1, <3>1 DEF Types, OutType
  <2>4. DiskType'
    <3>1. CASE FileAction
      BY <3>1, DiskTypes
    <3>2. CASE Overrun \/ HeaderDone
      BY <3>2 DEF Overrun, HeaderDone, Types, DiskType
    <3> QED  BY <1>5, <3>1, <3>2
  <2>5. HeaderInv'
    <3>1. CASE pc' # "image" /\ NoneMade
      <4>1. HeaderMade' => HeaderMade
        BY <2>1, <3>1 DEF HeaderMade, Capture
      <4>2. NoneMade'
        BY <2>1, <3>1, <4>1 DEF NoneMade
      <4> QED  BY <4>2 DEF HeaderInv
    <3>2. CASE pc' # "image" /\ Counted
      <4>1. HeaderMade' => HeaderMade
        BY <2>1, <3>2 DEF HeaderMade, Capture
      <4>2. Counted'
        BY <2>1, <3>2, <4>1, SameHeader
      <4> QED  BY <4>2 DEF HeaderInv
    <3>3. CASE pc' = "image"
      <4>1. pc = "copy" /\ out.at = Len(list)
        BY <2>1, <3>3
      <4>2. Counted
        BY <4>1 DEF HeaderInv, NoneMade
      <4>3. Used' = Used /\ CountTags(list)' = CountTags(list) /\ Counts(list)' = Counts(list)
        BY <2>1, Zenon DEF Used, CountTags, Counts, IsCopied, EntryOf
      <4>4. \A k : StartOf(k)' = StartOf(k)
        BY <2>1 DEF StartOf
      <4>5. \A i \in DOMAIN out.dir : EntryOf(out.dir[i].of)' = EntryOf(out.dir[i].of)
        BY <2>1 DEF EntryOf
      <4>6. \A i \in DOMAIN out'.dir : EntryOf(out.dir[i].of)'.size > 4 =>
              \E k \in DOMAIN out'.data :
                /\ out'.data[k].of = out'.dir[i].of /\ out'.data[k].size = out'.dir[i].size
                /\ out'.dir[i].offset = StartOf(k)'
        BY <2>1, <4>2, <4>4, <4>5 DEF Counted
      <4>7. Counted'
        BY <2>1, <3>3, <4>1, <4>2, <4>3, <4>6 DEF Counted
      <4> QED  BY <4>7 DEF HeaderInv
    <3> QED  BY <3>1, <3>2, <3>3 DEF HeaderInv
  <2>6. FileType' /\ StackType' /\ ListType' /\ g' \in Globals /\ WalkOut'
    BY <2>1, Zenon DEF Types, FileType, StackType, ListType, IsNode, WalkOut
  <2> QED  BY <2>1, <2>2, <2>3, <2>4, <2>5, <2>6 DEF Types
<1>6. CASE UNCHANGED vars
  <2>1. UNCHANGED <<file, rotates, pc, stack, list, g, out, disk>>
    BY <1>6 DEF vars
  <2>2. Used' = Used
    BY <2>1 DEF Used
  <2>3. Types' /\ StackInv'
    BY <2>1, <2>2, Zenon DEF Types, FileType, StackType, ListType, IsNode, OutType, WalkOut, DiskType,
                             StackInv
  <2>4. HeaderMade' = HeaderMade
    BY <2>1 DEF HeaderMade, Capture
  <2>5. CASE NoneMade
    <3>1. NoneMade'
      BY <2>1, <2>4, <2>5 DEF NoneMade
    <3> QED  BY <2>3, <3>1 DEF HeaderInv
  <2>6. CASE Counted
    <3>1. pc' # "walk"
      BY <2>1, <2>6 DEF Counted
    <3>2. Counted'
      BY <2>1, <2>4, <2>6, <3>1, SameHeader
    <3> QED  BY <2>3, <3>2 DEF HeaderInv
  <2> QED  BY <2>5, <2>6 DEF HeaderInv
<1> QED  BY <1>1, <1>3, <1>4, <1>5, <1>6 DEF Next, FileAction, Stopped

\* The header never has more entries than were counted.
LEMMA CountBound ==
  ASSUME Types, HeaderInv
  PROVE  Len(out.dir) <= out.count /\ (HeaderMade => Len(out.dir) = out.count)
<1>1. CASE NoneMade
  BY <1>1 DEF NoneMade
<1>2. CASE Counted
  <2>1. /\ out.count = CountTags(list) /\ Len(out.dir) = Counts(list)[out.at - 1]
        /\ HeaderMade => out.at = Len(list)
    BY <1>2 DEF Counted
  <2>2. /\ list \in Seq(Node) /\ Len(list) \in Nat \ {0} /\ out.at \in Nat \ {0}
        /\ out.at <= Len(list)
    BY DEF Types, ListType, OutType, Header
  <2>3. out.at - 1 \in 0..Len(list) /\ Len(list) - 1 \in 0..Len(list) /\ out.at - 1 <= Len(list) - 1
    BY <2>2
  <2>4. Counts(list)[out.at - 1] <= Counts(list)[Len(list) - 1]
    BY <2>2, <2>3, CountsSteps
  <2> QED  BY <2>1, <2>4 DEF CountTags
<1> QED  BY <1>1, <1>2 DEF HeaderInv

\* The walk, the header and the files keep their types, for every NEF: the list
\* ends with an empty node when the header is made, the header never has more
\* entries than count_tags found, and data_buffer is not left behind.
THEOREM TypeCorrect == Spec => []TypeOK
<1>1. Types /\ StackInv /\ HeaderInv => TypeOK
  <2> SUFFICES ASSUME Types, StackInv, HeaderInv PROVE TypeOK
    OBVIOUS
  <2>1. stack \in Seq(Frame) /\ \A k \in DOMAIN stack : stack[k].n <= Len(file.dirs[stack[k].dir]) + 1
    BY DEF Types, StackType
  <2>2. list # <<>> /\ \A k \in DOMAIN list : IsNode(list[k])
    BY DEF Types, ListType
  <2>3. pc # "walk" => list[Len(list)] = Blank
    BY DEF StackInv
  <2>4. out.at \in 1..Len(list) /\ out.dir \in Seq(Written) /\ out.data \in Seq(Piece)
        /\ Used <= BufferSize
    BY DEF Types, OutType, Header, ListType
  <2>5. \A name \in {"jpg", "tmp"} : disk[name].turned \in {0, 90, 270}
    BY DEF Types, DiskType, DiskFile
  <2>6. Len(out.dir) <= out.count
    BY CountBound
  <2> QED  BY <2>1, <2>2, <2>3, <2>4, <2>5, <2>6, Zenon DEF TypeOK, Types, Globals
<1> QED  BY <1>1, TypesInit, Step, PTL DEF Spec

\* A reader of the JPG finds as many entries as the header says, and every entry
\* of more than four bytes points to its own data, for every NEF: count_tags and
\* the loop that copies agree on what is copied, and the offset grows by what is
\* put in the buffer, not by what the NEF has.
THEOREM EntriesCorrect == Spec => []EntriesFound
<1>1. Types /\ StackInv /\ HeaderInv => EntriesFound
  <2> SUFFICES ASSUME Types, HeaderInv, HeaderMade
               PROVE  /\ Len(out.dir) = out.count
                      /\ \A i \in DOMAIN out.dir : EntryOf(out.dir[i].of).size > 4 =>
                           \E k \in DOMAIN out.data :
                             /\ out.data[k].of = out.dir[i].of
                             /\ out.data[k].size = out.dir[i].size
                             /\ out.dir[i].offset = StartOf(k)
    BY DEF EntriesFound
  <2>1. Counted
    BY DEF HeaderInv, NoneMade
  <2> QED  BY <2>1, CountBound DEF Counted
<1> QED  BY <1>1, TypesInit, Step, PTL DEF Spec

-----------------------------------------------------------------------------
(* Values. *)

\* What is in the header of a value, and what was done with it.
ValueInv ==
  /\ \E d \in Dirs : g.order = file.order[d]
  /\ \A i \in DOMAIN out.dir :
       /\ IsNode(out.dir[i].of) /\ out.dir[i].of.n # 0
       /\ EntryOf(out.dir[i].of).size <= 4 =>
            /\ out.dir[i].four = FourOf(out.dir[i].of)
            /\ out.dir[i].size = EntryOf(out.dir[i].of).size
  /\ \A k \in DOMAIN out.data : out.data[k].turned = Turned(out.data[k].of)

LEMMA ValueInit == Init => ValueInv
  BY DEF Init, ValueInv, NoHeader, Dirs

LEMMA ValueStep == Types /\ ValueInv /\ [Next]_vars => ValueInv'
<1> SUFFICES ASSUME Types, ValueInv, [Next]_vars PROVE ValueInv'
  OBVIOUS
<1>1. /\ out.dir \in Seq(Written) /\ out.data \in Seq(Piece) /\ FileType /\ StackType
  BY DEF Types, OutType, Header
<1>2. CASE ReadEntry \/ Call \/ NextEntry \/ Return
  <2>1. UNCHANGED <<file, out>> /\ out.dir = <<>> /\ out.data = <<>>
    BY <1>2 DEF ReadEntry, Call, NextEntry, Return, AtEntry, Types, WalkOut, NoHeader
  <2>2. \E d \in Dirs : g'.order = file.order[d]
    <3>1. CASE ReadEntry
      <4>1. g'.order = g.order
        BY <3>1 DEF ReadEntry, Types, Globals
      <4> QED  BY <4>1 DEF ValueInv
    <3>2. CASE Call
      <4>1. g' = g \/ g' = [g EXCEPT !.order = file.order["MAKER_NOTES"]]
        BY <3>2, Zenon DEF Call
      <4>2. g'.order = g.order \/ g'.order = file.order["MAKER_NOTES"]
        BY <4>1 DEF Types, Globals
      <4> QED  BY <4>2 DEF ValueInv, Dirs
    <3>3. CASE NextEntry
      BY <3>3 DEF NextEntry, ValueInv
    <3>4. CASE Return
      <4>1. g'.order = g.order \/ g'.order = file.order["EXIF"]
        BY <3>4 DEF Return, Types, Globals
      <4> QED  BY <4>1 DEF ValueInv, Dirs
    <3> QED  BY <1>2, <3>1, <3>2, <3>3, <3>4
  <2> QED  BY <2>1, <2>2 DEF ValueInv
<1>3. ASSUME UNCHANGED <<file, rotates, g>>,
             \A i \in DOMAIN out'.dir :
               \/ i \in DOMAIN out.dir /\ out'.dir[i] = out.dir[i]
               \/ /\ IsNode(out'.dir[i].of) /\ out'.dir[i].of.n # 0
                  /\ EntryOf(out'.dir[i].of).size <= 4 =>
                       /\ out'.dir[i].four = FourOf(out'.dir[i].of)
                       /\ out'.dir[i].size = EntryOf(out'.dir[i].of).size,
             \A k \in DOMAIN out'.data :
               \/ k \in DOMAIN out.data /\ out'.data[k] = out.data[k]
               \/ out'.data[k].turned = Turned(out'.data[k].of)
      PROVE  ValueInv'
  <2>1. \E d \in Dirs : g'.order = file'.order[d]
    BY <1>3 DEF ValueInv
  <2>2. \A i \in DOMAIN out'.dir :
          /\ IsNode(out'.dir[i].of) /\ out'.dir[i].of.n # 0
          /\ EntryOf(out'.dir[i].of).size <= 4 =>
               /\ out'.dir[i].four = FourOf(out'.dir[i].of)
               /\ out'.dir[i].size = EntryOf(out'.dir[i].of).size
    BY <1>3 DEF ValueInv
  <2>3. \A k \in DOMAIN out'.data : out'.data[k].turned = Turned(out'.data[k].of)
    BY <1>3 DEF ValueInv
  <2>4. \A i : /\ IsNode(out.dir[i].of)' = IsNode(out'.dir[i].of)
               /\ EntryOf(out.dir[i].of)' = EntryOf(out'.dir[i].of)
               /\ FourOf(out.dir[i].of)' = FourOf(out'.dir[i].of)
    <3> TAKE i
    <3> DEFINE node == out'.dir[i].of
    <3>1. EntryOf(out.dir[i].of)' = EntryOf(node) /\ IsNode(out.dir[i].of)' = IsNode(node)
      BY <1>3 DEF IsNode, EntryOf
    <3>2. Number(out.dir[i].of)' = Number(node)
      BY <1>3, <3>1, Zenon DEF Number
    <3>3. FourOf(out.dir[i].of)' = FourOf(node)
      BY <1>3, <3>1, <3>2, Zenon DEF FourOf, Orientation
    <3> QED  BY <3>1, <3>3
  <2>5. \A k : Turned(out.data[k].of)' = Turned(out'.data[k].of)
    BY <1>3, Zenon DEF Turned, EntryOf
  <2> QED  BY <2>1, <2>2, <2>3, <2>4, <2>5 DEF ValueInv
<1>4. CASE UNCHANGED <<file, rotates, g>> /\ out'.dir = out.dir /\ out'.data = out.data
  BY <1>3, <1>4
<1>5. CASE NoSoftware \/ NoHeaderNeeded \/ BeginHeader \/ SkipNode
  <2>1. out \in Header
    BY DEF Types, OutType
  <2>2. UNCHANGED <<file, rotates, g>> /\ out'.dir = out.dir /\ out'.data = out.data
    BY <1>5, <2>1 DEF NoSoftware, NoHeaderNeeded, BeginHeader, SkipNode, Header
  <2> QED  BY <1>4, <2>2
<1>6. CASE Overrun \/ HeaderDone \/ FileAction \/ UNCHANGED vars
  BY <1>4, <1>6 DEF Overrun, HeaderDone, FileAction, NotCreated, NoImage, WriteImage, Turn,
                    NotTurned, vars
<1>7. CASE CopySmall
  <2> DEFINE w == [of |-> N, size |-> EntryOf(N).size, four |-> FourOf(N), offset |-> 0]
  <2>1. /\ AtNode /\ IsCopied(N) /\ UNCHANGED <<file, rotates, g>>
        /\ out'.dir = Append(out.dir, w) /\ out'.data = out.data
    <3>1. out \in Header
      BY DEF Types, OutType
    <3> QED  BY <1>7, <3>1 DEF CopySmall, Header
  <2>2. N \in Node /\ IsNode(N) /\ N.n # 0 /\ w \in Written
    <3>1. N \in Node /\ IsNode(N) /\ N.n # 0
      BY <2>1, NodeAt DEF IsCopied
    <3>2. EntryOf(N).size \in Nat /\ FourOf(N) \in Four
      BY <3>1, NodeIs DEF Types, Entry
    <3> QED  BY <3>1, <3>2 DEF Written
  <2>3. w.of = N /\ w.size = EntryOf(N).size /\ w.four = FourOf(N)
    OBVIOUS
  <2> HIDE DEF w
  <2>4. \A i \in DOMAIN out'.dir :
          (i \in DOMAIN out.dir /\ out'.dir[i] = out.dir[i]) \/ out'.dir[i] = w
    BY <1>1, <2>1, <2>2, AppendProperties
  <2> QED  BY <1>3, <2>1, <2>2, <2>3, <2>4
<1>8. CASE CopyData
  <2> DEFINE w == [of |-> N, size |-> SizeOf(N), four |-> <<0, 0, 0, 0>>, offset |-> out.offset]
             p == [of |-> N, size |-> SizeOf(N), turned |-> Turned(N)]
  <2>1. /\ AtNode /\ IsCopied(N) /\ EntryOf(N).size > 4 /\ UNCHANGED <<file, rotates, g>>
        /\ out'.dir = Append(out.dir, w) /\ out'.data = Append(out.data, p)
    <3>1. out \in Header
      BY DEF Types, OutType
    <3> QED  BY <1>8, <3>1 DEF CopyData, Header
  <2>2. N \in Node /\ IsNode(N) /\ N.n # 0
    BY <2>1, NodeAt DEF IsCopied
  <2>3. SizeOf(N) \in Nat /\ Turned(N) \in BOOLEAN /\ EntryOf(N).size \in Nat
    BY <2>2, NodeIs DEF Types, Entry
  <2>4. w \in Written /\ w.of = N
    <3>1. <<0, 0, 0, 0>> \in Four /\ out.offset \in Nat
      BY FourType DEF Byte, Types, OutType, Header
    <3> QED  BY <2>2, <2>3, <3>1 DEF Written
  <2>5. p \in Piece /\ p.of = N /\ p.turned = Turned(N)
    <3>1. p \in Piece
      BY <2>2, <2>3, Zenon DEF Piece
    <3> QED  BY <3>1
  <2> HIDE DEF w, p
  <2>6. \A i \in DOMAIN out'.dir : (i \in DOMAIN out.dir /\ out'.dir[i] = out.dir[i]) \/ out'.dir[i] = w
    BY <1>1, <2>1, <2>4, AppendProperties
  <2>7. \A k \in DOMAIN out'.data : (k \in DOMAIN out.data /\ out'.data[k] = out.data[k]) \/ out'.data[k] = p
    BY <1>1, <2>1, <2>5, AppendProperties
  <2>8. ~(EntryOf(N).size <= 4)
    BY <2>1, <2>3
  <2> QED  BY <1>3, <2>1, <2>2, <2>4, <2>5, <2>6, <2>7, <2>8
<1> QED  BY <1>2, <1>5, <1>6, <1>7, <1>8 DEF Next, FileAction, Stopped

LEMMA SamePrefix ==
  ASSUME NEW s \in Seq(Nat), NEW t \in Seq(Nat), NEW n \in Nat, n <= Len(s), n <= Len(t),
         \A i \in 1..n : s[i] = t[i]
  PROVE  SubSeq(s, 1, n) = SubSeq(t, 1, n)
<1> DEFINE a == SubSeq(s, 1, n)
           b == SubSeq(t, 1, n)
<1>1. a \in Seq(Nat) /\ Len(a) = n /\ \A i \in 1..n : a[i] = s[i]
  <2>1. 1 \in 1..Len(s) + 1 /\ n \in 1 - 1..Len(s)
    OBVIOUS
  <2> QED  BY <2>1, SubSeqProperties
<1>2. b \in Seq(Nat) /\ Len(b) = n /\ \A i \in 1..n : b[i] = t[i]
  <2>1. 1 \in 1..Len(t) + 1 /\ n \in 1 - 1..Len(t)
    OBVIOUS
  <2> QED  BY <2>1, SubSeqProperties
<1> HIDE DEF a, b
<1>3. a = b
  BY <1>1, <1>2, SeqEqual
<1> QED  BY <1>3 DEF a, b

\* A value in the entry itself reads as it does in the NEF, or is an exception.
LEMMA SmallValue ==
  ASSUME Types, OneOrder, g.order = file.order["IFD0"], NEW node, IsNode(node), node.n # 0,
         EntryOf(node).size <= 4, ~(rotates /\ EntryOf(node).tag = "Orientation"),
         ~NotConverted(node)
  PROVE  SubSeq(FourOf(node), 1, EntryOf(node).size) =
           SubSeq(InOrderII(node), 1, EntryOf(node).size)
<1> DEFINE e == EntryOf(node)
           b == e.four
           n == e.size
           mm == file.order[node.dir]
<1>1. node.dir \in Dirs /\ node.n \in DOMAIN file.dirs[node.dir] /\ FileType
  BY DEF IsNode, Blank, Types
<1>2. /\ e \in Entry /\ b \in Four /\ n \in Nat /\ n <= 4
      /\ e.units \in {"byte", "short", "long"}
  <2>1. e \in Entry
    BY <1>1, FileIs DEF EntryOf
  <2> QED  BY <2>1 DEF Entry, Units
<1>3. mm \in BOOLEAN
  BY <1>1, FileIs, Zenon
<1>4. g.order = mm
  BY <1>1 DEF OneOrder
<1>5. /\ e.tag \in {"Short", "Orientation"} => e.units = "short" /\ n <= 2
      /\ e.tag = "LensType" => e.units = "byte" /\ n <= 1
  <2>1. file \in Files
    BY DEF Types, FileType
  <2> QED  BY <1>1, <2>1, FieldsAssumption DEF EntryOf
<1>6. b[1] \in Nat /\ b[2] \in Nat /\ b[3] \in Nat /\ b[4] \in Nat
  BY <1>2 DEF Four, Byte
<1>7. /\ Number(node) = IF mm THEN Swapped(b) ELSE b
      /\ e.tag = "Orientation" => ~rotates
      /\ ~mm => e.tag # "LensType"
      /\ mm /\ e.units = "byte" => e.tag = "LensType"
      /\ mm /\ e.units = "short" => e.tag \in {"Short", "Orientation"}
  BY <1>2, Zenon DEF Number, NotConverted
<1> DEFINE t == e.tag
           m == Number(node)
<1>8. FourOf(node) = CASE t \in {"Short", "Orientation"} /\ mm -> <<m[3], m[4], 0, 0>>
                       [] t = "LensType" -> <<m[4], 0, 0, 0>>
                       [] OTHER -> m
  <2>1. FourOf(node) = CASE t = "Orientation" /\ rotates -> <<1, 0, 0, 0>>
                         [] t \in {"Short", "Orientation"} /\ mm -> <<m[3], m[4], 0, 0>>
                         [] t = "LensType" -> <<m[4], 0, 0, 0>>
                         [] OTHER -> m
    BY <1>4, Zenon DEF FourOf, Orientation
  <2>2. ~(t = "Orientation" /\ rotates)
    BY <1>7
  <2> HIDE DEF t, m, mm
  <2> QED  BY <2>1, <2>2
<1>9. CASE ~mm
  <2>1. FourOf(node) = b
    <3>1. m = b /\ t # "LensType"
      BY <1>7, <1>9
    <3> HIDE DEF t, m, mm, b
    <3> QED  BY <1>8, <1>9, <3>1
  <2>2. InOrderII(node) = b
    BY <1>9, Zenon DEF InOrderII
  <2> QED  BY <2>1, <2>2
<1>10. CASE mm
  <2>1. m[4] = b[1] /\ m[3] = b[2] /\ m = <<b[4], b[3], b[2], b[1]>>
    <3>1. m = Swapped(b)
      BY <1>7, <1>10
    <3> HIDE DEF m, b
    <3> QED  BY <3>1 DEF Swapped
  <2>2. CASE t \in {"Short", "Orientation"}
    <3>1. FourOf(node) = <<b[2], b[1], 0, 0>>
      <4> HIDE DEF t, m, mm, b
      <4> QED  BY <1>8, <1>10, <2>1, <2>2
    <3>2. InOrderII(node) = <<b[2], b[1], b[4], b[3]>>
      <4>1. e.units = "short"
        BY <1>5, <2>2
      <4> HIDE DEF e
      <4> QED  BY <1>10, <4>1 DEF InOrderII, e
    <3>3. n <= 2
      BY <1>5, <2>2
    <3> HIDE DEF b, n
    <3>4. \A i \in 1..n : i = 1 \/ i = 2
      BY <1>2, <3>3
    <3>5. /\ <<b[2], b[1], 0, 0>> \in Seq(Nat) /\ <<b[2], b[1], b[4], b[3]>> \in Seq(Nat)
          /\ Len(<<b[2], b[1], 0, 0>>) = 4 /\ Len(<<b[2], b[1], b[4], b[3]>>) = 4
          /\ \A i \in 1..n : <<b[2], b[1], 0, 0>>[i] = <<b[2], b[1], b[4], b[3]>>[i]
      BY <1>6, <3>4
    <3> QED  BY <1>2, <3>1, <3>2, <3>5, SamePrefix DEF n
  <2>3. CASE t = "LensType"
    <3>1. FourOf(node) = <<b[1], 0, 0, 0>>
      <4> HIDE DEF t, m, mm, b
      <4> QED  BY <1>8, <2>1, <2>3
    <3>2. InOrderII(node) = b
      <4>1. e.units = "byte"
        BY <1>5, <2>3
      <4> QED  BY <4>1 DEF InOrderII
    <3>3. n <= 1
      BY <1>5, <2>3
    <3>4. b \in Seq(Nat) /\ Len(b) = 4
      <4>1. b \in [1..4 -> Nat]
        BY <1>2 DEF Four, Byte
      <4> HIDE DEF b
      <4>2. b = [i \in 1..4 |-> b[i]] /\ 4 \in Nat
        BY <4>1
      <4>3. b \in Seq(Nat) /\ DOMAIN b = 1..Len(b)
        BY <4>1, <4>2, IsASeq
      <4> QED  BY <4>1, <4>3
    <3> HIDE DEF b, n
    <3>5. \A i \in 1..n : i = 1
      BY <1>2, <3>3
    <3>6. /\ <<b[1], 0, 0, 0>> \in Seq(Nat) /\ Len(<<b[1], 0, 0, 0>>) = 4
          /\ \A i \in 1..n : <<b[1], 0, 0, 0>>[i] = b[i]
      BY <1>6, <3>5
    <3> QED  BY <1>2, <3>1, <3>2, <3>4, <3>6, SamePrefix DEF n
  <2>4. CASE t \notin {"Short", "Orientation", "LensType"}
    <3>1. e.units = "long"
      BY <1>2, <1>7, <1>10, <2>4
    <3>2. FourOf(node) = m
      <4> HIDE DEF t, m, mm
      <4> QED  BY <1>8, <2>4
    <3>3. InOrderII(node) = Swapped(b)
      <4> HIDE DEF e
      <4> QED  BY <1>10, <3>1 DEF InOrderII, e
    <3> QED  BY <1>7, <1>10, <3>2, <3>3
  <2> QED  BY <2>2, <2>3, <2>4
<1> QED  BY <1>3, <1>9, <1>10

\* Data that is in a place of its own reads as it does in the NEF, or is an exception.
LEMMA LargeValue ==
  ASSUME Types, OneOrder, g.order = file.order["IFD0"], NEW node, IsNode(node), node.n # 0,
         EntryOf(node).size > 4, ~NotConverted(node), Turned(node)
  PROVE  EntryOf(node).units = "byte"
<1> DEFINE e == EntryOf(node)
<1>1. node.dir \in Dirs /\ node.n \in DOMAIN file.dirs[node.dir] /\ FileType
  BY DEF IsNode, Blank, Types
<1>2. e \in Entry /\ e.size \in Nat /\ e.units \in {"byte", "short", "long"}
  <2>1. e \in Entry
    BY <1>1, FileIs DEF EntryOf
  <2> QED  BY <2>1 DEF Entry, Units
<1>3. g.order = file.order[node.dir]
  BY <1>1 DEF OneOrder
<1>4. e.tag \notin {"Number", "Lens"} /\ file.order[node.dir]
  BY <1>3, Zenon DEF Turned
<1>5. e.tag \notin {"Short", "Orientation"}
  <2>1. file \in Files
    BY DEF Types, FileType
  <2>2. e.tag \in {"Short", "Orientation"} => e.size <= 2
    BY <1>1, <2>1, FieldsAssumption DEF EntryOf
  <2> QED  BY <1>2, <2>2
<1>6. ~(e.units = "short") /\ ~(e.units = "long")
  BY <1>4, <1>5, Zenon DEF NotConverted
<1> QED  BY <1>2, <1>6

LEMMA ValuesAre == Types /\ ValueInv => ValuesRight
<1> SUFFICES ASSUME Types, ValueInv, OneOrder, NEW i \in DOMAIN out.dir,
                    ~NotConverted(out.dir[i].of),
                    ~(rotates /\ EntryOf(out.dir[i].of).tag = "Orientation")
             PROVE  ReadsRight(out.dir[i])
  BY Zenon DEF ValuesRight
<1> DEFINE w == out.dir[i]
<1>1. g.order = file.order["IFD0"]
  BY DEF ValueInv, OneOrder
<1>2. IsNode(w.of) /\ w.of.n # 0
  BY DEF ValueInv
<1>3. EntryOf(w.of).size \in Nat
  BY <1>2, NodeIs DEF Types, Entry
<1>4. CASE EntryOf(w.of).size > 4
  <2>1. ASSUME NEW k \in DOMAIN out.data, out.data[k].of = w.of, out.data[k].turned
        PROVE  EntryOf(w.of).units = "byte"
    <3>1. Turned(w.of)
      <4>1. out.data[k].turned = Turned(out.data[k].of)
        BY DEF ValueInv
      <4> QED  BY <2>1, <4>1, Zenon
    <3> QED  BY <1>1, <1>2, <1>4, <3>1, LargeValue
  <2> QED  BY <1>4, <2>1, Zenon DEF ReadsRight
<1>5. CASE ~(EntryOf(w.of).size > 4)
  <2>1. EntryOf(w.of).size <= 4
    BY <1>3, <1>5
  <2>2. w.four = FourOf(w.of) /\ w.size = EntryOf(w.of).size
    BY <2>1 DEF ValueInv
  <2>3. SubSeq(FourOf(w.of), 1, EntryOf(w.of).size) = SubSeq(InOrderII(w.of), 1, EntryOf(w.of).size)
    BY <1>1, <1>2, <2>1, SmallValue
  <2> QED  BY <1>5, <2>2, <2>3, Zenon DEF ReadsRight
<1> QED  BY <1>4, <1>5
-----------------------------------------------------------------------------
(* The image. *)

\* How deep the calls are in a directory, and the tag that leads to it.
Level(d) == CASE d = "IFD0" -> 1
              [] d \in {"SUB_IFD0", "SUB_IFD1", "EXIF"} -> 2
              [] d = "MAKER_NOTES" -> 3
              [] d = "THUMBNAIL" -> 4
Via(d) == CASE d \in {"SUB_IFD0", "SUB_IFD1"} -> "SubIfds"
            [] d = "EXIF" -> "Exif"
            [] d = "MAKER_NOTES" -> "MakerNote"
            [] d = "THUMBNAIL" -> "ThumbIfd"
            [] OTHER -> "none"

TagAt(k, i) == file.dirs[stack[k].dir][i].tag
Behind(k, i) == i < stack[k].n \/ (i = stack[k].n /\ stack[k].read)

\* A call waits in the entry that leads to the next.
PathInv ==
  \A k \in DOMAIN stack :
    /\ Level(stack[k].dir) = k
    /\ stack[k].dir = "THUMBNAIL" => file.old
    /\ \A j \in DOMAIN stack : k = j + 1 =>
         /\ stack[j].read /\ stack[j].sub >= 1
         /\ TagAt(j, stack[j].n) = Via(stack[k].dir)

\* Of a NEF with its image in the SubIFDs: the offset is that of SUB_IFD0 as soon as
\* it is read, and there is no length without it but within SUB_IFD0.
SubOffset == NumberIn("SUB_IFD0", "ThumbOffset")
SubsInv ==
  /\ g.thumbOffset \in {0, SubOffset}
  /\ \A k \in DOMAIN stack : \A i \in DOMAIN file.dirs[stack[k].dir] :
       stack[k].dir = "SUB_IFD0" /\ TagAt(k, i) = "ThumbOffset" /\ Behind(k, i) =>
         g.thumbOffset = SubOffset
  /\ g.thumbLength # 0 =>
       g.thumbOffset = SubOffset \/ \E k \in DOMAIN stack : stack[k].dir = "SUB_IFD0"

\* Of a D100 or a D2H: when the walk has come back from a directory on the way to the
\* thumbnail's, the offset is that of the thumbnail, and no SubIFD follows.
OldOffset == NumberIn("THUMBNAIL", "ThumbOffset")
OldSet == g.thumbOffset = OldOffset /\ g.calc = file.calc
MakerInv ==
  /\ \A k \in DOMAIN stack :
       /\ stack[k].dir \in {"MAKER_NOTES", "THUMBNAIL"} => g.calc = file.calc
       /\ stack[k].read /\ TagAt(k, stack[k].n) = "MakerNote" => g.calc = file.calc
       /\ \A i \in DOMAIN file.dirs[stack[k].dir] :
            /\ stack[k].dir = "THUMBNAIL" /\ TagAt(k, i) = "ThumbOffset" /\ Behind(k, i) =>
                 g.thumbOffset = OldOffset
            /\ TagAt(k, i) \in {"Exif", "MakerNote", "ThumbIfd"} =>
                 \/ i > stack[k].n \/ OldSet
                 \/ i = stack[k].n /\ (stack[k].sub = 0 \/ k # Len(stack))
  /\ stack = <<>> => OldSet

PlaceInv == PathInv /\ IF file.old THEN MakerInv ELSE SubsInv

\* Nothing is written before the image is, and there is none of no length.
DiskInv ==
  /\ pc \in {"walk", "copy", "image"} => disk = [jpg |-> NoFile, tmp |-> NoFile]
  /\ pc = "written" => disk = [[jpg |-> NoFile, tmp |-> NoFile] EXCEPT ![Name] = Image]
  /\ pc = "done" => /\ disk.tmp = NoFile /\ disk.jpg.header = Image.header
                    /\ disk.jpg.from = Image.from
  /\ pc \in {"written", "done"} => g.thumbLength > 0
  /\ (pc = "copy" \/ HeaderMade) /\ g.order => out.length = 12 * out.count + 1046

\* What each step of the walk does to the calls.
LEMMA ReadFrames ==
  ASSUME Types, ReadEntry
  PROVE  /\ stack \in Seq(Frame) /\ stack' \in Seq(Frame) /\ Len(stack) \in Nat \ {0}
         /\ Len(stack') = Len(stack) /\ DOMAIN stack = 1..Len(stack) /\ DOMAIN stack' = 1..Len(stack)
         /\ stack' # <<>>
         /\ \A k \in 1..Len(stack) :
              /\ stack'[k].dir = stack[k].dir /\ stack'[k].n = stack[k].n
              /\ stack'[k].sub = stack[k].sub
              /\ k # Len(stack) => stack'[k].read = stack[k].read
         /\ stack'[Len(stack)].read /\ ~stack[Len(stack)].read
<1> DEFINE t == [Top EXCEPT !.read = TRUE]
<1>1. AtEntry /\ ~Top.read /\ stack' = [stack EXCEPT ![Len(stack)] = t] /\ FileType /\ StackType
  BY DEF ReadEntry, Replaced, Types
<1>2. Top \in Frame /\ Len(stack) \in Nat \ {0} /\ Top = stack[Len(stack)] /\ stack \in Seq(Frame)
  BY <1>1, AtEntryIs DEF Top, StackType
<1>3. t \in Frame /\ t.dir = Top.dir /\ t.n = Top.n /\ t.read = TRUE /\ t.sub = Top.sub
  BY <1>2 DEF Frame
<1> HIDE DEF t
<1>4. /\ stack' \in Seq(Frame) /\ Len(stack') = Len(stack) /\ DOMAIN stack' = 1..Len(stack)
      /\ DOMAIN stack = 1..Len(stack) /\ stack' # <<>>
      /\ stack'[Len(stack)] = t
      /\ \A k \in 1..Len(stack) : k # Len(stack) => stack'[k] = stack[k]
  BY <1>1, <1>2, <1>3, ExceptSeq
<1>5. \A k \in 1..Len(stack) :
        /\ stack'[k].dir = stack[k].dir /\ stack'[k].n = stack[k].n
        /\ stack'[k].sub = stack[k].sub
        /\ k # Len(stack) => stack'[k].read = stack[k].read
  BY <1>2, <1>3, <1>4
<1>6. stack'[Len(stack)].read /\ ~stack[Len(stack)].read
  BY <1>1, <1>2, <1>3, <1>4
<1> QED  BY <1>2, <1>4, <1>5, <1>6

LEMMA CallFrames ==
  ASSUME Types, Call
  PROVE  /\ stack \in Seq(Frame) /\ stack' \in Seq(Frame) /\ Len(stack) \in Nat \ {0}
         /\ Len(stack') = Len(stack) + 1 /\ DOMAIN stack = 1..Len(stack)
         /\ DOMAIN stack' = 1..Len(stack) + 1 /\ stack' # <<>>
         /\ \A k \in 1..Len(stack) :
              /\ stack'[k].dir = stack[k].dir /\ stack'[k].n = stack[k].n
              /\ stack'[k].read = stack[k].read
              /\ k # Len(stack) => stack'[k].sub = stack[k].sub
         /\ stack'[Len(stack)].read /\ stack'[Len(stack)].sub >= 1
         /\ stack'[Len(stack) + 1].n = 1 /\ ~stack'[Len(stack) + 1].read
         /\ stack'[Len(stack) + 1].sub = 0
         /\ LET d == stack'[Len(stack) + 1].dir
                p == stack[Len(stack)].dir
            IN  \/ d \in {"SUB_IFD0", "SUB_IFD1"} /\ p = "IFD0" /\ E.tag = "SubIfds"
                \/ d = "EXIF" /\ p = "IFD0" /\ E.tag = "Exif"
                \/ d = "MAKER_NOTES" /\ p = "EXIF" /\ E.tag = "MakerNote"
                \/ d = "THUMBNAIL" /\ p = "MAKER_NOTES" /\ E.tag = "ThumbIfd" /\ file.old
<1> DEFINE d == Leads[Top.sub + 1]
           t == [Top EXCEPT !.sub = @ + 1]
           f == NewFrame(d)
           s == Replaced(t)
<1>1. /\ AtEntry /\ Top.read /\ Top.sub < Len(Leads) /\ stack' = Append(s, f)
      /\ FileType /\ StackType /\ file \in Files
  BY Zenon DEF Call, Types, FileType
<1>2. /\ Top \in Frame /\ Len(stack) \in Nat \ {0} /\ Top = stack[Len(stack)] /\ stack \in Seq(Frame)
      /\ Top.sub \in Nat /\ Top.dir \in Dirs /\ Top.n \in DOMAIN file.dirs[Top.dir]
  BY <1>1, AtEntryIs DEF Top, StackType, Frame
<1>3. t \in Frame /\ t.dir = Top.dir /\ t.n = Top.n /\ t.read = Top.read /\ t.sub = Top.sub + 1
  <2>1. ASSUME NEW f1 \in Frame, NEW m \in Nat
        PROVE  /\ [f1 EXCEPT !.sub = m] \in Frame /\ [f1 EXCEPT !.sub = m].n = f1.n
               /\ [f1 EXCEPT !.sub = m].dir = f1.dir /\ [f1 EXCEPT !.sub = m].read = f1.read
               /\ [f1 EXCEPT !.sub = m].sub = m
    BY DEF Frame
  <2> DEFINE q == Top.sub + 1
             p == Top
  <2>2. q \in Nat /\ p \in Frame
    BY <1>2
  <2>3. t = [p EXCEPT !.sub = q]
    OBVIOUS
  <2> HIDE DEF q, p, t
  <2>4. t \in Frame /\ t.dir = p.dir /\ t.n = p.n /\ t.read = p.read /\ t.sub = q
    BY <2>1, <2>2, <2>3, Zenon
  <2> QED  BY <2>4, Zenon DEF p, q
<1>4. /\ file.subs \in Seq({"SUB_IFD0", "SUB_IFD1"})
      /\ E.tag \in {"SubIfds", "Exif"} => Top.dir = "IFD0"
      /\ E.tag = "MakerNote" => Top.dir = "EXIF"
      /\ E.tag = "ThumbIfd" => Top.dir = "MAKER_NOTES"
  BY <1>1, <1>2, PlacesAssumption DEF E
<1>5. ASSUME NEW l, NEW S, l \in Seq(S), Top.sub < Len(l) PROVE l[Top.sub + 1] \in S
  <2>1. Top.sub + 1 \in 1..Len(l)
    BY <1>2, <1>5
  <2> QED  BY <1>5, <2>1, ElementOfSeq
<1>6. \/ Leads = file.subs /\ E.tag = "SubIfds"
      \/ Leads = <<>>
      \/ Leads = <<"EXIF">> /\ E.tag = "Exif"
      \/ Leads = <<"MAKER_NOTES">> /\ E.tag = "MakerNote"
      \/ Leads = <<"THUMBNAIL">> /\ E.tag = "ThumbIfd" /\ file.old
  BY Zenon DEF Leads
<1>7. Leads # <<>>
  BY <1>1, <1>2
<1>8. \/ d \in {"SUB_IFD0", "SUB_IFD1"} /\ Top.dir = "IFD0" /\ E.tag = "SubIfds"
      \/ d = "EXIF" /\ Top.dir = "IFD0" /\ E.tag = "Exif"
      \/ d = "MAKER_NOTES" /\ Top.dir = "EXIF" /\ E.tag = "MakerNote"
      \/ d = "THUMBNAIL" /\ Top.dir = "MAKER_NOTES" /\ E.tag = "ThumbIfd" /\ file.old
  <2>1. CASE Leads = file.subs /\ E.tag = "SubIfds"
    BY <1>1, <1>4, <1>5, <2>1
  <2>2. CASE Leads = <<"EXIF">> /\ E.tag = "Exif"
    <3>1. <<"EXIF">> \in Seq({"EXIF"})
      OBVIOUS
    <3> QED  BY <1>1, <1>4, <1>5, <2>2, <3>1
  <2>3. CASE Leads = <<"MAKER_NOTES">> /\ E.tag = "MakerNote"
    <3>1. <<"MAKER_NOTES">> \in Seq({"MAKER_NOTES"})
      OBVIOUS
    <3> QED  BY <1>1, <1>4, <1>5, <2>3, <3>1
  <2>4. CASE Leads = <<"THUMBNAIL">> /\ E.tag = "ThumbIfd" /\ file.old
    <3>1. <<"THUMBNAIL">> \in Seq({"THUMBNAIL"})
      OBVIOUS
    <3> QED  BY <1>1, <1>4, <1>5, <2>4, <3>1
  <2> QED  BY <1>6, <1>7, <2>1, <2>2, <2>3, <2>4
<1>9. d \in Dirs
  BY <1>8 DEF Dirs
<1> HIDE DEF d
<1>10. f \in Frame /\ f.dir = d /\ f.n = 1 /\ f.read = FALSE /\ f.sub = 0
  BY <1>9 DEF NewFrame, Frame
<1> HIDE DEF t, f
<1>11. /\ s \in Seq(Frame) /\ Len(s) = Len(stack) /\ s[Len(stack)] = t
       /\ DOMAIN stack = 1..Len(stack)
       /\ \A k \in 1..Len(stack) : k # Len(stack) => s[k] = stack[k]
  BY <1>2, <1>3, ExceptSeq DEF Replaced
<1> HIDE DEF s
<1>12. /\ stack' \in Seq(Frame) /\ Len(stack') = Len(stack) + 1 /\ stack'[Len(stack) + 1] = f
       /\ stack' # <<>> /\ DOMAIN stack' = 1..Len(stack) + 1
       /\ \A k \in 1..Len(stack) : stack'[k] = s[k]
  BY <1>1, <1>2, <1>10, <1>11, AppendProperties
<1>13. \A k \in 1..Len(stack) :
         /\ stack'[k].dir = stack[k].dir /\ stack'[k].n = stack[k].n
         /\ stack'[k].read = stack[k].read
         /\ k # Len(stack) => stack'[k].sub = stack[k].sub
  BY <1>2, <1>3, <1>11, <1>12
<1>14. stack'[Len(stack)].read /\ stack'[Len(stack)].sub >= 1
  <2>1. stack'[Len(stack)] = t
    BY <1>2, <1>11, <1>12
  <2>2. stack'[Len(stack)].read
    BY <1>1, <1>3, <2>1, Zenon
  <2>3. Top.sub + 1 >= 1
    BY <1>2
  <2> QED  BY <1>3, <2>1, <2>2, <2>3
<1> QED  BY <1>2, <1>8, <1>10, <1>11, <1>12, <1>13, <1>14

LEMMA NextFrames ==
  ASSUME Types, NextEntry
  PROVE  /\ stack \in Seq(Frame) /\ stack' \in Seq(Frame) /\ Len(stack) \in Nat \ {0}
         /\ Len(stack') = Len(stack) /\ DOMAIN stack = 1..Len(stack) /\ DOMAIN stack' = 1..Len(stack)
         /\ stack' # <<>>
         /\ \A k \in 1..Len(stack) : k # Len(stack) => stack'[k] = stack[k]
         /\ stack'[Len(stack)].dir = stack[Len(stack)].dir
         /\ stack'[Len(stack)].n = stack[Len(stack)].n + 1
         /\ ~stack'[Len(stack)].read /\ stack'[Len(stack)].sub = 0
         /\ stack[Len(stack)].read /\ stack[Len(stack)].sub = Len(Leads)
<1> DEFINE t == [NewFrame(Top.dir) EXCEPT !.n = Top.n + 1]
<1>1. /\ AtEntry /\ Top.read /\ Top.sub = Len(Leads) /\ stack' = [stack EXCEPT ![Len(stack)] = t]
      /\ FileType /\ StackType
  BY DEF NextEntry, Replaced, Types
<1>2. /\ Top \in Frame /\ Len(stack) \in Nat \ {0} /\ Top = stack[Len(stack)] /\ stack \in Seq(Frame)
      /\ Top.dir \in Dirs /\ Top.n \in Nat
  BY <1>1, AtEntryIs DEF Top, StackType, Frame
<1>3. t \in Frame /\ t.dir = Top.dir /\ t.n = Top.n + 1 /\ t.read = FALSE /\ t.sub = 0
  <2> DEFINE f == NewFrame(Top.dir)
  <2>1. f \in Frame /\ f.dir = Top.dir /\ f.read = FALSE /\ f.sub = 0
    BY <1>2 DEF NewFrame, Frame
  <2> HIDE DEF f
  <2>2. ASSUME f \in Frame, NEW m \in Nat
        PROVE  /\ [f EXCEPT !.n = m] \in Frame /\ [f EXCEPT !.n = m].n = m
               /\ [f EXCEPT !.n = m].dir = f.dir /\ [f EXCEPT !.n = m].read = f.read
               /\ [f EXCEPT !.n = m].sub = f.sub
    BY <2>2 DEF Frame
  <2>3. Top.n + 1 \in Nat
    BY <1>2
  <2> QED  BY <2>1, <2>2, <2>3, Zenon DEF f
<1> HIDE DEF t
<1>4. /\ stack' \in Seq(Frame) /\ Len(stack') = Len(stack) /\ DOMAIN stack' = 1..Len(stack)
      /\ DOMAIN stack = 1..Len(stack) /\ stack' # <<>>
      /\ stack'[Len(stack)] = t
      /\ \A k \in 1..Len(stack) : k # Len(stack) => stack'[k] = stack[k]
  BY <1>1, <1>2, <1>3, ExceptSeq
<1> QED  BY <1>1, <1>2, <1>3, <1>4

LEMMA ReturnFrames ==
  ASSUME Types, Return
  PROVE  /\ stack \in Seq(Frame) /\ stack' \in Seq(Frame) /\ Len(stack) \in Nat \ {0}
         /\ Len(stack') = Len(stack) - 1 /\ DOMAIN stack = 1..Len(stack)
         /\ DOMAIN stack' = 1..Len(stack) - 1
         /\ \A k \in 1..Len(stack) - 1 : stack'[k] = stack[k] /\ k \in 1..Len(stack)
         /\ \A i \in DOMAIN file.dirs[stack[Len(stack)].dir] :
              i < stack[Len(stack)].n /\ Behind(Len(stack), i)
<1>1. /\ stack # <<>> /\ stack \in Seq(Frame) /\ stack' = SubSeq(stack, 1, Len(stack) - 1)
      /\ Top.n > Len(file.dirs[Top.dir]) /\ Top = stack[Len(stack)] /\ FileType
  BY DEF Return, Types, StackType, Top
<1>2. Len(stack) \in Nat \ {0} /\ DOMAIN stack = 1..Len(stack) /\ Top \in Frame
  BY <1>1
<1>3. /\ stack' \in Seq(Frame) /\ Len(stack') = Len(stack) - 1
      /\ \A k \in 1..Len(stack) - 1 : stack'[k] = stack[k]
  BY <1>1, <1>2, SubSeqProperties
<1>4. DOMAIN stack' = 1..Len(stack) - 1 /\ \A k \in 1..Len(stack) - 1 : k \in 1..Len(stack)
  BY <1>2, <1>3
<1>5. Top.dir \in Dirs /\ Top.n \in Nat
  BY <1>2 DEF Frame
<1>6. \A i \in DOMAIN file.dirs[Top.dir] : i < Top.n
  <2>1. DOMAIN file.dirs[Top.dir] = 1..Len(file.dirs[Top.dir]) /\ Len(file.dirs[Top.dir]) \in Nat
    BY <1>1, <1>5, FileIs
  <2> QED  BY <1>1, <1>5, <2>1
<1> QED  BY <1>1, <1>2, <1>3, <1>4, <1>6, Zenon DEF Behind

LEMMA Levels ==
  /\ Level("IFD0") = 1 /\ Level("SUB_IFD0") = 2 /\ Level("SUB_IFD1") = 2 /\ Level("EXIF") = 2
  /\ Level("MAKER_NOTES") = 3 /\ Level("THUMBNAIL") = 4
  BY DEF Level

LEMMA Vias ==
  /\ Via("SUB_IFD0") = "SubIfds" /\ Via("SUB_IFD1") = "SubIfds" /\ Via("EXIF") = "Exif"
  /\ Via("MAKER_NOTES") = "MakerNote" /\ Via("THUMBNAIL") = "ThumbIfd"
  BY DEF Via

LEMMA PathInit == Init => PathInv
<1> SUFFICES ASSUME Init PROVE PathInv
  OBVIOUS
<1>1. stack = <<NewFrame("IFD0")>> /\ DOMAIN stack = {1} /\ stack[1].dir = "IFD0"
  BY DEF Init, NewFrame
<1> QED  BY <1>1, Levels DEF PathInv

LEMMA PathWalk ==
  ASSUME Types, PathInv, ReadEntry \/ Call \/ NextEntry \/ Return
  PROVE  PathInv'
<1> USE DEF TagAt
<1>1. file' = file
  BY DEF ReadEntry, Call, NextEntry, Return
<1>6. /\ \A n \in Nat : \A i, j \in 1..n : j = i + 1 => i # n
      /\ \A n \in Nat \ {0} : n \in 1..n /\ n + 1 \in 1..n + 1
      /\ \A n \in Nat \ {0} : \A i \in 1..n + 1 : i \in 1..n \/ i = n + 1
  OBVIOUS
<1>2. CASE ReadEntry
  <2>1. SUFFICES ASSUME NEW k \in 1..Len(stack)
                 PROVE  /\ Level(stack'[k].dir) = k
                        /\ stack'[k].dir = "THUMBNAIL" => file.old
                        /\ \A j \in 1..Len(stack) : k = j + 1 =>
                             /\ stack'[j].read /\ stack'[j].sub >= 1
                             /\ TagAt(j, stack[j].n)' = Via(stack'[k].dir)
    BY <1>1, <1>2, ReadFrames DEF PathInv
  <2>2. Level(stack'[k].dir) = k /\ (stack'[k].dir = "THUMBNAIL" => file.old)
    BY <1>2, ReadFrames DEF PathInv
  <2>3. ASSUME NEW j \in 1..Len(stack), k = j + 1
        PROVE  /\ stack'[j].read /\ stack'[j].sub >= 1
               /\ TagAt(j, stack[j].n)' = Via(stack'[k].dir)
    <3>1. j # Len(stack) /\ j \in DOMAIN stack /\ k \in DOMAIN stack
      <4>1. DOMAIN stack = 1..Len(stack) /\ Len(stack) \in Nat
        BY <1>2, ReadFrames
      <4> QED  BY <1>6, <2>3, <4>1, Zenon
    <3>2. stack[j].read /\ stack[j].sub >= 1 /\ TagAt(j, stack[j].n) = Via(stack[k].dir)
      BY <2>3, <3>1 DEF PathInv
    <3> QED  BY <1>1, <1>2, <3>1, <3>2, ReadFrames
  <2> QED  BY <2>2, <2>3
<1>3. CASE Call
  <2> DEFINE m == Len(stack)
  <2>0. m \in Nat \ {0} /\ m \in 1..m /\ m + 1 \in 1..m + 1
    <3>1. Len(stack) \in Nat \ {0}
      BY <1>3, CallFrames
    <3> QED  BY <1>6, <3>1, Zenon
  <2>1. SUFFICES ASSUME NEW k \in 1..m + 1
                 PROVE  /\ Level(stack'[k].dir) = k
                        /\ stack'[k].dir = "THUMBNAIL" => file.old
                        /\ \A j \in 1..m + 1 : k = j + 1 =>
                             /\ stack'[j].read /\ stack'[j].sub >= 1
                             /\ TagAt(j, stack[j].n)' = Via(stack'[k].dir)
    BY <1>1, <1>3, CallFrames DEF PathInv
  <2>2. CASE k \in 1..m
    <3>3. stack'[k].dir = stack[k].dir /\ k \in DOMAIN stack
      BY <1>3, <2>2, CallFrames, Zenon
    <3>1. Level(stack'[k].dir) = k /\ (stack'[k].dir = "THUMBNAIL" => file.old)
      BY <3>3, Zenon DEF PathInv
    <3>2. ASSUME NEW j \in 1..m + 1, k = j + 1
          PROVE  /\ stack'[j].read /\ stack'[j].sub >= 1
                 /\ TagAt(j, stack[j].n)' = Via(stack'[k].dir)
      <4>1. j # m /\ j \in 1..m
        BY <2>0, <2>2, <3>2
      <4>2. stack[j].read /\ stack[j].sub >= 1 /\ TagAt(j, stack[j].n) = Via(stack[k].dir)
        BY <1>3, <2>2, <3>2, <4>1, CallFrames DEF PathInv
      <4> QED  BY <1>1, <1>3, <2>2, <4>1, <4>2, CallFrames
    <3> QED  BY <3>1, <3>2
  <2>3. CASE k = m + 1
    <3> DEFINE d == stack'[m + 1].dir
               p == stack[m].dir
    <3>1. \/ d \in {"SUB_IFD0", "SUB_IFD1"} /\ p = "IFD0" /\ E.tag = "SubIfds"
          \/ d = "EXIF" /\ p = "IFD0" /\ E.tag = "Exif"
          \/ d = "MAKER_NOTES" /\ p = "EXIF" /\ E.tag = "MakerNote"
          \/ d = "THUMBNAIL" /\ p = "MAKER_NOTES" /\ E.tag = "ThumbIfd" /\ file.old
      BY <1>3, CallFrames
    <3>2. Level(p) = m
      BY <1>3, <2>0, CallFrames DEF PathInv
    <3> HIDE DEF d, p
    <3>3. Level(d) = m + 1 /\ (d = "THUMBNAIL" => file.old)
      BY <3>1, <3>2, Levels
    <3>4. E.tag = Via(d)
      BY <3>1, Vias
    <3>5. TagAt(m, stack[m].n) = E.tag
      BY DEF E, Top
    <3>6. /\ stack'[m].dir = stack[m].dir /\ stack'[m].n = stack[m].n
          /\ stack'[m].read /\ stack'[m].sub >= 1
      BY <1>3, <2>0, CallFrames
    <3>7. ASSUME NEW j \in 1..m + 1, k = j + 1
          PROVE  /\ stack'[j].read /\ stack'[j].sub >= 1
                 /\ TagAt(j, stack[j].n)' = Via(stack'[k].dir)
      <4>1. j = m
        BY <2>0, <2>3, <3>7
      <4>2. file'.dirs[stack'[m].dir][stack'[m].n].tag = Via(d)
        BY <1>1, <3>4, <3>5, <3>6
      <4> QED  BY <2>3, <3>6, <4>1, <4>2 DEF d
    <3> QED  BY <2>3, <3>3, <3>7 DEF d
  <2>4. k \in 1..m \/ k = m + 1
    BY <1>6, <2>0, Zenon
  <2> QED  BY <2>2, <2>3, <2>4
<1>4. CASE NextEntry
  <2>1. SUFFICES ASSUME NEW k \in 1..Len(stack)
                 PROVE  /\ Level(stack'[k].dir) = k
                        /\ stack'[k].dir = "THUMBNAIL" => file.old
                        /\ \A j \in 1..Len(stack) : k = j + 1 =>
                             /\ stack'[j].read /\ stack'[j].sub >= 1
                             /\ TagAt(j, stack[j].n)' = Via(stack'[k].dir)
    BY <1>1, <1>4, NextFrames DEF PathInv
  <2>2. stack'[k].dir = stack[k].dir
    BY <1>4, NextFrames
  <2>3. Level(stack'[k].dir) = k /\ (stack'[k].dir = "THUMBNAIL" => file.old)
    BY <1>4, <2>2, NextFrames DEF PathInv
  <2>4. ASSUME NEW j \in 1..Len(stack), k = j + 1
        PROVE  /\ stack'[j].read /\ stack'[j].sub >= 1
               /\ TagAt(j, stack[j].n)' = Via(stack'[k].dir)
    <3>1. j # Len(stack) /\ j \in DOMAIN stack /\ k \in DOMAIN stack
      <4>1. DOMAIN stack = 1..Len(stack) /\ Len(stack) \in Nat
        BY <1>4, NextFrames
      <4> QED  BY <1>6, <2>4, <4>1, Zenon
    <3>2. stack[j].read /\ stack[j].sub >= 1 /\ TagAt(j, stack[j].n) = Via(stack[k].dir)
      BY <2>4, <3>1 DEF PathInv
    <3> QED  BY <1>1, <1>4, <2>2, <3>1, <3>2, NextFrames
  <2> QED  BY <2>3, <2>4
<1>5. CASE Return
  <2>1. \A k \in DOMAIN stack' : stack'[k] = stack[k] /\ k \in DOMAIN stack
    BY <1>5, ReturnFrames
  <2> QED  BY <1>1, <2>1 DEF PathInv
<1> QED  BY <1>2, <1>3, <1>4, <1>5

\* The one entry with the offset of an image.
LEMMA NumberIs ==
  ASSUME FileType, NEW d \in Dirs
  PROVE  /\ \A i \in DOMAIN file.dirs[d] : file.dirs[d][i].tag = "ThumbOffset" =>
              file.dirs[d][i].number = NumberIn(d, "ThumbOffset")
         /\ (\A i \in DOMAIN file.dirs[d] : file.dirs[d][i].tag # "ThumbOffset") =>
              NumberIn(d, "ThumbOffset") = 0
<1> DEFINE found == {i \in DOMAIN file.dirs[d] : file.dirs[d][i].tag = "ThumbOffset"}
           first == CHOOSE i \in found : \A j \in found : i <= j
<1>1. NumberIn(d, "ThumbOffset") = IF found = {} THEN 0 ELSE file.dirs[d][first].number
  BY Zenon DEF NumberIn
<1>2. ASSUME NEW i \in found PROVE file.dirs[d][i].number = NumberIn(d, "ThumbOffset")
  <2>1. found = {i}
    <3>1. file \in Files
      BY DEF FileType
    <3>2. \A j \in found : i = j
      BY <3>1, PlacesAssumption
    <3> QED  BY <3>2
  <2>2. i \in Nat
    BY FileIs
  <2>3. \E a \in found : \A j \in found : a <= j
    <3> HIDE DEF found
    <3> QED  BY <2>1, <2>2
  <2>4. first \in found
    <3> HIDE DEF found
    <3> QED  BY <2>3, Zenon
  <2> HIDE DEF first, found
  <2>5. first = i /\ found # {}
    BY <2>1, <2>4
  <2> QED  BY <1>1, <2>5
<1>3. found = {} => NumberIn(d, "ThumbOffset") = 0
  BY <1>1, Zenon
<1> QED  BY <1>2, <1>3

LEMMA SameNumber ==
  ASSUME file' = file, NEW d, NEW tag
  PROVE  NumberIn(d, tag)' = NumberIn(d, tag)
<1> DEFINE In(f) == LET found == {i \in DOMAIN f.dirs[d] : f.dirs[d][i].tag = tag}
                    IN  IF found = {} THEN 0
                        ELSE f.dirs[d][CHOOSE i \in found : \A j \in found : i <= j].number
<1>1. NumberIn(d, tag)' = In(file') /\ NumberIn(d, tag) = In(file)
  BY DEF NumberIn
<1> HIDE DEF In
<1> QED  BY <1>1

\* What reading an entry puts in the globals, and where the entry is.
LEMMA ReadGlobals ==
  ASSUME Types, PathInv, ReadEntry
  PROVE  /\ file' = file /\ E = file.dirs[stack[Len(stack)].dir][stack[Len(stack)].n]
         /\ stack[Len(stack)].n \in DOMAIN file.dirs[stack[Len(stack)].dir]
         /\ IF E.tag = "ThumbOffset"
              THEN g'.thumbOffset = NumberIn(stack[Len(stack)].dir, "ThumbOffset")
              ELSE g'.thumbOffset = g.thumbOffset
         /\ E.tag = "ThumbOffset" => \/ stack[Len(stack)].dir = "SUB_IFD0"
                                     \/ stack[Len(stack)].dir = "THUMBNAIL" /\ file.old
         /\ E.tag # "ThumbLength" => g'.thumbLength = g.thumbLength
         /\ E.tag = "ThumbLength" => \/ stack[Len(stack)].dir = "SUB_IFD0"
                                     \/ stack[Len(stack)].dir = "THUMBNAIL" /\ file.old
         /\ IF E.tag = "MakerNote" THEN g'.calc = file.calc ELSE g'.calc = g.calc
<1>1. AtEntry /\ FileType /\ StackType /\ g \in Globals /\ file' = file /\ file \in Files
  BY DEF ReadEntry, Types, FileType
<1>2. /\ Top = stack[Len(stack)] /\ Top.dir \in Dirs /\ Top.n \in DOMAIN file.dirs[Top.dir]
      /\ Len(stack) \in DOMAIN stack /\ E \in Entry
  BY <1>1, AtEntryIs DEF Top
<1>3. E.tag \in {"ThumbOffset", "ThumbLength"} =>
        Top.dir = "SUB_IFD0" \/ (Top.dir = "THUMBNAIL" /\ file.old)
  <2>1. E.tag \in {"ThumbOffset", "ThumbLength"} => Top.dir \in {"SUB_IFD0", "THUMBNAIL"}
    BY <1>1, <1>2, PlacesAssumption DEF E
  <2> QED  BY <1>2, <2>1 DEF PathInv
<1>4. E.tag = "ThumbOffset" => E.number = NumberIn(Top.dir, "ThumbOffset")
  BY <1>1, <1>2, NumberIs DEF E
<1>5. /\ E.tag = "ThumbOffset" => g' = [g EXCEPT !.thumbOffset = E.number]
      /\ E.tag = "ThumbLength" => g' = [g EXCEPT !.thumbLength = E.number]
      /\ E.tag = "MakerNote" => g' = [g EXCEPT !.calc = file.calc]
      /\ E.tag \notin {"ThumbOffset", "ThumbLength", "MakerNote"} =>
           g' = g \/ g' = [g EXCEPT !.software = file.software]
  <2> DEFINE t == E.tag
  <2>1. g' = CASE t = "Software" /\ E.size > 4 -> [g EXCEPT !.software = file.software]
               [] t = "ThumbOffset" -> [g EXCEPT !.thumbOffset = E.number]
               [] t = "ThumbLength" -> [g EXCEPT !.thumbLength = E.number]
               [] t = "MakerNote" -> [g EXCEPT !.calc = file.calc]
               [] OTHER -> g
    BY Zenon DEF ReadEntry
  <2> HIDE DEF t
  <2>2. /\ t = "ThumbOffset" => g' = [g EXCEPT !.thumbOffset = E.number]
        /\ t = "ThumbLength" => g' = [g EXCEPT !.thumbLength = E.number]
        /\ t = "MakerNote" => g' = [g EXCEPT !.calc = file.calc]
        /\ t \notin {"ThumbOffset", "ThumbLength", "MakerNote"} =>
             g' = g \/ g' = [g EXCEPT !.software = file.software]
    BY <2>1
  <2> QED  BY <2>2 DEF t
<1>6. /\ IF E.tag = "ThumbOffset" THEN g'.thumbOffset = E.number
                                  ELSE g'.thumbOffset = g.thumbOffset
      /\ E.tag # "ThumbLength" => g'.thumbLength = g.thumbLength
      /\ IF E.tag = "MakerNote" THEN g'.calc = file.calc ELSE g'.calc = g.calc
  <2> DEFINE t == E.tag
  <2> HIDE DEF t
  <2>1. /\ t = "ThumbOffset" => g' = [g EXCEPT !.thumbOffset = E.number]
        /\ t = "ThumbLength" => g' = [g EXCEPT !.thumbLength = E.number]
        /\ t = "MakerNote" => g' = [g EXCEPT !.calc = file.calc]
        /\ t \notin {"ThumbOffset", "ThumbLength", "MakerNote"} =>
             g' = g \/ g' = [g EXCEPT !.software = file.software]
    BY <1>5, Zenon DEF t
  <2>2. /\ IF t = "ThumbOffset" THEN g'.thumbOffset = E.number
                                ELSE g'.thumbOffset = g.thumbOffset
        /\ t # "ThumbLength" => g'.thumbLength = g.thumbLength
        /\ IF t = "MakerNote" THEN g'.calc = file.calc ELSE g'.calc = g.calc
    BY <1>1, <2>1 DEF Globals
  <2> QED  BY <2>2, Zenon DEF t
<1>7. E = file.dirs[Top.dir][Top.n]
  BY DEF E
<1>8. IF E.tag = "ThumbOffset" THEN g'.thumbOffset = NumberIn(Top.dir, "ThumbOffset")
                               ELSE g'.thumbOffset = g.thumbOffset
  BY <1>4, <1>6
<1> QED  BY <1>1, <1>2, <1>3, <1>6, <1>7, <1>8, Zenon

LEMMA OtherGlobals ==
  ASSUME Types, Call \/ NextEntry \/ Return
  PROVE  /\ file' = file /\ g'.thumbOffset = g.thumbOffset /\ g'.thumbLength = g.thumbLength
         /\ g'.calc = g.calc
<1>1. g \in Globals
  BY DEF Types
<1>2. g' = g \/ \E o : g' = [g EXCEPT !.order = o]
  BY Zenon DEF Call, NextEntry, Return
<1>3. g'.thumbOffset = g.thumbOffset /\ g'.thumbLength = g.thumbLength /\ g'.calc = g.calc
  BY <1>1, <1>2 DEF Globals
<1> QED  BY <1>3 DEF Call, NextEntry, Return

\* The offset of SUB_IFD0 is read once and stays.
LEMMA SubsWalk ==
  ASSUME Types, PathInv, ~file.old, SubsInv, ReadEntry \/ Call \/ NextEntry \/ Return
  PROVE  SubsInv'
<1> DEFINE Seen(k, i) == /\ stack[k].dir = "SUB_IFD0" /\ TagAt(k, i) = "ThumbOffset"
                         /\ Behind(k, i)
           m == Len(stack)
<1>1. /\ g.thumbOffset \in {0, SubOffset}
      /\ \A k \in DOMAIN stack : \A i \in DOMAIN file.dirs[stack[k].dir] :
           Seen(k, i) => g.thumbOffset = SubOffset
      /\ g.thumbLength # 0 =>
           g.thumbOffset = SubOffset \/ \E k \in DOMAIN stack : stack[k].dir = "SUB_IFD0"
  BY DEF SubsInv
<1>2. ASSUME file' = file,
             g'.thumbOffset \in {0, SubOffset},
             \A k \in DOMAIN stack' : \A i \in DOMAIN file.dirs[stack'[k].dir] :
               Seen(k, i)' => g'.thumbOffset = SubOffset,
             g'.thumbLength # 0 =>
               g'.thumbOffset = SubOffset \/ \E k \in DOMAIN stack' : stack'[k].dir = "SUB_IFD0"
      PROVE  SubsInv'
  <2>1. SubOffset' = SubOffset
    BY <1>2, SameNumber, Zenon DEF SubOffset
  <2> QED  BY <1>2, <2>1 DEF SubsInv
<1>3. \A n \in Nat \ {0} : /\ n \in 1..n
                           /\ \A k \in 1..n : k \in 1..n + 1
                           /\ \A k \in 1..n + 1 : k \in 1..n \/ k = n + 1
                           /\ \A k \in 1..n : k \in 1..n - 1 \/ k = n
  OBVIOUS
<1>4. \A k \in DOMAIN stack : stack[k].dir \in Dirs /\ stack[k].n \in Nat
  <2>1. \A k \in DOMAIN stack : stack[k] \in Frame
    BY DEF Types, StackType
  <2> QED  BY <2>1 DEF Frame
<1>5. CASE ReadEntry
  <2>1. /\ DOMAIN stack = 1..m /\ DOMAIN stack' = 1..m /\ m \in 1..m
        /\ \A k \in 1..m : stack'[k].dir = stack[k].dir /\ stack'[k].n = stack[k].n
        /\ \A k \in 1..m : k # m => stack'[k].read = stack[k].read
    BY <1>3, <1>5, ReadFrames
  <2>2. /\ file' = file /\ E = file.dirs[stack[m].dir][stack[m].n]
        /\ E.tag = "ThumbOffset" => /\ stack[m].dir = "SUB_IFD0"
                                    /\ g'.thumbOffset = SubOffset
        /\ E.tag # "ThumbOffset" => g'.thumbOffset = g.thumbOffset
        /\ E.tag = "ThumbLength" => stack[m].dir = "SUB_IFD0"
        /\ E.tag # "ThumbLength" => g'.thumbLength = g.thumbLength
    BY <1>5, ReadGlobals DEF SubOffset
  <2> HIDE DEF m
  <2>3. CASE E.tag = "ThumbOffset"
    BY <1>2, <2>2, <2>3
  <2>4. CASE E.tag # "ThumbOffset"
    <3>1. ASSUME NEW k \in 1..m, NEW i \in DOMAIN file.dirs[stack'[k].dir], Seen(k, i)'
          PROVE  Seen(k, i)
      <4>1. stack'[k].dir = stack[k].dir /\ stack'[k].n = stack[k].n
        BY <2>1
      <4>2. stack[k].dir = "SUB_IFD0" /\ TagAt(k, i) = "ThumbOffset"
        BY <2>2, <3>1, <4>1 DEF TagAt
      <4>3. Behind(k, i)
        <5>1. i < stack[k].n \/ (i = stack[k].n /\ stack'[k].read)
          BY <3>1, <4>1 DEF Behind
        <5>2. k = m => i # stack[k].n
          BY <2>2, <2>4, <4>2 DEF TagAt
        <5> QED  BY <2>1, <5>1, <5>2 DEF Behind
      <4> QED  BY <4>2, <4>3
    <3>2. \A k \in 1..m : \A i \in DOMAIN file.dirs[stack'[k].dir] :
            Seen(k, i)' => g'.thumbOffset = SubOffset
      BY <1>1, <2>1, <2>2, <2>4, <3>1, Zenon
    <3>3. g'.thumbLength # 0 =>
            g'.thumbOffset = SubOffset \/ \E k \in 1..m : stack'[k].dir = "SUB_IFD0"
      BY <1>1, <2>1, <2>2, <2>4
    <3> QED  BY <1>1, <1>2, <2>1, <2>2, <2>4, <3>2, <3>3
  <2> QED  BY <2>3, <2>4
<1>6. CASE Call
  <2>1. /\ DOMAIN stack = 1..m /\ DOMAIN stack' = 1..m + 1 /\ m \in Nat \ {0}
        /\ \A k \in 1..m : /\ stack'[k].dir = stack[k].dir /\ stack'[k].n = stack[k].n
                           /\ stack'[k].read = stack[k].read
        /\ stack'[m + 1].n = 1 /\ ~stack'[m + 1].read /\ stack' \in Seq(Frame)
    BY <1>6, CallFrames
  <2>2. file' = file /\ g'.thumbOffset = g.thumbOffset /\ g'.thumbLength = g.thumbLength
    BY <1>6, OtherGlobals
  <2> HIDE DEF m
  <2>3. ASSUME NEW k \in 1..m + 1, NEW i \in DOMAIN file.dirs[stack'[k].dir], Seen(k, i)'
        PROVE  k \in 1..m /\ Seen(k, i)
    <3>1. k # m + 1
      <4>1. stack'[k].dir \in Dirs
        <5>1. stack'[k] \in Frame
          BY <2>1
        <5> QED  BY <5>1 DEF Frame
      <4>2. i \in Nat \ {0}
        <5>1. FileType
          BY DEF Types
        <5> QED  BY <4>1, <5>1, FileIs
      <4> QED  BY <2>1, <2>3, <4>2 DEF Behind
    <3>2. k \in 1..m
      BY <1>3, <2>1, <3>1
    <3> QED  BY <2>1, <2>2, <2>3, <3>2 DEF Behind, TagAt
  <2>4. \A k \in 1..m + 1 : \A i \in DOMAIN file.dirs[stack'[k].dir] :
          Seen(k, i)' => g'.thumbOffset = SubOffset
    <3> SUFFICES ASSUME NEW k \in 1..m + 1, NEW i \in DOMAIN file.dirs[stack'[k].dir], Seen(k, i)'
                 PROVE  g'.thumbOffset = SubOffset
      OBVIOUS
    <3>1. k \in DOMAIN stack /\ Seen(k, i) /\ i \in DOMAIN file.dirs[stack[k].dir]
      BY <2>1, <2>3
    <3> QED  BY <1>1, <2>2, <3>1, Zenon
  <2>5. g'.thumbLength # 0 =>
          g'.thumbOffset = SubOffset \/ \E k \in 1..m + 1 : stack'[k].dir = "SUB_IFD0"
    BY <1>1, <1>3, <2>1, <2>2
  <2> QED  BY <1>1, <1>2, <2>1, <2>2, <2>4, <2>5
<1>7. CASE NextEntry
  <2>1. /\ DOMAIN stack = 1..m /\ DOMAIN stack' = 1..m /\ m \in 1..m
        /\ \A k \in 1..m : k # m => stack'[k] = stack[k]
        /\ stack'[m].dir = stack[m].dir /\ stack'[m].n = stack[m].n + 1
        /\ ~stack'[m].read /\ stack[m].read
    BY <1>3, <1>7, NextFrames
  <2>2. file' = file /\ g'.thumbOffset = g.thumbOffset /\ g'.thumbLength = g.thumbLength
    BY <1>7, OtherGlobals
  <2> HIDE DEF m
  <2>3. ASSUME NEW k \in 1..m, NEW i \in DOMAIN file.dirs[stack'[k].dir], Seen(k, i)'
        PROVE  Seen(k, i)
    <3>1. stack'[k].dir = stack[k].dir
      BY <2>1
    <3>2. stack[k].dir = "SUB_IFD0" /\ TagAt(k, i) = "ThumbOffset"
      BY <2>2, <2>3, <3>1 DEF TagAt
    <3>3. Behind(k, i)
      <4>1. CASE k # m
        BY <2>1, <2>3, <4>1 DEF Behind
      <4>2. CASE k = m
        <5>1. i < stack[m].n + 1
          BY <2>1, <2>3, <4>2 DEF Behind
        <5>2. stack[m].n \in Nat /\ i \in Nat
          <6>1. FileType
            BY DEF Types
          <6>2. stack[m].n \in Nat /\ stack[m].dir \in Dirs
            BY <1>4, <2>1
          <6> QED  BY <2>1, <4>2, <6>1, <6>2, FileIs
        <5>3. i < stack[m].n \/ i = stack[m].n
          BY <5>1, <5>2
        <5> QED  BY <2>1, <4>2, <5>3 DEF Behind
      <4> QED  BY <4>1, <4>2
    <3> QED  BY <3>2, <3>3
  <2>4. \A k \in 1..m : \A i \in DOMAIN file.dirs[stack'[k].dir] :
          Seen(k, i)' => g'.thumbOffset = SubOffset
    <3> SUFFICES ASSUME NEW k \in 1..m, NEW i \in DOMAIN file.dirs[stack'[k].dir], Seen(k, i)'
                 PROVE  g'.thumbOffset = SubOffset
      OBVIOUS
    <3>1. k \in DOMAIN stack /\ Seen(k, i) /\ i \in DOMAIN file.dirs[stack[k].dir]
      BY <2>1, <2>3
    <3> QED  BY <1>1, <2>2, <3>1, Zenon
  <2>5. g'.thumbLength # 0 =>
          g'.thumbOffset = SubOffset \/ \E k \in 1..m : stack'[k].dir = "SUB_IFD0"
    BY <1>1, <2>1, <2>2
  <2> QED  BY <1>1, <1>2, <2>1, <2>2, <2>4, <2>5
<1>8. CASE Return
  <2>1. /\ DOMAIN stack = 1..m /\ DOMAIN stack' = 1..m - 1 /\ m \in Nat \ {0}
        /\ \A k \in 1..m - 1 : stack'[k] = stack[k] /\ k \in 1..m
        /\ \A i \in DOMAIN file.dirs[stack[m].dir] : Behind(m, i)
    BY <1>8, ReturnFrames
  <2>2. file' = file /\ g'.thumbOffset = g.thumbOffset /\ g'.thumbLength = g.thumbLength
    BY <1>8, OtherGlobals
  <2> HIDE DEF m
  <2>3. \A k \in 1..m - 1 : \A i \in DOMAIN file.dirs[stack'[k].dir] :
          Seen(k, i)' => g'.thumbOffset = SubOffset
    <3> SUFFICES ASSUME NEW k \in 1..m - 1, NEW i \in DOMAIN file.dirs[stack'[k].dir], Seen(k, i)'
                 PROVE  g'.thumbOffset = SubOffset
      OBVIOUS
    <3>1. k \in DOMAIN stack /\ Seen(k, i) /\ i \in DOMAIN file.dirs[stack[k].dir]
      BY <2>1, <2>2 DEF Behind, TagAt
    <3> QED  BY <1>1, <2>2, <3>1, Zenon
  <2>4. stack[m].dir = "SUB_IFD0" => g.thumbOffset = SubOffset
    <3> SUFFICES ASSUME stack[m].dir = "SUB_IFD0" PROVE g.thumbOffset = SubOffset
      OBVIOUS
    <3>1. m \in DOMAIN stack
      BY <1>3, <2>1
    <3>2. CASE \E i \in DOMAIN file.dirs["SUB_IFD0"] :
                 file.dirs["SUB_IFD0"][i].tag = "ThumbOffset"
      <4>1. PICK i \in DOMAIN file.dirs[stack[m].dir] : TagAt(m, i) = "ThumbOffset"
        BY <3>2 DEF TagAt
      <4> QED  BY <1>1, <2>1, <3>1, <4>1, Zenon
    <3>3. CASE \A i \in DOMAIN file.dirs["SUB_IFD0"] :
                 file.dirs["SUB_IFD0"][i].tag # "ThumbOffset"
      <4>1. SubOffset = 0
        <5>1. FileType /\ "SUB_IFD0" \in Dirs
          BY DEF Types, Dirs
        <5> QED  BY <3>3, <5>1, NumberIs, Zenon DEF SubOffset
      <4> QED  BY <1>1, <4>1
    <3> QED  BY <3>2, <3>3, Zenon
  <2>5. g'.thumbLength # 0 =>
          g'.thumbOffset = SubOffset \/ \E k \in 1..m - 1 : stack'[k].dir = "SUB_IFD0"
    <3> SUFFICES ASSUME g.thumbLength # 0, g.thumbOffset # SubOffset
                 PROVE  \E k \in 1..m - 1 : stack'[k].dir = "SUB_IFD0"
      BY <2>2
    <3>1. PICK k \in 1..m : stack[k].dir = "SUB_IFD0"
      BY <1>1, <2>1
    <3>2. k # m
      BY <2>4, <3>1
    <3>3. k \in 1..m - 1
      BY <1>3, <2>1, <3>2
    <3> QED  BY <2>1, <3>1, <3>3
  <2> QED  BY <1>1, <1>2, <2>1, <2>2, <2>3, <2>5
<1> QED  BY <1>5, <1>6, <1>7, <1>8

\* What is known of one call of the walk of a D100 or a D2H.
CallSet(k) ==
  /\ stack[k].dir \in {"MAKER_NOTES", "THUMBNAIL"} => g.calc = file.calc
  /\ stack[k].read /\ TagAt(k, stack[k].n) = "MakerNote" => g.calc = file.calc
Passed(k, i) ==
  /\ stack[k].dir = "THUMBNAIL" /\ TagAt(k, i) = "ThumbOffset" /\ Behind(k, i) =>
       g.thumbOffset = OldOffset
  /\ TagAt(k, i) \in {"Exif", "MakerNote", "ThumbIfd"} =>
       \/ i > stack[k].n \/ OldSet
       \/ i = stack[k].n /\ (stack[k].sub = 0 \/ k # Len(stack))

LEMMA MakerIs ==
  MakerInv <=> /\ \A k \in DOMAIN stack :
                    CallSet(k) /\ \A i \in DOMAIN file.dirs[stack[k].dir] : Passed(k, i)
               /\ stack = <<>> => OldSet
  BY DEF MakerInv, CallSet, Passed

LEMMA Positions ==
  /\ \A n \in Nat \ {0} : /\ n \in 1..n /\ n + 1 \in 1..n + 1
                          /\ \A k \in 1..n : k \in 1..n + 1 /\ k # n + 1
                          /\ \A k \in 1..n + 1 : k \in 1..n \/ k = n + 1
                          /\ \A k \in 1..n : k \in 1..n - 1 \/ k = n
                          /\ \A k \in 1..n - 1 : k \in 1..n /\ k # n
  OBVIOUS

LEMMA Entries ==
  ASSUME Types, NEW f \in Frame
  PROVE  f.dir \in Dirs /\ f.n \in Nat /\ \A i \in DOMAIN file.dirs[f.dir] : i \in Nat \ {0}
<1>1. f.dir \in Dirs /\ f.n \in Nat /\ FileType
  BY DEF Types, Frame
<1> QED  BY <1>1, FileIs

LEMMA MakerRead ==
  ASSUME Types, StackInv, PathInv, file.old, MakerInv, ReadEntry
  PROVE  MakerInv'
<1> DEFINE m == Len(stack)
<1>1. /\ DOMAIN stack = 1..m /\ DOMAIN stack' = 1..m /\ m \in Nat \ {0} /\ Len(stack') = m
      /\ \A k \in 1..m : /\ stack'[k].dir = stack[k].dir /\ stack'[k].n = stack[k].n
                         /\ stack'[k].sub = stack[k].sub
      /\ \A k \in 1..m : k # m => stack'[k].read = stack[k].read
      /\ stack' # <<>> /\ stack \in Seq(Frame)
  BY ReadFrames
<1>2. /\ file' = file /\ E = file.dirs[stack[m].dir][stack[m].n]
      /\ stack[m].n \in DOMAIN file.dirs[stack[m].dir]
      /\ E.tag = "ThumbOffset" =>
           /\ stack[m].dir \in {"SUB_IFD0", "THUMBNAIL"}
           /\ stack[m].dir = "THUMBNAIL" => g'.thumbOffset = OldOffset
      /\ E.tag # "ThumbOffset" => g'.thumbOffset = g.thumbOffset
      /\ E.tag = "MakerNote" => g'.calc = file.calc
      /\ E.tag # "MakerNote" => g'.calc = g.calc
  BY ReadGlobals DEF OldOffset
<1> HIDE DEF m
<1>3. \A k \in 1..m : CallSet(k) /\ \A i \in DOMAIN file.dirs[stack[k].dir] : Passed(k, i)
  BY <1>1, MakerIs
<1>4. m \in 1..m
  BY <1>1, Positions
<1>5. \A k \in 1..m : \A i : /\ TagAt(k, i)' = TagAt(k, i) /\ TagAt(k, stack[k].n)' = TagAt(k, stack[k].n)
                             /\ k # m => (Behind(k, i)' <=> Behind(k, i))
  BY <1>1, <1>2 DEF TagAt, Behind
<1>6. TagAt(m, stack[m].n) = E.tag
  BY <1>2 DEF TagAt
<1>7. OldOffset' = OldOffset
  BY <1>2, SameNumber, Zenon DEF OldOffset
<1>8. \A k \in 1..m : CallSet(k)'
  <2>1. SUFFICES ASSUME NEW k \in 1..m PROVE CallSet(k)'
    OBVIOUS
  <2>2. CallSet(k) /\ stack'[k].dir = stack[k].dir
    BY <1>1, <1>3
  <2>3. g.calc = file.calc => g'.calc = file'.calc
    BY <1>2
  <2>4. stack'[k].dir \in {"MAKER_NOTES", "THUMBNAIL"} => g'.calc = file'.calc
    BY <2>2, <2>3 DEF CallSet
  <2>5. ASSUME stack'[k].read, TagAt(k, stack[k].n)' = "MakerNote" PROVE g'.calc = file'.calc
    <3>1. TagAt(k, stack[k].n) = "MakerNote"
      BY <1>5, <2>5
    <3>2. CASE k = m
      BY <1>2, <1>6, <3>1, <3>2
    <3>3. CASE k # m
      BY <1>1, <2>2, <2>3, <2>5, <3>1, <3>3 DEF CallSet
    <3> QED  BY <3>2, <3>3
  <2> QED  BY <2>4, <2>5 DEF CallSet
<1>9. ASSUME NEW k \in 1..m, NEW i \in DOMAIN file.dirs[stack[k].dir]
      PROVE  Passed(k, i)'
  <2>1. Passed(k, i) /\ CallSet(k)
    BY <1>3, <1>9
  <2>2. /\ stack'[k].dir = stack[k].dir /\ stack'[k].n = stack[k].n /\ stack'[k].sub = stack[k].sub
        /\ Len(stack') = Len(stack) /\ TagAt(k, i)' = TagAt(k, i)
    BY <1>1, <1>5, <1>9 DEF m
  <2>3. CASE E.tag # "ThumbOffset"
    <3>1. OldSet => OldSet'
      BY <1>2, <1>7, <2>3 DEF OldSet
    <3>2. ASSUME TagAt(k, i) = "ThumbOffset", Behind(k, i)' PROVE Behind(k, i)
      <4>1. CASE k = m
        <5>1. i # stack[k].n
          BY <1>6, <2>3, <3>2, <4>1
        <5> QED  BY <2>2, <3>2, <5>1 DEF Behind
      <4>2. CASE k # m
        BY <1>5, <3>2, <4>2
      <4> QED  BY <4>1, <4>2
    <3>3. g'.thumbOffset = g.thumbOffset
      BY <1>2, <2>3
    <3> QED  BY <1>7, <2>1, <2>2, <3>1, <3>2, <3>3, Zenon DEF Passed
  <2>4. CASE E.tag = "ThumbOffset" /\ stack[m].dir = "THUMBNAIL"
    <3>1. g.calc = file.calc
      BY <1>3, <1>4, <2>4 DEF CallSet
    <3>2. OldSet'
      BY <1>2, <1>7, <2>4, <3>1 DEF OldSet
    <3> QED  BY <3>2, Zenon DEF Passed, OldSet
  <2>5. CASE E.tag = "ThumbOffset" /\ stack[m].dir = "SUB_IFD0"
    <3>1. m = 2
      <4>1. Level(stack[m].dir) = m
        BY <1>1, <1>4 DEF PathInv
      <4> QED  BY <2>5, <4>1, Levels
    <3>2. stack[1].dir = "IFD0" /\ stack[1].read /\ TagAt(1, stack[1].n) = "SubIfds"
      <4>1. 1 \in 1..m /\ 2 \in 1..m /\ 2 = 1 + 1
        BY <3>1
      <4>2. stack[1].read /\ TagAt(1, stack[1].n) = Via(stack[2].dir)
        BY <1>1, <4>1 DEF PathInv
      <4> QED  BY <1>1, <2>5, <3>1, <4>2, Vias DEF StackInv
    <3>3. stack[k].dir \in {"IFD0", "SUB_IFD0"} /\ (k = 1 \/ (k = 2 /\ stack[k].dir = "SUB_IFD0"))
      BY <2>5, <3>1, <3>2
    <3>4. file \in Files /\ stack[k].dir \in Dirs
      BY <3>3 DEF Types, FileType, Dirs
    <3>5. ASSUME TagAt(k, i) \in {"Exif", "MakerNote", "ThumbIfd"} PROVE i > stack[k].n
      <4>1. TagAt(k, i) = "Exif" /\ stack[k].dir = "IFD0" /\ k = 1
        BY <3>3, <3>4, <3>5, <1>9, PlacesAssumption DEF TagAt
      <4>2. stack[1].n \in DOMAIN file.dirs["IFD0"]
        <5>1. 1 \in DOMAIN stack
          BY <1>1, <3>1
        <5>2. 0 < stack[1].n /\ stack[1].n <= Len(file.dirs["IFD0"]) /\ stack[1] \in Frame
          BY <3>2, <5>1 DEF StackInv, Types, StackType
        <5>3. stack[1].n \in Nat /\ FileType /\ "IFD0" \in Dirs
          BY <5>2 DEF Frame, Types, Dirs
        <5>4. DOMAIN file.dirs["IFD0"] = 1..Len(file.dirs["IFD0"]) /\ Len(file.dirs["IFD0"]) \in Nat
          BY <5>3, FileIs
        <5> QED  BY <5>2, <5>3, <5>4
      <4>3. stack[1].n < i
        <5>1. /\ file.dirs["IFD0"][stack[1].n].tag = "SubIfds" /\ file.dirs["IFD0"][i].tag = "Exif"
              /\ i \in DOMAIN file.dirs["IFD0"] /\ "IFD0" \in Dirs
          BY <1>9, <3>2, <4>1 DEF TagAt, Dirs
        <5> QED  BY <3>4, <4>2, <5>1, PlacesAssumption
      <4>4. i \in Nat /\ stack[1].n \in Nat
        <5>1. stack[1] \in Frame
          BY <1>1, <3>1
        <5> QED  BY <1>9, <4>1, <5>1, Entries
      <4> QED  BY <4>1, <4>3, <4>4
    <3> QED  BY <2>2, <3>3, <3>5 DEF Passed
  <2> QED  BY <1>2, <2>3, <2>4, <2>5
<1>10. /\ \A k \in DOMAIN stack' :
            CallSet(k)' /\ \A i \in DOMAIN file'.dirs[stack'[k].dir] : Passed(k, i)'
       /\ stack' = <<>> => OldSet'
  BY <1>1, <1>2, <1>8, <1>9
<1>11. (MakerInv <=> /\ \A k \in DOMAIN stack :
                          CallSet(k) /\ \A i \in DOMAIN file.dirs[stack[k].dir] : Passed(k, i)
                     /\ stack = <<>> => OldSet)'
  BY MakerIs, PTL
<1> QED  BY <1>10, <1>11

LEMMA MakerSame ==
  ASSUME file' = file, g'.thumbOffset = g.thumbOffset, g'.calc = g.calc,
         \A k \in DOMAIN stack' :
           CallSet(k)' /\ \A i \in DOMAIN file.dirs[stack'[k].dir] : Passed(k, i)',
         stack' = <<>> => OldSet
  PROVE  MakerInv'
<1>1. OldSet' = OldSet
  <2>1. OldOffset' = OldOffset
    BY SameNumber, Zenon DEF OldOffset
  <2> QED  BY <2>1 DEF OldSet
<1>2. (MakerInv <=> /\ \A k \in DOMAIN stack :
                         CallSet(k) /\ \A i \in DOMAIN file.dirs[stack[k].dir] : Passed(k, i)
                    /\ stack = <<>> => OldSet)'
  BY MakerIs, PTL
<1> QED  BY <1>1, <1>2, Zenon

\* A call begins: its caller is no longer the innermost.
LEMMA MakerCall ==
  ASSUME Types, file.old, MakerInv, Call
  PROVE  MakerInv'
<1>0. PICK m \in Nat \ {0} : m = Len(stack)
  BY CallFrames
<1> DEFINE d == stack'[m + 1].dir
<1>1. /\ DOMAIN stack = 1..m /\ DOMAIN stack' = 1..m + 1 /\ m \in Nat \ {0} /\ Len(stack') = m + 1
      /\ \A k \in 1..m : /\ stack'[k].dir = stack[k].dir /\ stack'[k].n = stack[k].n
                         /\ stack'[k].read = stack[k].read
                         /\ k # m => stack'[k].sub = stack[k].sub
      /\ stack'[m].read
      /\ stack' # <<>> /\ stack' \in Seq(Frame)
      /\ stack'[m + 1].n = 1 /\ ~stack'[m + 1].read /\ stack'[m + 1].sub = 0
      /\ d = "MAKER_NOTES" => E.tag = "MakerNote"
      /\ d = "THUMBNAIL" => stack[m].dir = "MAKER_NOTES"
  BY <1>0, CallFrames
<1>2. file' = file /\ g'.thumbOffset = g.thumbOffset /\ g'.calc = g.calc
  BY OtherGlobals
<1>3. TagAt(m, stack[m].n) = E.tag
  BY <1>0 DEF TagAt, E, Top
<1>4. \A k \in 1..m : CallSet(k) /\ \A i \in DOMAIN file.dirs[stack[k].dir] : Passed(k, i)
  BY <1>1, MakerIs
<1>5. m \in 1..m /\ m + 1 \in 1..m + 1
  BY <1>1, Positions
<1>6. OldSet' = OldSet /\ OldOffset' = OldOffset
  <2>1. OldOffset' = OldOffset
    BY <1>2, SameNumber, Zenon DEF OldOffset
  <2> QED  BY <1>2, <2>1 DEF OldSet
<1>7. ASSUME NEW k \in 1..m PROVE CallSet(k)'
  <2>1. CallSet(k)
    BY <1>4
  <2> QED  BY <1>1, <1>2, <2>1 DEF CallSet, TagAt
<1>8. ASSUME NEW k \in 1..m, NEW i \in DOMAIN file.dirs[stack'[k].dir] PROVE Passed(k, i)'
  <2>1. Passed(k, i)
    BY <1>1, <1>4
  <2>2. k # Len(stack')
    <3>1. k # m + 1
      BY <1>1, Positions, Zenon
    <3> QED  BY <1>1, <3>1
  <2>3. /\ stack'[k].dir = stack[k].dir /\ stack'[k].n = stack[k].n
        /\ stack'[k].read = stack[k].read
        /\ TagAt(k, i)' = TagAt(k, i) /\ Behind(k, i)' = Behind(k, i)
    BY <1>1, <1>2 DEF TagAt, Behind
  <2> QED  BY <1>2, <1>6, <2>1, <2>2, <2>3, Zenon DEF Passed
<1>9. CallSet(m + 1)'
  <2>1. CallSet(m)
    BY <1>4, <1>5
  <2>2. stack[m].read
    BY <1>1, <1>5
  <2>3. d \in {"MAKER_NOTES", "THUMBNAIL"} => g.calc = file.calc
    BY <1>1, <1>3, <2>1, <2>2 DEF CallSet
  <2> QED  BY <1>1, <1>2, <2>3 DEF CallSet
<1>10. ASSUME NEW i \in DOMAIN file.dirs[d] PROVE Passed(m + 1, i)'
  <2>1. i \in Nat \ {0}
    <3>1. stack'[m + 1] \in Frame
      BY <1>1, <1>5
    <3> QED  BY <3>1, Entries
  <2>2. i > 1 \/ i = 1
    BY <2>1
  <2>3. ~Behind(m + 1, i)'
    BY <1>1, <2>1 DEF Behind
  <2> QED  BY <1>1, <2>2, <2>3, Zenon DEF Passed
<1>11. \A k \in DOMAIN stack' :
         CallSet(k)' /\ \A i \in DOMAIN file.dirs[stack'[k].dir] : Passed(k, i)'
  <2> TAKE k \in DOMAIN stack'
  <2>1. k \in 1..m \/ k = m + 1
    BY <1>1, Positions, Zenon
  <2> QED  BY <1>7, <1>8, <1>9, <1>10, <2>1, Zenon
<1> QED  BY <1>1, <1>2, <1>11, MakerSame

\* An entry on the way to the thumbnail is left when its call has come back.
LEMMA MakerNext ==
  ASSUME Types, file.old, MakerInv, NextEntry
  PROVE  MakerInv'
<1>0. PICK m \in Nat \ {0} : m = Len(stack)
  BY NextFrames
<1>1. /\ DOMAIN stack = 1..m /\ DOMAIN stack' = 1..m /\ m \in Nat \ {0} /\ Len(stack') = m
      /\ \A k \in 1..m : k # m => stack'[k] = stack[k]
      /\ stack'[m].dir = stack[m].dir /\ stack'[m].n = stack[m].n + 1
      /\ ~stack'[m].read /\ stack'[m].sub = 0
      /\ stack[m].read /\ stack[m].sub = Len(Leads)
      /\ stack' # <<>> /\ stack \in Seq(Frame)
  BY <1>0, NextFrames
<1>2. file' = file /\ g'.thumbOffset = g.thumbOffset /\ g'.calc = g.calc
  BY OtherGlobals
<1>3. TagAt(m, stack[m].n) = E.tag
  BY <1>0 DEF TagAt, E, Top
<1>4. TagAt(m, stack[m].n) \in {"Exif", "MakerNote", "ThumbIfd"} => stack[m].sub # 0
  <2> DEFINE t == E.tag
  <2>1. Leads = CASE t = "SubIfds" -> IF Len(file.subs) > 1 THEN file.subs ELSE <<>>
                  [] t = "Exif" -> <<"EXIF">>
                  [] t = "MakerNote" -> <<"MAKER_NOTES">>
                  [] t = "ThumbIfd" -> IF file.old THEN <<"THUMBNAIL">> ELSE <<>>
                  [] OTHER -> <<>>
    BY Zenon DEF Leads
  <2> HIDE DEF t
  <2>2. t \in {"Exif", "MakerNote", "ThumbIfd"} =>
          Leads \in {<<"EXIF">>, <<"MAKER_NOTES">>, <<"THUMBNAIL">>}
    BY <2>1
  <2>3. t \in {"Exif", "MakerNote", "ThumbIfd"} => Len(Leads) = 1
    BY <2>2
  <2>4. TagAt(m, stack[m].n) \in {"Exif", "MakerNote", "ThumbIfd"} => Len(Leads) = 1
    BY <1>3, <2>3, Zenon DEF t
  <2>5. stack[m].sub = Len(Leads) /\ 1 # 0
    BY <1>1
  <2> QED  BY <2>4, <2>5, Zenon
<1>5. \A k \in 1..m : CallSet(k) /\ \A i \in DOMAIN file.dirs[stack[k].dir] : Passed(k, i)
  BY <1>1, MakerIs
<1>6. m \in 1..m
  BY <1>1, Positions
<1>7. OldSet' = OldSet /\ OldOffset' = OldOffset
  <2>1. OldOffset' = OldOffset
    BY <1>2, SameNumber, Zenon DEF OldOffset
  <2> QED  BY <1>2, <2>1 DEF OldSet
<1>8. ASSUME NEW k \in 1..m PROVE CallSet(k)'
  <2>1. CallSet(k)
    BY <1>5
  <2> QED  BY <1>1, <1>2, <2>1 DEF CallSet, TagAt
<1>9. ASSUME NEW k \in 1..m, NEW i \in DOMAIN file.dirs[stack'[k].dir] PROVE Passed(k, i)'
  <2>1. stack'[k].dir = stack[k].dir
    BY <1>1
  <2>2. Passed(k, i) /\ TagAt(k, i)' = TagAt(k, i)
    BY <1>2, <1>5, <2>1 DEF TagAt
  <2>3. CASE k # m
    <3>1. Behind(k, i)' = Behind(k, i) /\ stack'[k] = stack[k] /\ Len(stack') = Len(stack)
      BY <1>0, <1>1, <2>3 DEF Behind
    <3> QED  BY <1>2, <1>7, <2>2, <3>1, Zenon DEF Passed
  <2>4. CASE k = m
    <3>1. i \in Nat /\ stack[m].n \in Nat
      <4>1. stack[m] \in Frame
        BY <1>1, <1>6
      <4> QED  BY <2>1, <2>4, <4>1, Entries
    <3>2. Behind(m, i)' => Behind(m, i)
      <4>1. i < stack[m].n + 1 => i < stack[m].n \/ i = stack[m].n
        BY <3>1
      <4> QED  BY <1>1, <4>1 DEF Behind
    <3>3. \/ i > stack[m].n + 1 \/ i = stack[m].n + 1
          \/ i < stack[m].n \/ i = stack[m].n
      BY <3>1
    <3>4. i < stack[m].n => ~(i > stack[m].n) /\ i # stack[m].n
      BY <3>1
    <3>5. i = stack[m].n => ~(i > stack[m].n)
      BY <3>1
    <3>6. TagAt(m, i) \in {"Exif", "MakerNote", "ThumbIfd"} =>
            i > stack[m].n + 1 \/ i = stack[m].n + 1 \/ OldSet
      <4>1. ASSUME TagAt(m, i) \in {"Exif", "MakerNote", "ThumbIfd"}, i = stack[m].n
            PROVE  OldSet
        BY <1>0, <1>4, <2>2, <2>4, <3>5, <4>1 DEF Passed
      <4>2. ASSUME TagAt(m, i) \in {"Exif", "MakerNote", "ThumbIfd"}, i < stack[m].n
            PROVE  OldSet
        BY <2>2, <2>4, <3>4, <4>2 DEF Passed
      <4> QED  BY <3>3, <4>1, <4>2
    <3>7. stack[m].dir = "THUMBNAIL" /\ TagAt(m, i) = "ThumbOffset" /\ Behind(m, i) =>
            g.thumbOffset = OldOffset
      BY <2>2, <2>4 DEF Passed
    <3>8. Passed(m, i)'
      <4>1. stack'[m].n = stack[m].n + 1 /\ stack'[m].sub = 0 /\ stack'[m].dir = stack[m].dir
        BY <1>1
      <4>2. TagAt(m, i)' = TagAt(m, i)
        BY <2>2, <2>4
      <4> QED  BY <1>2, <1>7, <3>2, <3>6, <3>7, <4>1, <4>2, Zenon DEF Passed
    <3> QED  BY <2>4, <3>8
  <2> QED  BY <2>3, <2>4
<1> QED  BY <1>1, <1>2, <1>8, <1>9, MakerSame

\* A call comes back: all entries of its directory are behind it, that on the way to
\* the thumbnail as well.
LEMMA MakerReturn ==
  ASSUME Types, PathInv, file.old, MakerInv, Return
  PROVE  MakerInv'
<1> DEFINE m == Len(stack)
<1>1. /\ DOMAIN stack = 1..m /\ DOMAIN stack' = 1..m - 1 /\ m \in Nat \ {0} /\ Len(stack') = m - 1
      /\ \A k \in 1..m - 1 : stack'[k] = stack[k] /\ k \in 1..m
      /\ \A i \in DOMAIN file.dirs[stack[m].dir] : i < stack[m].n /\ Behind(m, i)
      /\ stack \in Seq(Frame) /\ stack' \in Seq(Frame)
  BY ReturnFrames
<1>2. file' = file /\ g'.thumbOffset = g.thumbOffset /\ g'.calc = g.calc
  BY OtherGlobals
<1> HIDE DEF m
<1>3. \A k \in 1..m : CallSet(k) /\ \A i \in DOMAIN file.dirs[stack[k].dir] : Passed(k, i)
  BY <1>1, MakerIs
<1>4. m \in 1..m
  BY <1>1, Positions
<1>5. OldSet' = OldSet /\ OldOffset' = OldOffset
  <2>1. OldOffset' = OldOffset
    BY <1>2, SameNumber, Zenon DEF OldOffset
  <2> QED  BY <1>2, <2>1 DEF OldSet
<1>6. stack[m] \in Frame /\ stack[m].dir \in Dirs /\ stack[m].n \in Nat /\ file \in Files
  <2>1. stack[m] \in Frame /\ file \in Files
    BY <1>1, <1>4 DEF Types, FileType
  <2> QED  BY <2>1 DEF Frame
<1>7. ASSUME NEW i \in DOMAIN file.dirs[stack[m].dir],
             TagAt(m, i) \in {"Exif", "MakerNote", "ThumbIfd"}
      PROVE  OldSet
  <2>1. i \in Nat /\ i < stack[m].n /\ Passed(m, i)
    BY <1>1, <1>3, <1>4, <1>6, Entries
  <2>2. ~(i > stack[m].n) /\ i # stack[m].n
    BY <1>6, <2>1
  <2> QED  BY <1>7, <2>1, <2>2 DEF Passed
<1>8. stack[m].dir \in {"IFD0", "EXIF", "MAKER_NOTES", "THUMBNAIL"} => OldSet
  <2>1. /\ Has(file, "IFD0", "Exif") /\ Has(file, "EXIF", "MakerNote")
        /\ Has(file, "MAKER_NOTES", "ThumbIfd") /\ Has(file, "THUMBNAIL", "ThumbOffset")
    BY <1>6, OldImageAssumption
  <2>2. CASE stack[m].dir = "IFD0"
    <3>1. PICK i \in DOMAIN file.dirs["IFD0"] : file.dirs["IFD0"][i].tag = "Exif"
      BY <2>1 DEF Has
    <3> QED  BY <1>7, <2>2, <3>1 DEF TagAt
  <2>3. CASE stack[m].dir = "EXIF"
    <3>1. PICK i \in DOMAIN file.dirs["EXIF"] : file.dirs["EXIF"][i].tag = "MakerNote"
      BY <2>1 DEF Has
    <3> QED  BY <1>7, <2>3, <3>1 DEF TagAt
  <2>4. CASE stack[m].dir = "MAKER_NOTES"
    <3>1. PICK i \in DOMAIN file.dirs["MAKER_NOTES"] : file.dirs["MAKER_NOTES"][i].tag = "ThumbIfd"
      BY <2>1 DEF Has
    <3> QED  BY <1>7, <2>4, <3>1 DEF TagAt
  <2>5. CASE stack[m].dir = "THUMBNAIL"
    <3>1. PICK i \in DOMAIN file.dirs["THUMBNAIL"] : file.dirs["THUMBNAIL"][i].tag = "ThumbOffset"
      BY <2>1 DEF Has
    <3>2. Passed(m, i) /\ Behind(m, i) /\ CallSet(m) /\ TagAt(m, i) = "ThumbOffset"
      BY <1>1, <1>3, <1>4, <2>5, <3>1 DEF TagAt
    <3> QED  BY <2>5, <3>2 DEF Passed, CallSet, OldSet
  <2> QED  BY <2>2, <2>3, <2>4, <2>5
<1>9. ASSUME NEW k \in 1..m - 1 PROVE CallSet(k)'
  <2>1. CallSet(k) /\ stack'[k] = stack[k]
    BY <1>1, <1>3
  <2> QED  BY <1>2, <2>1 DEF CallSet, TagAt
<1>10. ASSUME NEW k \in 1..m - 1, NEW i \in DOMAIN file.dirs[stack'[k].dir] PROVE Passed(k, i)'
  <2>1. stack'[k] = stack[k] /\ k \in 1..m
    BY <1>1
  <2>2. Passed(k, i) /\ TagAt(k, i)' = TagAt(k, i) /\ Behind(k, i)' = Behind(k, i)
    BY <1>2, <1>3, <2>1 DEF TagAt, Behind
  <2>3. ASSUME TagAt(k, i) \in {"Exif", "MakerNote", "ThumbIfd"}, i = stack[k].n, k = m - 1
        PROVE  OldSet
    <3>1. m = k + 1
      BY <1>1, <2>1, <2>3
    <3>2. TagAt(k, stack[k].n) = Via(stack[m].dir)
      BY <1>1, <1>4, <2>1, <3>1 DEF PathInv
    <3>3. Via(stack[m].dir) \in {"Exif", "MakerNote", "ThumbIfd"}
      BY <2>3, <3>2
    <3>4. stack[m].dir \in {"EXIF", "MAKER_NOTES", "THUMBNAIL"}
      BY <1>6, <3>3 DEF Via, Dirs
    <3> QED  BY <1>8, <3>4
  <2>4. k = m - 1 \/ k # Len(stack')
    BY <1>1
  <2> QED  BY <1>2, <1>5, <2>1, <2>2, <2>3, <2>4, Zenon DEF Passed
<1>11. stack' = <<>> => OldSet
  <2>1. SUFFICES ASSUME stack' = <<>> PROVE OldSet
    OBVIOUS
  <2>2. m = 1
    <3>1. Len(stack') = 0
      BY <2>1
    <3> QED  BY <1>1, <3>1
  <2>3. Level(stack[m].dir) = 1
    BY <1>1, <1>4, <2>2 DEF PathInv
  <2>4. stack[m].dir = "IFD0"
    BY <1>6, <2>3, Levels DEF Dirs
  <2> QED  BY <1>8, <2>4
<1> QED  BY <1>1, <1>2, <1>9, <1>10, <1>11, MakerSame

LEMMA PlaceInit == Init => PlaceInv
<1> SUFFICES ASSUME Init PROVE PlaceInv
  OBVIOUS
<1>1. /\ stack = <<NewFrame("IFD0")>> /\ DOMAIN stack = {1} /\ stack[1].dir = "IFD0"
      /\ stack[1].n = 1 /\ stack[1].read = FALSE /\ stack[1].sub = 0 /\ stack # <<>>
      /\ g.thumbOffset = 0 /\ g.thumbLength = 0
  BY DEF Init, NewFrame
<1>2. SubsInv
  BY <1>1 DEF SubsInv
<1>3. MakerInv
  <2>1. \A i \in DOMAIN file.dirs[stack[1].dir] : i > 1 \/ i = 1
    <3>1. \A i \in DOMAIN file.dirs["IFD0"] : i \in Nat \ {0}
      <4>1. FileType /\ "IFD0" \in Dirs
        BY DEF Init, FileType, Dirs
      <4> QED  BY <4>1, FileIs
    <3> QED  BY <1>1, <3>1
  <2>2. CallSet(1) /\ \A i \in DOMAIN file.dirs[stack[1].dir] : Passed(1, i)
    BY <1>1, <2>1 DEF CallSet, Passed
  <2> QED  BY <1>1, <2>2, MakerIs
<1> QED  BY <1>2, <1>3, PathInit DEF PlaceInv

LEMMA PlaceStep == Types /\ StackInv /\ PlaceInv /\ [Next]_vars => PlaceInv'
<1> SUFFICES ASSUME Types, StackInv, PlaceInv, [Next]_vars PROVE PlaceInv'
  OBVIOUS
<1>1. PathInv
  BY DEF PlaceInv
<1>2. CASE ReadEntry \/ Call \/ NextEntry \/ Return
  <2>1. PathInv' /\ file' = file
    BY <1>1, <1>2, PathWalk DEF ReadEntry, Call, NextEntry, Return
  <2>2. CASE file.old
    <3>1. MakerInv
      BY <2>2, Zenon DEF PlaceInv
    <3>2. MakerInv'
      BY <1>1, <1>2, <2>2, <3>1, MakerRead, MakerCall, MakerNext, MakerReturn
    <3> QED  BY <2>1, <2>2, <3>2, Zenon DEF PlaceInv
  <2>3. CASE ~file.old
    <3>1. SubsInv
      BY <2>3, Zenon DEF PlaceInv
    <3>2. SubsInv'
      BY <1>1, <1>2, <2>3, <3>1, SubsWalk
    <3> QED  BY <2>1, <2>3, <3>2, Zenon DEF PlaceInv
  <2> QED  BY <2>2, <2>3
<1>3. CASE UNCHANGED <<file, stack, g>>
  <2>1. OldOffset' = OldOffset /\ SubOffset' = SubOffset
    BY <1>3, SameNumber, Zenon DEF OldOffset, SubOffset
  <2>2. PathInv'
    BY <1>1, <1>3 DEF PathInv, TagAt
  <2>3. SubsInv => SubsInv'
    BY <1>3, <2>1 DEF SubsInv, TagAt, Behind
  <2>4. MakerInv => MakerInv'
    BY <1>3, <2>1 DEF MakerInv, OldSet, TagAt, Behind
  <2> QED  BY <1>3, <2>2, <2>3, <2>4, Zenon DEF PlaceInv
<1>4. CASE NoSoftware \/ NoHeaderNeeded \/ BeginHeader
  BY <1>3, <1>4 DEF NoSoftware, NoHeaderNeeded, BeginHeader
<1>5. CASE SkipNode \/ CopySmall \/ CopyData \/ Overrun \/ HeaderDone
  BY <1>3, <1>5 DEF SkipNode, CopySmall, CopyData, Overrun, HeaderDone
<1>6. CASE FileAction \/ UNCHANGED vars
  BY <1>3, <1>6 DEF FileAction, NotCreated, NoImage, WriteImage, Turn, NotTurned, vars
<1> QED  BY <1>2, <1>4, <1>5, <1>6 DEF Next, FileAction, Stopped

LEMMA DiskInit == Init => DiskInv
  BY DEF Init, DiskInv, HeaderMade

LEMMA DiskStep == Types /\ DiskInv /\ [Next]_vars => DiskInv'
<1> SUFFICES ASSUME Types, DiskInv, [Next]_vars PROVE DiskInv'
  OBVIOUS
<1> DEFINE Files0 == [jpg |-> NoFile, tmp |-> NoFile]
           Long == (pc = "copy" \/ HeaderMade) /\ g.order => out.length = 12 * out.count + 1046
<1>1. CASE pc' = pc /\ pc = "walk" /\ disk' = disk
  BY <1>1 DEF DiskInv, HeaderMade
<1>2. CASE ReadEntry \/ Call \/ NextEntry \/ Return
  BY <1>1, <1>2 DEF ReadEntry, Call, NextEntry, Return, AtEntry
<1>3. CASE NoSoftware \/ Overrun \/ NotCreated \/ NoImage
  BY <1>3 DEF NoSoftware, Overrun, NotCreated, NoImage, DiskInv, HeaderMade
<1>4. CASE NoHeaderNeeded
  BY <1>4 DEF NoHeaderNeeded, Begins, Capture, DiskInv, HeaderMade
<1>5. CASE BeginHeader
  <2> DEFINE n == CountTags(list)
             length == 12 * n + 4 + HeaderSize + BufferSize - 6
             stored == IF g.order THEN length ELSE 256 * (length % 256) + length \div 256
  <2>1. /\ pc = "walk" /\ pc' = "copy" /\ disk' = disk /\ g' = g
        /\ \E o \in Leftovers :
             out' = [out EXCEPT !.count = n, !.orientation = o,
                                !.offset = HeaderSize + 12 * n + 4 - 14, !.length = stored]
    BY <1>5, Zenon DEF BeginHeader, Begins
  <2>2. n \in Nat
    <3>1. list \in Seq(Node) /\ Len(list) \in Nat \ {0}
      BY DEF Types, ListType
    <3>2. Len(list) - 1 \in 0..Len(list)
      BY <3>1
    <3> QED  BY <3>1, <3>2, CountsSteps DEF CountTags
  <2>3. length = 12 * n + 1046
    <3> HIDE DEF n
    <3> QED  BY <2>2 DEF HeaderSize, BufferSize
  <2> HIDE DEF n, length, stored
  <2>4. out'.count = n /\ out'.length = stored
    BY <2>1 DEF Types, OutType, Header
  <2>5. g'.order => out'.length = 12 * out'.count + 1046
    <3>1. g.order => stored = length
      BY Zenon DEF stored
    <3> QED  BY <2>1, <2>3, <2>4, <3>1
  <2> QED  BY <2>1, <2>5, Zenon DEF DiskInv, HeaderMade
<1>6. CASE SkipNode \/ CopySmall \/ CopyData
  <2>1. out \in Header
    BY DEF Types, OutType
  <2>2. out'.count = out.count /\ out'.length = out.length
    BY <1>6, <2>1 DEF SkipNode, CopySmall, CopyData, Header
  <2>3. pc = "copy" /\ pc' = "copy" /\ UNCHANGED <<disk, g>>
    BY <1>6 DEF SkipNode, CopySmall, CopyData, AtNode
  <2>4. Long
    BY DEF DiskInv
  <2> QED  BY <2>2, <2>3, <2>4 DEF DiskInv, HeaderMade
<1>7. CASE HeaderDone
  BY <1>7 DEF HeaderDone, DiskInv, HeaderMade
<1>8. ASSUME UNCHANGED <<file, rotates, g, out>> PROVE Image' = Image /\ Name' = Name
  BY <1>8 DEF Image, Name, Turns, Capture, Skipped
<1>9. CASE WriteImage
  <2>1. /\ pc = "image" /\ pc' = "written" /\ UNCHANGED <<file, rotates, g, out>>
        /\ g.thumbLength > 0 /\ disk = Files0 /\ disk' = [disk EXCEPT ![Name] = Image]
    BY <1>9 DEF WriteImage, DiskInv
  <2>2. disk' = [Files0 EXCEPT ![Name'] = Image']
    BY <1>8, <2>1, Zenon
  <2>3. Long'
    BY <2>1 DEF DiskInv, HeaderMade, Capture
  <2>4. g'.thumbLength > 0
    BY <2>1
  <2> HIDE DEF Long
  <2>5. (pc = "copy" \/ HeaderMade)' /\ g'.order => out'.length = 12 * out'.count + 1046
    BY <2>3 DEF Long
  <2> QED  BY <2>1, <2>2, <2>4, <2>5, Zenon DEF DiskInv
<1>10. CASE Turn
  <2> DEFINE a == IF out.orientation = 6 THEN 90 ELSE 270
  <2>1. /\ pc = "written" /\ pc' = "done" /\ UNCHANGED <<file, rotates, g, out>> /\ Name = "tmp"
        /\ disk = [Files0 EXCEPT !["tmp"] = Image] /\ g.thumbLength > 0
        /\ disk' = [jpg |-> [disk.tmp EXCEPT !.turned = a], tmp |-> NoFile]
    BY <1>10 DEF Turn, DiskInv, Name
  <2>2. disk.tmp = Image
    BY <2>1
  <2> HIDE DEF a
  <2>3. /\ [Image EXCEPT !.turned = a].header = Image.header
        /\ [Image EXCEPT !.turned = a].from = Image.from
    BY DEF Image
  <2>4. disk'.tmp = NoFile /\ disk'.jpg.header = Image'.header /\ disk'.jpg.from = Image'.from
    <3>1. disk'.jpg = [Image EXCEPT !.turned = a] /\ disk'.tmp = NoFile
      BY <2>1, <2>2
    <3> QED  BY <1>8, <2>1, <2>3, <3>1, Zenon
  <2>5. (pc = "copy" \/ HeaderMade)' /\ g'.order => out'.length = 12 * out'.count + 1046
    BY <2>1 DEF DiskInv, HeaderMade, Capture
  <2>6. g'.thumbLength > 0
    BY <2>1
  <2> QED  BY <2>1, <2>4, <2>5, <2>6, Zenon DEF DiskInv
<1>11. CASE NotTurned
  <2>1. /\ pc = "written" /\ pc' = "done" /\ UNCHANGED <<file, rotates, g, out, disk>>
        /\ Name = "jpg" /\ disk = [Files0 EXCEPT !["jpg"] = Image] /\ g.thumbLength > 0
    BY <1>11 DEF NotTurned, DiskInv, Name
  <2>2. disk.jpg = Image /\ disk.tmp = NoFile
    BY <2>1
  <2>3. disk'.tmp = NoFile /\ disk'.jpg.header = Image'.header /\ disk'.jpg.from = Image'.from
    BY <1>8, <2>1, <2>2, Zenon
  <2>5. (pc = "copy" \/ HeaderMade)' /\ g'.order => out'.length = 12 * out'.count + 1046
    BY <2>1 DEF DiskInv, HeaderMade, Capture
  <2>6. g'.thumbLength > 0
    BY <2>1
  <2> QED  BY <2>1, <2>3, <2>5, <2>6, Zenon DEF DiskInv
<1>12. CASE UNCHANGED vars
  <2>1. UNCHANGED <<file, rotates, pc, g, out, disk>>
    BY <1>12 DEF vars
  <2>2. Image' = Image /\ Name' = Name /\ (HeaderMade' <=> HeaderMade)
    BY <1>8, <2>1 DEF HeaderMade, Capture
  <2> QED  BY <2>1, <2>2 DEF DiskInv
<1> QED  BY <1>2, <1>3, <1>4, <1>5, <1>6, <1>7, <1>9, <1>10, <1>11, <1>12 DEF Next, Stopped

LEMMA ImageIs == Types /\ StackInv /\ PlaceInv /\ DiskInv => ImageRight
<1> SUFFICES ASSUME Types, StackInv, PlaceInv, DiskInv, pc = "done"
             PROVE  /\ disk.tmp = NoFile
                    /\ disk.jpg.from = ImageAt + (IF disk.jpg.header = 0 THEN 0 ELSE 2)
                    /\ g.order /\ ~Capture => disk.jpg.header = out.length + 4
  BY DEF ImageRight
<1>1. /\ disk.tmp = NoFile /\ disk.jpg.header = Image.header /\ disk.jpg.from = Image.from
      /\ g.thumbLength > 0
  BY DEF DiskInv
<1>2. stack = <<>>
  BY DEF StackInv
<1>3. /\ g.thumbOffset \in Nat /\ g.calc \in Nat /\ out.count \in Nat /\ file.calc \in Nat
      /\ g.thumbLength \in Nat
  BY FileIs DEF Types, Globals, OutType, Header
<1>4. ImageAt = g.thumbOffset + (IF file.old THEN g.calc ELSE 0)
  <2>1. CASE file.old
    <3>1. OldSet
      BY <1>2, <2>1, Zenon DEF PlaceInv, MakerInv
    <3> QED  BY <1>3, <2>1, <3>1 DEF OldSet, OldOffset, ImageAt
  <2>2. CASE ~file.old
    <3>1. SubsInv
      BY <2>2, Zenon DEF PlaceInv
    <3>2. g.thumbLength # 0 /\ DOMAIN stack = {}
      BY <1>1, <1>2, <1>3
    <3>3. g.thumbOffset = SubOffset
      BY <3>1, <3>2 DEF SubsInv
    <3> QED  BY <1>3, <2>2, <3>3 DEF SubOffset, ImageAt
  <2> QED  BY <2>1, <2>2
<1>5. /\ Image.header = IF Capture THEN 0 ELSE HeaderSize - 2 + 12 * out.count + 4 + BufferSize
      /\ Image.from = g.thumbOffset + Skipped + (IF file.old THEN g.calc ELSE 0)
  BY DEF Image
<1>6. HeaderSize - 2 + 12 * out.count + 4 + BufferSize = 12 * out.count + 1050
  BY <1>3 DEF HeaderSize, BufferSize
<1>7. CASE Capture
  BY <1>1, <1>3, <1>4, <1>5, <1>7 DEF Skipped
<1>8. CASE ~Capture
  <2>1. g.order => out.length = 12 * out.count + 1046
    BY <1>8 DEF DiskInv, HeaderMade
  <2>2. disk.jpg.header = 12 * out.count + 1050
    BY <1>1, <1>5, <1>6, <1>8
  <2>3. disk.jpg.header # 0 /\ Skipped = 2
    BY <1>3, <1>8, <2>2 DEF Skipped
  <2>4. disk.jpg.from = g.thumbOffset + 2 + (IF file.old THEN g.calc ELSE 0)
    BY <1>1, <1>5, <2>3
  <2>5. disk.jpg.from = ImageAt + 2
    BY <1>3, <1>4, <2>4
  <2> QED  BY <1>1, <1>3, <2>1, <2>2, <2>3, <2>5
<1> QED  BY <1>7, <1>8

\* What the JPG shows is what the NEF has, for every NEF that FieldsAssumption,
\* PlacesAssumption and OldImageAssumption allow: the values read as they did but
\* for those named in NotConverted, and the one file there is has the image that the
\* NEF has for the camera, although every directory on the way has its turn with
\* ulThumbOffset.
THEOREM ContentsCorrect == Spec => []ContentsRight
<1> DEFINE Inv == Types /\ StackInv /\ HeaderInv /\ ValueInv /\ PlaceInv /\ DiskInv
<1>1. Init => Inv
  BY TypesInit, ValueInit, PlaceInit, DiskInit
<1>2. Inv /\ [Next]_vars => Inv'
  BY Step, ValueStep, PlaceStep, DiskStep
<1>3. Inv => ContentsRight
  BY ValuesAre, ImageIs DEF ContentsRight
<1> QED  BY <1>1, <1>2, <1>3, PTL DEF Spec
=============================================================================
