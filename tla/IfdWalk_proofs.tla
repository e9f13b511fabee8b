--------------------------- MODULE IfdWalk_proofs ---------------------------
(***************************************************************************)
(* Proofs about the directory walk, for every file whose links are         *)
(* WellFormed: types and positions first (StepInv), then the byte order,   *)
(* then what the globals carry from one directory to another, and last the *)
(* list of directories: sequences put one after the other, the existence   *)
(* of the preorder of a file without a cycle, and the place of every       *)
(* active call in it (ListInv).                                            *)
(***************************************************************************)
EXTENDS IfdWalk, SequenceTheorems, WellFoundedInduction, TLAPS

-----------------------------------------------------------------------------
(* The inductive invariant. *)

\* A caller that waits for a nested directory knows where to go on.
Suspended(fr) ==
  LET e == Current(fr)
  IN  /\ fr.i <= Len(F.entries[fr.dir])
      /\ e.kind \in {"subIfds", "exif", "makerNote", "thumbIfd"}
      /\ fr.old = At(fr.dir, fr.i + 1, 0)
      /\ e.kind = "subIfds" => /\ fr.k + 1 <= Len(e.to)
                               /\ fr.temp = At(fr.dir, fr.i, fr.k + 2)

Child(fr) ==
  Current(fr).to[IF Current(fr).kind = "subIfds" THEN fr.k + 1 ELSE 1]

StackInv ==
  \A n \in 1..Len(stack) :
    /\ n < Len(stack) \/ pc = "resume" => Suspended(stack[n])
    /\ n < Len(stack) => stack[n + 1].dir = Child(stack[n])

\* The call that walks an array of SubIFDs is in the middle of it.
SubsInv ==
  pc = "subs" => /\ Top.i <= Len(F.entries[Top.dir])
                 /\ Current(Top).kind = "subIfds"
                 /\ Top.k + 1 <= Len(Current(Top).to)
                 /\ Top.old = At(Top.dir, Top.i + 1, 0)

\* A new call starts with its first entry.
EnterInv == pc = "enter" => Top.i = 1

StepInv == TypeOK /\ PositionRestored /\ StackInv /\ SubsInv /\ EnterInv

\* While a maker note is being read, the order saved is that of its caller,
\* and no call inside it can save another one.
SavedInv ==
  \A n \in 1..Len(stack) :
    n < Len(stack) /\ Current(stack[n]).kind = "makerNote" =>
      /\ oldOrder = OrderOf(F, stack[n].dir)
      /\ \A m \in n + 1 .. Len(stack) : F.home[stack[m].dir] # NoDir

OrderInv ==
  /\ ByteOrderRight
  /\ pc = "resume" => RestoredOrder = OrderOf(F, Top.dir)
  /\ SavedInv

-----------------------------------------------------------------------------
(* Facts about the stack and about files. *)

LEMMA NotEmpty == ASSUME NEW S, NEW s \in Seq(S), Len(s) >= 1 PROVE s # <<>>
  OBVIOUS

LEMMA ReplaceTop ==
  ASSUME NEW S, NEW s \in Seq(S), s # <<>>, NEW x \in S
  PROVE  LET t == [s EXCEPT ![Len(s)] = x]
         IN  /\ t \in Seq(S)
             /\ Len(t) = Len(s)
             /\ t[Len(t)] = x
             /\ \A n \in 1..Len(s) : n < Len(s) => t[n] = s[n]
  OBVIOUS

LEMMA PushTop ==
  ASSUME NEW S, NEW s \in Seq(S), NEW x \in S
  PROVE  LET t == Append(s, x)
         IN  /\ t \in Seq(S)
             /\ Len(t) = Len(s) + 1
             /\ t[Len(t)] = x
             /\ \A n \in 1..Len(s) : t[n] = s[n]
  OBVIOUS

LEMMA PrefixOfSeq ==
  ASSUME NEW S, NEW s \in Seq(S), NEW m \in Nat, m <= Len(s)
  PROVE  /\ SubSeq(s, 1, m) \in Seq(S)
         /\ Len(SubSeq(s, 1, m)) = m
         /\ \A i \in 1..m : SubSeq(s, 1, m)[i] = s[i]
  <1>1. 1 \in Int /\ m \in Int /\ \A i \in 1..m : s[i] \in S
    OBVIOUS
  <1>2. Len(SubSeq(s, 1, m)) = IF 1 <= m THEN m - 1 + 1 ELSE 0
    BY <1>1, SubSeqProperties
  <1>3. SubSeq(s, 1, m) \in Seq(S)
    BY <1>1, SubSeqProperties
  <1> QED
    BY <1>2, <1>3

LEMMA PopTop ==
  ASSUME NEW S, NEW s \in Seq(S), s # <<>>
  PROVE  LET t == SubSeq(s, 1, Len(s) - 1)
         IN  /\ t \in Seq(S)
             /\ Len(t) = Len(s) - 1
             /\ \A n \in 1..Len(s) : n < Len(s) => t[n] = s[n]
             /\ t = <<>> <=> Len(s) = 1
  <1>1. PICK m \in Nat : m = Len(s) - 1
    OBVIOUS
  <1>2. m <= Len(s) /\ Len(s) \in Nat
    BY <1>1
  <1>3. /\ SubSeq(s, 1, m) \in Seq(S)
        /\ Len(SubSeq(s, 1, m)) = m
        /\ \A i \in 1..m : SubSeq(s, 1, m)[i] = s[i]
    BY <1>2, PrefixOfSeq
  <1>4. SubSeq(s, 1, m) = <<>> <=> Len(SubSeq(s, 1, m)) = 0
    BY <1>3, EmptySeq
  <1> QED
    BY <1>1, <1>2, <1>3, <1>4

LEMMA FileFacts ==
  ASSUME file \in Files
  PROVE  /\ F \in File
         /\ WellFormed(F)
         /\ \A d \in Dir : OrderOf(F, d) \in ByteOrder
  BY FilesAssumption DEF F, File, OrderOf, ByteOrder

LEMMA EntryFacts ==
  ASSUME file \in Files, NEW d \in Dir, NEW i \in Nat \ {0}, i <= Len(F.entries[d])
  PROVE  /\ F.entries[d][i] \in Entry
         /\ F.entries[d][i].kind \in {"exif", "makerNote", "thumbIfd"}
              => Len(F.entries[d][i].to) = 1
         /\ F.entries[d][i].kind = "thumbIfd" => F.home[d] # NoDir
         /\ \A k \in 1..Len(F.entries[d][i].to) :
              LinkOK(F, d, F.entries[d][i], F.entries[d][i].to[k])
  <1>1. F.entries[d] \in Seq(Entry) /\ i \in DOMAIN F.entries[d]
    BY FileFacts DEF File
  <1>2. F.entries[d][i] \in Entry
    BY <1>1
  <1>3. F.entries[d][i].to \in Seq(Dir)
    BY <1>2 DEF Entry
  <1> QED
    BY <1>1, <1>2, <1>3, FileFacts DEF WellFormed

-----------------------------------------------------------------------------
(* What each way of changing the stack does to StackInv. *)

\* The innermost call changes its own frame but not its directory.
LEMMA StackTop ==
  ASSUME StackInv, stack \in Seq(Frame), stack' \in Seq(Frame), UNCHANGED file,
         Len(stack') = Len(stack),
         \A n \in 1..Len(stack) : n < Len(stack) => stack'[n] = stack[n],
         stack # <<>> => stack'[Len(stack)].dir = stack[Len(stack)].dir,
         pc' # "resume"
  PROVE  StackInv'
  <1> USE DEF F
  <1>1. Len(stack) \in Nat
    OBVIOUS
  <1>2. ASSUME NEW n \in 1..Len(stack), n < Len(stack)
        PROVE  Suspended(stack[n])' /\ stack'[n + 1].dir = Child(stack[n])'
    <2>1. Suspended(stack[n]) /\ stack[n + 1].dir = Child(stack[n]) /\ stack'[n] = stack[n]
      BY <1>2 DEF StackInv
    <2>2. stack'[n + 1].dir = stack[n + 1].dir
      BY <1>1, <1>2
    <2> QED
      BY <2>1, <2>2 DEF Suspended, Child, Current
  <1> QED
    BY <1>1, <1>2 DEF StackInv

\* The innermost call suspends itself with frame fr and calls.
LEMMA StackCall ==
  ASSUME StackInv, stack \in Seq(Frame), stack # <<>>, stack' \in Seq(Frame), UNCHANGED file,
         Len(stack') = Len(stack) + 1,
         \A n \in 1..Len(stack) : n < Len(stack) => stack'[n] = stack[n],
         stack'[Len(stack)].dir = stack[Len(stack)].dir,
         Suspended(stack'[Len(stack)]),
         stack'[Len(stack) + 1].dir = Child(stack'[Len(stack)]),
         pc' # "resume"
  PROVE  StackInv'
  <1> USE DEF F
  <1>1. Len(stack) \in Nat /\ Len(stack) >= 1
    OBVIOUS
  <1>2. ASSUME NEW n \in 1..Len(stack), n < Len(stack)
        PROVE  Suspended(stack[n])' /\ stack'[n + 1].dir = Child(stack[n])'
    <2>1. Suspended(stack[n]) /\ stack[n + 1].dir = Child(stack[n]) /\ stack'[n] = stack[n]
      BY <1>2 DEF StackInv
    <2>2. stack'[n + 1].dir = stack[n + 1].dir
      BY <1>1, <1>2
    <2> QED
      BY <2>1, <2>2 DEF Suspended, Child, Current
  <1>4. ASSUME NEW n \in 1..Len(stack'), n = Len(stack)
        PROVE  Suspended(stack[n])' /\ stack'[n + 1].dir = Child(stack[n])'
    BY <1>4 DEF Suspended, Child, Current
  <1> QED
    BY <1>1, <1>2, <1>4 DEF StackInv

\* The innermost call returns; its caller, if any, resumes.
LEMMA StackReturn ==
  ASSUME StackInv, stack \in Seq(Frame), stack # <<>>, stack' \in Seq(Frame), UNCHANGED file,
         Len(stack') = Len(stack) - 1,
         \A n \in 1..Len(stack) : n < Len(stack) => stack'[n] = stack[n]
  PROVE  StackInv'
  <1> USE DEF F
  <1>1. Len(stack) \in Nat /\ Len(stack) >= 1
    OBVIOUS
  <1>2. ASSUME NEW n \in 1..Len(stack), n < Len(stack)
        PROVE  Suspended(stack[n])' /\ (n + 1 < Len(stack) => stack'[n + 1].dir = Child(stack[n])')
    <2>1. Suspended(stack[n]) /\ stack[n + 1].dir = Child(stack[n]) /\ stack'[n] = stack[n]
      BY <1>2 DEF StackInv
    <2>2. n + 1 < Len(stack) => stack'[n + 1].dir = stack[n + 1].dir
      BY <1>1, <1>2
    <2> QED
      BY <2>1, <2>2 DEF Suspended, Child, Current
  <1> QED
    BY <1>1, <1>2 DEF StackInv

LEMMA StackEmpty == ASSUME stack' = <<>> PROVE StackInv'
  BY DEF StackInv

-----------------------------------------------------------------------------
(* Types and positions: StepInv is inductive. *)

\* What is known of a call that is running.
LEMMA TopFacts ==
  ASSUME StepInv, pc \in Running
  PROVE  /\ stack \in Seq(Frame) /\ stack # <<>>
         /\ Len(stack) \in Nat /\ Len(stack) >= 1
         /\ Top \in Frame
         /\ F.entries[Top.dir] \in Seq(Entry)
  <1>1. stack \in Seq(Frame) /\ stack # <<>>
    BY DEF StepInv, TypeOK
  <1>2. Len(stack) \in Nat /\ Len(stack) >= 1 /\ Top \in Frame
    BY <1>1 DEF Top
  <1> QED
    BY <1>1, <1>2, FileFacts DEF StepInv, TypeOK, File, Frame

\* The entry that fread returns is the current one of the innermost call.
LEMMA ReadingFacts ==
  ASSUME StepInv, Reading
  PROVE  /\ Here = Current(Top) /\ Here \in Entry
         /\ AfterEntry = At(Top.dir, Top.i + 1, 0)
         /\ AfterEntry \in Position
         /\ pos = At(Top.dir, Top.i, 0)
         /\ Here.kind \in {"exif", "makerNote", "thumbIfd"} => Len(Here.to) = 1
         /\ Here.kind = "thumbIfd" => F.home[Top.dir] # NoDir
         /\ \A k \in 1..Len(Here.to) : /\ Here.to[k] \in Dir
                                       /\ LinkOK(F, Top.dir, Here, Here.to[k])
  <1>1. pos = At(Top.dir, Top.i, 0) /\ file \in Files
    BY DEF StepInv, PositionRestored, Reading, TypeOK
  <1>2. Top.dir \in Dir /\ Top.i \in Nat \ {0} /\ Top.i <= Len(F.entries[Top.dir])
    BY TopFacts DEF Reading, Running, Frame
  <1>3. Here = Current(Top)
    BY <1>1 DEF Here, Current, At
  <1>4. AfterEntry = At(Top.dir, Top.i + 1, 0) /\ AfterEntry \in Position
    BY <1>1, <1>2 DEF AfterEntry, At, Position
  <1>5. /\ Here \in Entry
        /\ Here.kind \in {"exif", "makerNote", "thumbIfd"} => Len(Here.to) = 1
        /\ Here.kind = "thumbIfd" => F.home[Top.dir] # NoDir
        /\ \A k \in 1..Len(Here.to) : LinkOK(F, Top.dir, Here, Here.to[k])
    BY <1>1, <1>2, <1>3, EntryFacts DEF Current
  <1>6. \A k \in 1..Len(Here.to) : Here.to[k] \in Dir
    BY <1>5 DEF Entry
  <1> QED
    BY <1>1, <1>3, <1>4, <1>5, <1>6

LEMMA InitStep == Init => StepInv
  <1> SUFFICES ASSUME Init PROVE StepInv
    OBVIOUS
  <1>1. F \in File /\ F.root \in Dir /\ F.order[NoDir] \in ByteOrder
    BY FileFacts DEF Init, File
  <1>2. NewFrame(F.root, NoDir) \in Frame /\ At(F.root, 1, 0) \in Position
    BY <1>1 DEF NewFrame, Frame, At, Position
  <1>3. TypeOK
    BY <1>1, <1>2, TextAssumption DEF Init, TypeOK, Running, Ended
  <1>4. PositionRestored /\ StackInv /\ SubsInv /\ EnterInv
    BY DEF Init, PositionRestored, StackInv, SubsInv, EnterInv, Top, NewFrame
  <1> QED
    BY <1>3, <1>4 DEF StepInv

LEMMA EnterStep == ASSUME StepInv, Enter PROVE StepInv'
  <1>1. pc \in Running /\ UNCHANGED <<file, stack>> /\ pc' = "entry"
    BY DEF Enter, Running
  <1>2. stack \in Seq(Frame) /\ stack # <<>> /\ Top \in Frame
    BY <1>1, TopFacts
  <1>3. StackInv'
    BY <1>1, <1>2, StackTop DEF StepInv
  <1>4. [dir |-> Top.dir, base |-> Top.base, order |-> motorola]
          \in [dir : Dir, base : Dir \cup {NoDir, Zero}, order : ByteOrder]
    BY <1>2 DEF StepInv, TypeOK, Frame
  <1>5. At(Top.dir, 1, 0) \in Position
    BY <1>2 DEF At, Position, Frame
  <1>6. TypeOK'
    BY <1>1, <1>2, <1>4, <1>5 DEF StepInv, TypeOK, Enter, globals, Running, Ended
  <1>7. PositionRestored' /\ SubsInv' /\ EnterInv'
    BY <1>1 DEF PositionRestored, SubsInv, EnterInv, StepInv, Enter, Top
  <1> QED
    BY <1>3, <1>6, <1>7 DEF StepInv

\* The innermost call gets a new frame for the same directory.
LEMMA NewTop ==
  ASSUME StepInv, pc \in Running, NEW x \in Frame, x.dir = Top.dir,
         stack' = [stack EXCEPT ![Len(stack)] = x], UNCHANGED file, pc' # "resume"
  PROVE  /\ stack' \in Seq(Frame) /\ stack' # <<>> /\ Top' = x /\ StackInv'
         /\ Len(stack') = Len(stack)
         /\ \A n \in 1..Len(stack) : n < Len(stack) => stack'[n] = stack[n]
  <1>1. stack \in Seq(Frame) /\ stack # <<>> /\ Len(stack) \in Nat /\ Len(stack) >= 1
    BY TopFacts
  <1>2. /\ stack' \in Seq(Frame)
        /\ Len(stack') = Len(stack)
        /\ stack'[Len(stack')] = x
        /\ \A n \in 1..Len(stack) : n < Len(stack) => stack'[n] = stack[n]
    BY <1>1, ReplaceTop
  <1>3. stack' # <<>>
    BY <1>1, <1>2, NotEmpty
  <1>4. Top' = x /\ stack'[Len(stack)].dir = stack[Len(stack)].dir
    BY <1>2 DEF Top
  <1> QED
    BY <1>1, <1>2, <1>3, <1>4, StackTop DEF StepInv

\* The innermost call finishes an entry that needed no other call.
LEMMA FinishStep ==
  ASSUME StepInv, Reading, FinishEntry,
         make' \in Text \cup {NoText}, model' \in Text \cup {NoText},
         thumbOff' \in Dir \cup {NoDir}, thumbLen' \in Dir \cup {NoDir}
  PROVE  StepInv'
  <1> DEFINE x == [Top EXCEPT !.i = @ + 1]
  <1>1. pc \in Running /\ pc' = "entry" /\ UNCHANGED file
    BY DEF Reading, FinishEntry, Running
  <1>2. Top \in Frame /\ x \in Frame /\ x.dir = Top.dir /\ x.i = Top.i + 1
    <2>1. Top \in Frame
      BY <1>1, TopFacts
    <2> QED
      BY <2>1 DEF Frame
  <1>3. stack' = [stack EXCEPT ![Len(stack)] = x]
    BY DEF FinishEntry, Top
  <1>4. stack' \in Seq(Frame) /\ stack' # <<>> /\ Top' = x /\ StackInv'
    BY <1>1, <1>2, <1>3, NewTop
  <1>5. pos' = At(Top.dir, Top.i + 1, 0) /\ pos' \in Position
    BY ReadingFacts DEF FinishEntry
  <1>6. TypeOK'
    BY <1>1, <1>4, <1>5 DEF StepInv, TypeOK, FinishEntry, Running, Ended
  <1>7. PositionRestored' /\ SubsInv' /\ EnterInv'
    BY <1>1, <1>2, <1>4, <1>5 DEF PositionRestored, SubsInv, EnterInv
  <1> QED
    BY <1>4, <1>6, <1>7 DEF StepInv

LEMMA EntryStep ==
  ASSUME StepInv,
         PlainEntry \/ SetMake \/ SetModel \/ SetThumbnailOffset \/ SetThumbnailLength
  PROVE  StepInv'
  <1>1. Reading /\ FinishEntry
    BY DEF PlainEntry, SetMake, SetModel, SetThumbnailOffset, SetThumbnailLength
  <1>2. Here.text \in Text /\ Top.dir \in Dir
    BY <1>1, ReadingFacts, TopFacts DEF Entry, Frame, Reading, Running
  <1>3. /\ make' \in Text \cup {NoText} /\ model' \in Text \cup {NoText}
        /\ thumbOff' \in Dir \cup {NoDir} /\ thumbLen' \in Dir \cup {NoDir}
    BY <1>2 DEF PlainEntry, SetMake, SetModel, SetThumbnailOffset, SetThumbnailLength,
                StepInv, TypeOK
  <1> QED
    BY <1>1, <1>3, FinishStep

\* A step that ends the walk.
LEMMA EndStep ==
  ASSUME StepInv, EmptyIfd \/ BadMakerHeader \/ NullText
  PROVE  StepInv'
  <1>1. stack' = <<>> /\ pc' \in Ended /\ StackInv'
    BY StackEmpty DEF EmptyIfd, BadMakerHeader, NullText, Ended
  <1>2. MakerNoteBase \in Dir \/ ~BadMakerHeader
    <2> SUFFICES ASSUME BadMakerHeader PROVE MakerNoteBase \in Dir
      OBVIOUS
    <2>1. Reading /\ Here.kind = "makerNote"
      BY DEF BadMakerHeader
    <2> QED
      BY <2>1, ReadingFacts DEF MakerNoteBase
  <1>3. calc' \in Dir \cup {NoDir} /\ oldOrder' \in ByteOrder
    BY <1>2 DEF EmptyIfd, BadMakerHeader, NullText, StepInv, TypeOK, globals
  <1>4. TypeOK'
    BY <1>1, <1>3 DEF EmptyIfd, BadMakerHeader, NullText, StepInv, TypeOK, globals,
                      Running, Ended
  <1>5. PositionRestored' /\ SubsInv' /\ EnterInv'
    BY <1>1 DEF PositionRestored, SubsInv, EnterInv, Ended
  <1> QED
    BY <1>1, <1>4, <1>5 DEF StepInv

\* A call suspends the innermost frame and pushes a new one.
Called(old, temp, d, b) ==
  /\ stack' \in Seq(Frame) /\ stack' # <<>> /\ Len(stack') = Len(stack) + 1
  /\ \A n \in 1..Len(stack) : n < Len(stack) => stack'[n] = stack[n]
  /\ stack'[Len(stack)] = [Top EXCEPT !.old = old, !.temp = temp]
  /\ stack'[Len(stack) + 1] = NewFrame(d, b)
  /\ Top' = NewFrame(d, b)
  /\ pos' = temp /\ pc' = "enter"

LEMMA CallShape ==
  ASSUME StepInv, pc \in Running,
         NEW old \in Position, NEW temp \in Position, NEW d \in Dir,
         NEW b \in Dir \cup {NoDir, Zero}, Call(old, temp, d, b)
  PROVE  Called(old, temp, d, b)
  <1> DEFINE x == [Top EXCEPT !.old = old, !.temp = temp]
             s == [stack EXCEPT ![Len(stack)] = x]
             c == NewFrame(d, b)
  <1>1. /\ stack \in Seq(Frame) /\ stack # <<>>
        /\ Len(stack) \in Nat /\ Len(stack) >= 1 /\ Top \in Frame
    BY TopFacts
  <1>2. x \in Frame
    BY <1>1 DEF Frame
  <1>3. c \in Frame
    BY DEF NewFrame, Frame, At, Position
  <1>4. stack' = Append(s, c) /\ pos' = temp /\ pc' = "enter"
    BY DEF Call, Top
  <1> HIDE DEF x, c
  <1>5. /\ s \in Seq(Frame) /\ Len(s) = Len(stack) /\ s[Len(s)] = x
        /\ \A n \in 1..Len(stack) : n < Len(stack) => s[n] = stack[n]
    BY <1>1, <1>2, ReplaceTop
  <1> HIDE DEF s
  <1>6. /\ stack' \in Seq(Frame) /\ Len(stack') = Len(s) + 1 /\ stack'[Len(stack')] = c
        /\ \A n \in 1..Len(s) : stack'[n] = s[n]
    BY <1>3, <1>4, <1>5, PushTop
  <1>7. /\ Len(stack') = Len(stack) + 1 /\ stack'[Len(stack)] = x
        /\ stack'[Len(stack) + 1] = c
        /\ \A n \in 1..Len(stack) : n < Len(stack) => stack'[n] = stack[n]
    BY <1>1, <1>5, <1>6
  <1>8. Top' = c /\ stack' # <<>>
    <2>1. Len(stack') >= 1
      BY <1>1, <1>7
    <2> QED
      BY <1>6, <2>1, NotEmpty DEF Top
  <1> QED
    BY <1>4, <1>6, <1>7, <1>8 DEF x, c, Called

LEMMA CallStep ==
  ASSUME StepInv, pc \in Running, UNCHANGED <<file, make, model, thumbOff, thumbLen, list>>,
         NEW old \in Position, NEW temp \in Position, NEW d \in Dir,
         NEW b \in Dir \cup {NoDir, Zero}, Call(old, temp, d, b),
         LET x == [Top EXCEPT !.old = old, !.temp = temp]
         IN  Suspended(x) /\ d = Child(x),
         motorola' \in ByteOrder, oldOrder' \in ByteOrder, calc' \in Dir \cup {NoDir}
  PROVE  StepInv'
  <1> DEFINE x == [Top EXCEPT !.old = old, !.temp = temp]
             c == NewFrame(d, b)
  <1>1. stack \in Seq(Frame) /\ stack # <<>> /\ Len(stack) \in Nat /\ Top \in Frame
    BY TopFacts
  <1>2. x.dir = Top.dir
    BY <1>1 DEF Frame
  <1>3. c.dir = d /\ c.i = 1
    BY DEF NewFrame
  <1>4. Suspended(x) /\ d = Child(x)
    OBVIOUS
  <1>5. /\ stack' \in Seq(Frame) /\ stack' # <<>> /\ Len(stack') = Len(stack) + 1
        /\ \A n \in 1..Len(stack) : n < Len(stack) => stack'[n] = stack[n]
        /\ stack'[Len(stack)] = x /\ stack'[Len(stack) + 1] = c /\ Top' = c
        /\ pos' = temp /\ pc' = "enter"
    <2>1. Called(old, temp, d, b)
      BY CallShape
    <2> QED
      BY <2>1 DEF Called
  <1> HIDE DEF x, c
  <1>6. StackInv'
    <2>1. x.dir = stack[Len(stack)].dir /\ pc' # "resume"
      BY <1>2, <1>5 DEF Top
    <2> QED
      BY <1>1, <1>3, <1>4, <1>5, <2>1, StackCall DEF StepInv
  <1>7. TypeOK'
    BY <1>5 DEF StepInv, TypeOK, Running, Ended
  <1>8. PositionRestored' /\ SubsInv' /\ EnterInv'
    BY <1>3, <1>5 DEF PositionRestored, SubsInv, EnterInv
  <1> QED
    BY <1>6, <1>7, <1>8 DEF StepInv

\* Entries with one pointer: EXIF, a maker note, a thumbnail directory.
LEMMA LinkStep ==
  ASSUME StepInv, Reading, UNCHANGED <<file, make, model, thumbOff, thumbLen, list>>,
         Here.kind \in {"exif", "makerNote", "thumbIfd"},
         NEW b \in Dir \cup {NoDir, Zero}, Call(AfterEntry, AfterEntry, Here.to[1], b),
         motorola' \in ByteOrder, oldOrder' \in ByteOrder, calc' \in Dir \cup {NoDir}
  PROVE  StepInv'
  <1> DEFINE x == [Top EXCEPT !.old = AfterEntry, !.temp = AfterEntry]
  <1>1. pc \in Running /\ Top.i <= Len(F.entries[Top.dir])
    BY DEF Reading, Running
  <1>2. Top \in Frame
    BY <1>1, TopFacts
  <1>3. /\ Here = Current(Top) /\ AfterEntry \in Position
        /\ AfterEntry = At(Top.dir, Top.i + 1, 0) /\ Here.to[1] \in Dir
    BY ReadingFacts
  <1>4. x.dir = Top.dir /\ x.i = Top.i /\ x.old = AfterEntry
    BY <1>2 DEF Frame
  <1>5. Current(x) = Here
    BY <1>3, <1>4 DEF Current
  <1> HIDE DEF x
  <1>6. Suspended(x) /\ Here.to[1] = Child(x)
    BY <1>1, <1>3, <1>4, <1>5 DEF Suspended, Child
  <1> QED
    BY <1>1, <1>3, <1>6, CallStep DEF x

LEMMA CallLinkStep ==
  ASSUME StepInv, CallExif \/ CallMakerNote \/ CallThumbIfd
  PROVE  StepInv'
  <1>1. motorola \in ByteOrder /\ oldOrder \in ByteOrder /\ calc \in Dir \cup {NoDir}
    BY DEF StepInv, TypeOK
  <1>2. CASE CallExif
    BY <1>1, <1>2, LinkStep DEF CallExif, globals
  <1>3. CASE CallMakerNote
    <2>1. Here.header \in ByteOrder /\ Here.to[1] \in Dir
      BY <1>3, ReadingFacts DEF CallMakerNote, Entry
    <2> QED
      BY <1>1, <1>3, <2>1, LinkStep DEF CallMakerNote, MakerNoteBase
  <1>4. CASE CallThumbIfd
    BY <1>1, <1>4, LinkStep DEF CallThumbIfd, globals
  <1> QED
    BY <1>2, <1>3, <1>4

LEMMA BeginSubIfdsStep ==
  ASSUME StepInv, BeginSubIfds
  PROVE  StepInv'
  <1> DEFINE x == [Top EXCEPT !.old = AfterEntry, !.k = 0]
  <1>1. Reading /\ pc \in Running /\ pc' = "subs" /\ UNCHANGED file
    BY DEF BeginSubIfds, Reading, Running
  <1>2. Top \in Frame /\ Here = Current(Top) /\ AfterEntry \in Position
        /\ AfterEntry = At(Top.dir, Top.i + 1, 0) /\ pos = At(Top.dir, Top.i, 0)
    BY <1>1, TopFacts, ReadingFacts
  <1>3. x \in Frame /\ x.dir = Top.dir /\ x.i = Top.i /\ x.k = 0 /\ x.old = AfterEntry
    BY <1>2 DEF Frame
  <1>4. stack' = [stack EXCEPT ![Len(stack)] = x]
    BY DEF BeginSubIfds, Top
  <1> HIDE DEF x
  <1>5. stack' \in Seq(Frame) /\ stack' # <<>> /\ Top' = x /\ StackInv'
    BY <1>1, <1>3, <1>4, NewTop
  <1>6. pos' = At(Top.dir, Top.i, 1) /\ pos' \in Position
    BY <1>2 DEF BeginSubIfds, At, Position, Frame
  <1>7. TypeOK'
    BY <1>1, <1>5, <1>6 DEF BeginSubIfds, StepInv, TypeOK, globals, Running, Ended
  <1>8. PositionRestored' /\ EnterInv'
    BY <1>1, <1>3, <1>5, <1>6 DEF PositionRestored, EnterInv
  <1>9. SubsInv'
    <2>1. /\ x.i <= Len(F.entries[x.dir]) /\ Current(x) = Here
          /\ Here.kind = "subIfds" /\ x.k + 1 <= Len(Here.to)
      <3>1. Len(Here.to) \in Nat
        BY <1>1, ReadingFacts DEF Entry
      <3> QED
        BY <1>1, <1>2, <1>3, <3>1 DEF BeginSubIfds, Reading, Current
    <2> QED
      BY <1>1, <1>2, <1>3, <1>5, <2>1 DEF SubsInv, Current, F
  <1> QED
    BY <1>5, <1>7, <1>8, <1>9 DEF StepInv

LEMMA CallSubIfdStep ==
  ASSUME StepInv, CallSubIfd
  PROVE  StepInv'
  <1> DEFINE temp == [pos EXCEPT !.k = @ + 1]
             x == [Top EXCEPT !.old = Top.old, !.temp = temp]
  <1>1. pc = "subs" /\ pc \in Running
    BY DEF CallSubIfd, Running
  <1>2. Top \in Frame
    BY <1>1, TopFacts
  <1>3. /\ Top.i <= Len(F.entries[Top.dir]) /\ Current(Top).kind = "subIfds"
        /\ Top.k + 1 <= Len(Current(Top).to) /\ Top.old = At(Top.dir, Top.i + 1, 0)
        /\ pos = At(Top.dir, Top.i, Top.k + 1)
    BY <1>1 DEF StepInv, SubsInv, PositionRestored
  <1>4. temp = At(Top.dir, Top.i, Top.k + 2) /\ temp \in Position
    BY <1>2, <1>3 DEF At, Position, Frame
  <1>5. /\ x.dir = Top.dir /\ x.i = Top.i /\ x.k = Top.k
        /\ x.old = Top.old /\ x.temp = temp
    BY <1>2 DEF Frame
  <1>6. Current(x) = Current(Top) /\ Here = Current(Top) /\ pos.k = Top.k + 1
    BY <1>3, <1>5 DEF Current, Here, At
  <1>7. Here.to[pos.k] \in Dir
    <2>1. Current(Top) \in Entry
      BY <1>2, <1>3, EntryFacts DEF StepInv, TypeOK, Frame, Current
    <2> QED
      BY <1>2, <1>3, <1>6, <2>1 DEF Entry, Frame
  <1> HIDE DEF x, temp
  <1>8. Suspended(x) /\ Here.to[pos.k] = Child(x)
    BY <1>3, <1>4, <1>5, <1>6 DEF Suspended, Child
  <1>9. Call(Top.old, temp, Here.to[pos.k], Zero)
        /\ UNCHANGED <<file, motorola, oldOrder, globals, list>>
    BY DEF CallSubIfd, temp
  <1>10. motorola' \in ByteOrder /\ oldOrder' \in ByteOrder /\ calc' \in Dir \cup {NoDir}
    BY <1>9 DEF StepInv, TypeOK, globals
  <1>11. Top.old \in Position
    BY <1>2 DEF Frame
  <1> QED
    BY <1>1, <1>4, <1>7, <1>8, <1>9, <1>10, <1>11, CallStep DEF x, globals

LEMMA ReturnStep ==
  ASSUME StepInv, Return
  PROVE  StepInv'
  <1>1. pc \in Running /\ UNCHANGED file /\ stack' = SubSeq(stack, 1, Len(stack) - 1)
    BY DEF Return, Below, Running
  <1>2. stack \in Seq(Frame) /\ stack # <<>> /\ Len(stack) \in Nat /\ Len(stack) >= 1
    BY <1>1, TopFacts
  <1>3. /\ stack' \in Seq(Frame) /\ Len(stack') = Len(stack) - 1
        /\ \A n \in 1..Len(stack) : n < Len(stack) => stack'[n] = stack[n]
        /\ stack' = <<>> <=> Len(stack) = 1
    BY <1>1, <1>2, PopTop
  <1>4. StackInv'
    BY <1>1, <1>2, <1>3, StackReturn DEF StepInv
  <1>5. pc' \in {"done", "resume"} /\ (pc' = "done" <=> Len(stack) = 1)
    BY DEF Return
  <1>6. TypeOK'
    BY <1>3, <1>5 DEF Return, StepInv, TypeOK, globals, Running, Ended
  <1>7. PositionRestored' /\ SubsInv' /\ EnterInv'
    BY <1>5 DEF PositionRestored, SubsInv, EnterInv
  <1> QED
    BY <1>4, <1>6, <1>7 DEF StepInv

\* A caller that resumes was suspended.
LEMMA ResumeFacts ==
  ASSUME StepInv, pc = "resume"
  PROVE  Top \in Frame /\ Suspended(Top)
  <1>1. pc \in Running
    BY DEF Running
  <1> QED
    BY <1>1, TopFacts DEF StepInv, StackInv, Top

LEMMA NextSubIfdStep ==
  ASSUME StepInv, NextSubIfd
  PROVE  StepInv'
  <1> DEFINE x == [Top EXCEPT !.k = @ + 1]
  <1>1. pc \in Running /\ pc = "resume" /\ pc' = "subs" /\ UNCHANGED file
    BY DEF NextSubIfd, Running
  <1>2. Top \in Frame /\ Suspended(Top)
    BY <1>1, ResumeFacts
  <1>3. x \in Frame /\ x.dir = Top.dir /\ x.i = Top.i /\ x.k = Top.k + 1 /\ x.old = Top.old
    BY <1>2 DEF Frame
  <1>4. stack' = [stack EXCEPT ![Len(stack)] = x]
    BY DEF NextSubIfd, Top
  <1> HIDE DEF x
  <1>5. stack' \in Seq(Frame) /\ stack' # <<>> /\ Top' = x /\ StackInv'
    BY <1>1, <1>3, <1>4, NewTop
  <1>6. pos' = At(Top.dir, Top.i, Top.k + 2) /\ pos' \in Position
    <2>1. Top.temp \in Position
      BY <1>2 DEF Frame
    <2> QED
      BY <1>2, <2>1 DEF NextSubIfd, Suspended
  <1>7. TypeOK'
    BY <1>1, <1>5, <1>6 DEF NextSubIfd, StepInv, TypeOK, globals, Running, Ended
  <1>8. PositionRestored' /\ EnterInv'
    <2>1. x.k + 1 = Top.k + 2
      BY <1>2, <1>3 DEF Frame
    <2> QED
      BY <1>1, <1>3, <1>5, <1>6, <2>1 DEF PositionRestored, EnterInv
  <1>9. SubsInv'
    <2>1. Current(x) = Current(Top)
      BY <1>3 DEF Current
    <2>2. Current(Top) \in Entry /\ Top.k \in Nat
      BY <1>2, EntryFacts DEF StepInv, TypeOK, Frame, Suspended, Current
    <2>3. Len(Current(Top).to) \in Nat
      BY <2>2 DEF Entry
    <2>4. x.k + 1 <= Len(Current(Top).to)
      BY <1>3, <2>2, <2>3 DEF NextSubIfd, MoreSubIfds
    <2>5. /\ x.i <= Len(F.entries[x.dir]) /\ Current(x).kind = "subIfds"
          /\ x.k + 1 <= Len(Current(x).to) /\ x.old = At(x.dir, x.i + 1, 0)
      BY <1>2, <1>3, <2>1, <2>4 DEF NextSubIfd, Suspended
    <2> QED
      BY <1>1, <1>5, <2>5 DEF SubsInv, Current, F
  <1> QED
    BY <1>5, <1>7, <1>8, <1>9 DEF StepInv

LEMMA ResumeEntryStep ==
  ASSUME StepInv, ResumeEntry
  PROVE  StepInv'
  <1> DEFINE x == [Top EXCEPT !.i = @ + 1, !.k = 0]
  <1>1. pc \in Running /\ pc = "resume" /\ pc' = "entry" /\ UNCHANGED file
    BY DEF ResumeEntry, Running
  <1>2. Top \in Frame /\ Suspended(Top)
    BY <1>1, ResumeFacts
  <1>3. x \in Frame /\ x.dir = Top.dir /\ x.i = Top.i + 1
    <2> DEFINE y == [Top EXCEPT !.i = @ + 1]
    <2>1. Top \in Frame
      BY <1>2
    <2>2. y \in Frame /\ y.dir = Top.dir /\ y.i = Top.i + 1
      BY <2>1 DEF Frame
    <2>3. x = [y EXCEPT !.k = 0]
      OBVIOUS
    <2> HIDE DEF x, y
    <2> QED
      BY <2>2, <2>3 DEF Frame
  <1>4. stack' = [stack EXCEPT ![Len(stack)] = x]
    BY DEF ResumeEntry, Top
  <1> HIDE DEF x
  <1>5. stack' \in Seq(Frame) /\ stack' # <<>> /\ Top' = x /\ StackInv'
    BY <1>1, <1>3, <1>4, NewTop
  <1>6. pos' = At(Top.dir, Top.i + 1, 0) /\ pos' \in Position
    BY <1>2 DEF ResumeEntry, RestoredPosition, Suspended, Frame
  <1>7. motorola' \in ByteOrder
    BY DEF ResumeEntry, RestoredOrder, StepInv, TypeOK
  <1>8. TypeOK'
    BY <1>1, <1>5, <1>6, <1>7 DEF ResumeEntry, StepInv, TypeOK, globals, Running, Ended
  <1>9. PositionRestored' /\ SubsInv' /\ EnterInv'
    BY <1>1, <1>3, <1>5, <1>6 DEF PositionRestored, SubsInv, EnterInv
  <1> QED
    BY <1>5, <1>8, <1>9 DEF StepInv

LEMMA StutterStep == ASSUME StepInv, UNCHANGED vars PROVE StepInv'
  <1>1. Top' = Top /\ F' = F
    BY DEF vars, Top, F
  <1>2. TypeOK'
    BY DEF StepInv, TypeOK, vars
  <1>3. PositionRestored' /\ SubsInv' /\ EnterInv'
    BY <1>1 DEF StepInv, PositionRestored, SubsInv, EnterInv, Current, vars
  <1>4. StackInv'
    BY <1>1 DEF StepInv, StackInv, Suspended, Child, Current, vars
  <1> QED
    BY <1>2, <1>3, <1>4 DEF StepInv

LEMMA StepInvStep == StepInv /\ [Next]_vars => StepInv'
  BY EnterStep, EntryStep, EndStep, CallLinkStep, BeginSubIfdsStep, CallSubIfdStep,
     ReturnStep, NextSubIfdStep, ResumeEntryStep, StutterStep DEF Next, Stopped

\* Every reachable state satisfies StepInv.
THEOREM StepInvariant == Spec => []StepInv
  BY InitStep, StepInvStep, PTL DEF Spec

\* The variables keep their types, and a running walk has a call to run.
THEOREM TypeCorrect == Spec => []TypeOK
  BY StepInvariant, PTL DEF StepInv

\* Whatever directories an entry leads to, the next one is read from its own place.
THEOREM PositionCorrect == Spec => []PositionRestored
  BY StepInvariant, PTL DEF StepInv

-----------------------------------------------------------------------------
(* The byte order: OrderInv is inductive relative to StepInv. *)

\* Steps that keep every call in its directory keep SavedInv.
LEMMA SavedTop ==
  ASSUME SavedInv, stack \in Seq(Frame), Len(stack') = Len(stack),
         UNCHANGED <<file, oldOrder>>,
         \A n \in 1..Len(stack) : n < Len(stack) => stack'[n] = stack[n],
         stack'[Len(stack)].dir = stack[Len(stack)].dir
  PROVE  SavedInv'
  <1>1. \A n \in 1..Len(stack) : stack'[n].dir = stack[n].dir
    OBVIOUS
  <1> QED
    BY <1>1 DEF SavedInv, Current, OrderOf, F

\* A directory that the innermost call links to is governed by the same
\* header, unless it is a maker note.
LEMMA SavedCall ==
  ASSUME SavedInv, stack \in Seq(Frame), stack # <<>>, UNCHANGED <<file, oldOrder>>,
         Len(stack') = Len(stack) + 1,
         \A n \in 1..Len(stack) : n < Len(stack) => stack'[n] = stack[n],
         stack'[Len(stack)].dir = stack[Len(stack)].dir,
         Current(stack'[Len(stack)]).kind # "makerNote",
         F.home[stack'[Len(stack) + 1].dir] = F.home[stack[Len(stack)].dir]
  PROVE  SavedInv'
  <1>1. Len(stack) \in Nat /\ Len(stack) >= 1
    OBVIOUS
  <1>2. SUFFICES ASSUME NEW n \in 1..Len(stack'), n < Len(stack'),
                        Current(stack'[n]).kind = "makerNote"
                 PROVE  /\ oldOrder = OrderOf(F, stack'[n].dir)
                        /\ \A m \in n + 1 .. Len(stack') : F.home[stack'[m].dir] # NoDir
    BY DEF SavedInv, Current, OrderOf, F
  <1>3. n < Len(stack) /\ n \in 1..Len(stack) /\ stack'[n] = stack[n]
    BY <1>1, <1>2
  <1>4. /\ oldOrder = OrderOf(F, stack[n].dir)
        /\ \A m \in n + 1 .. Len(stack) : F.home[stack[m].dir] # NoDir
    BY <1>2, <1>3 DEF SavedInv
  <1>5. ASSUME NEW m \in n + 1 .. Len(stack') PROVE F.home[stack'[m].dir] # NoDir
    <2>1. CASE m < Len(stack)
      BY <1>1, <1>3, <1>4, <2>1
    <2>2. CASE m = Len(stack)
      BY <1>1, <1>3, <1>4, <2>2
    <2>3. CASE m = Len(stack) + 1
      BY <1>1, <1>3, <1>4, <2>3
    <2> QED
      BY <1>1, <1>3, <2>1, <2>2, <2>3
  <1> QED
    BY <1>3, <1>4, <1>5

\* The call of a maker note saves the byte order when no other one is active.
LEMMA SavedMaker ==
  ASSUME SavedInv, stack \in Seq(Frame), stack # <<>>, UNCHANGED file,
         Len(stack') = Len(stack) + 1,
         \A n \in 1..Len(stack) : n < Len(stack) => stack'[n] = stack[n],
         stack'[Len(stack)].dir = stack[Len(stack)].dir,
         oldOrder' = OrderOf(F, stack[Len(stack)].dir),
         F.home[stack[Len(stack)].dir] = NoDir,
         F.home[stack'[Len(stack) + 1].dir] # NoDir
  PROVE  SavedInv'
  <1>1. Len(stack) \in Nat /\ Len(stack) >= 1
    OBVIOUS
  <1>2. SUFFICES ASSUME NEW n \in 1..Len(stack'), n < Len(stack'),
                        Current(stack'[n]).kind = "makerNote"
                 PROVE  /\ oldOrder' = OrderOf(F, stack'[n].dir)
                        /\ \A m \in n + 1 .. Len(stack') : F.home[stack'[m].dir] # NoDir
    BY DEF SavedInv, Current, OrderOf, F
  <1>3. n = Len(stack)
    <2> SUFFICES ASSUME n # Len(stack) PROVE FALSE
      OBVIOUS
    <2>1. n \in 1..Len(stack) /\ n < Len(stack) /\ stack'[n] = stack[n]
      BY <1>1, <1>2
    <2>2. F.home[stack[Len(stack)].dir] # NoDir
      BY <1>1, <1>2, <2>1 DEF SavedInv
    <2> QED
      BY <2>2
  <1> QED
    BY <1>1, <1>3

LEMMA SavedReturn ==
  ASSUME SavedInv, stack \in Seq(Frame), stack # <<>>, UNCHANGED <<file, oldOrder>>,
         Len(stack') = Len(stack) - 1,
         \A n \in 1..Len(stack) : n < Len(stack) => stack'[n] = stack[n]
  PROVE  SavedInv'
  <1>1. Len(stack) \in Nat /\ Len(stack) >= 1
    OBVIOUS
  <1>2. SUFFICES ASSUME NEW n \in 1..Len(stack'), n < Len(stack'),
                        Current(stack'[n]).kind = "makerNote"
                 PROVE  /\ oldOrder = OrderOf(F, stack'[n].dir)
                        /\ \A m \in n + 1 .. Len(stack') : F.home[stack'[m].dir] # NoDir
    BY DEF SavedInv, Current, OrderOf, F
  <1>3. n < Len(stack) /\ n \in 1..Len(stack) /\ stack'[n] = stack[n]
    BY <1>1, <1>2
  <1>4. /\ oldOrder = OrderOf(F, stack[n].dir)
        /\ \A m \in n + 1 .. Len(stack) : F.home[stack[m].dir] # NoDir
    BY <1>2, <1>3 DEF SavedInv
  <1>5. ASSUME NEW m \in n + 1 .. Len(stack') PROVE F.home[stack'[m].dir] # NoDir
    BY <1>1, <1>3, <1>4
  <1> QED
    BY <1>3, <1>4, <1>5

LEMMA OrderInit == Init => OrderInv
  <1> SUFFICES ASSUME Init PROVE OrderInv
    OBVIOUS
  <1>1. F.home[F.root] = NoDir /\ stack[1] = NewFrame(F.root, NoDir)
    BY FileFacts DEF Init, WellFormed
  <1> QED
    BY <1>1 DEF Init, OrderInv, ByteOrderRight, SavedInv, OrderOf, Top, NewFrame

LEMMA OrderEnter == ASSUME StepInv, OrderInv, Enter PROVE OrderInv'
  <1>1. /\ pc = "enter" /\ pc' = "entry" /\ pc \in Running
        /\ UNCHANGED <<file, stack, motorola, oldOrder>>
    BY DEF Enter, Running
  <1>2. F' = F /\ Top' = Top
    BY <1>1 DEF F, Top
  <1>3. SavedInv'
    BY <1>1, TopFacts, SavedTop DEF OrderInv
  <1>4. motorola = OrderOf(F, Top.dir)
    BY <1>1 DEF OrderInv, ByteOrderRight
  <1> DEFINE node == [dir |-> Top.dir, base |-> Top.base, order |-> motorola]
             S == [dir : Dir, base : Dir \cup {NoDir, Zero}, order : ByteOrder]
  <1>5. list \in Seq(S) /\ list' = Append(list, node)
    BY DEF Enter, StepInv, TypeOK
  <1>6. node.dir = Top.dir /\ node.order = OrderOf(F, Top.dir)
    BY <1>4
  <1>7. \A n \in 1..Len(list) : list[n].order = OrderOf(F, list[n].dir)
    BY DEF OrderInv, ByteOrderRight
  <1> HIDE DEF node, S
  <1>8. \A n \in 1..Len(list') : list'[n] = node \/ (n \in 1..Len(list) /\ list'[n] = list[n])
    BY <1>5
  <1>9. \A n \in 1..Len(list') : list'[n].order = OrderOf(F, list'[n].dir)
    BY <1>6, <1>7, <1>8
  <1> QED
    BY <1>1, <1>2, <1>3, <1>4, <1>9 DEF OrderInv, ByteOrderRight, OrderOf

\* A step within one directory: the order and the list stay.
LEMMA OrderSame ==
  ASSUME StepInv, OrderInv, NEW x, x.dir = Top.dir, Top' = x, pc \in Running,
         stack' = [stack EXCEPT ![Len(stack)] = x], x \in Frame,
         UNCHANGED <<file, oldOrder, list>>, pc' \in {"entry", "subs"},
         motorola' = OrderOf(F, Top.dir)
  PROVE  OrderInv'
  <1>1. F' = F
    BY DEF F
  <1>2. /\ stack \in Seq(Frame) /\ stack # <<>>
        /\ Len(stack') = Len(stack) /\ stack'[Len(stack)] = x
        /\ \A n \in 1..Len(stack) : n < Len(stack) => stack'[n] = stack[n]
    BY TopFacts, ReplaceTop
  <1>3. SavedInv'
    <2>1. stack'[Len(stack)].dir = stack[Len(stack)].dir
      BY <1>2 DEF Top
    <2> QED
      BY <1>2, <2>1, SavedTop DEF OrderInv
  <1> QED
    BY <1>1, <1>3 DEF OrderInv, ByteOrderRight, OrderOf

LEMMA OrderFinish == ASSUME StepInv, OrderInv, Reading, FinishEntry PROVE OrderInv'
  <1> DEFINE x == [Top EXCEPT !.i = @ + 1]
  <1>1. pc \in Running /\ pc = "entry" /\ pc' = "entry"
    BY DEF Reading, FinishEntry, Running
  <1>2. x \in Frame /\ x.dir = Top.dir
    <2>1. Top \in Frame
      BY <1>1, TopFacts
    <2> QED
      BY <2>1 DEF Frame
  <1>3. stack' = [stack EXCEPT ![Len(stack)] = x]
    BY DEF FinishEntry, Top
  <1> HIDE DEF x
  <1>4. Top' = x
    BY <1>1, <1>2, <1>3, NewTop DEF FinishEntry
  <1>5. motorola' = OrderOf(F, Top.dir)
    BY <1>1 DEF FinishEntry, OrderInv, ByteOrderRight
  <1> QED
    BY <1>1, <1>2, <1>3, <1>4, <1>5, OrderSame DEF FinishEntry

LEMMA OrderBeginSubIfds == ASSUME StepInv, OrderInv, BeginSubIfds PROVE OrderInv'
  <1> DEFINE x == [Top EXCEPT !.old = AfterEntry, !.k = 0]
  <1>1. pc \in Running /\ pc = "entry" /\ pc' = "subs" /\ Reading
    BY DEF BeginSubIfds, Reading, Running
  <1>2. x \in Frame /\ x.dir = Top.dir
    <2>1. Top \in Frame /\ AfterEntry \in Position
      BY <1>1, TopFacts, ReadingFacts
    <2> QED
      BY <2>1 DEF Frame
  <1>3. stack' = [stack EXCEPT ![Len(stack)] = x]
    BY DEF BeginSubIfds, Top
  <1> HIDE DEF x
  <1>4. Top' = x
    BY <1>1, <1>2, <1>3, NewTop DEF BeginSubIfds
  <1>5. motorola' = OrderOf(F, Top.dir)
    BY <1>1 DEF BeginSubIfds, OrderInv, ByteOrderRight
  <1> QED
    BY <1>1, <1>2, <1>3, <1>4, <1>5, OrderSame DEF BeginSubIfds

LEMMA OrderNextSubIfd == ASSUME StepInv, OrderInv, NextSubIfd PROVE OrderInv'
  <1> DEFINE x == [Top EXCEPT !.k = @ + 1]
  <1>1. pc \in Running /\ pc = "resume" /\ pc' = "subs"
    BY DEF NextSubIfd, Running
  <1>2. x \in Frame /\ x.dir = Top.dir
    <2>1. Top \in Frame
      BY <1>1, TopFacts
    <2> QED
      BY <2>1 DEF Frame
  <1>3. stack' = [stack EXCEPT ![Len(stack)] = x]
    BY DEF NextSubIfd, Top
  <1> HIDE DEF x
  <1>4. Top' = x
    BY <1>1, <1>2, <1>3, NewTop DEF NextSubIfd
  <1>5. motorola' = OrderOf(F, Top.dir)
    BY <1>1 DEF NextSubIfd, OrderInv, RestoredOrder
  <1> QED
    BY <1>1, <1>2, <1>3, <1>4, <1>5, OrderSame DEF NextSubIfd

LEMMA OrderResume == ASSUME StepInv, OrderInv, ResumeEntry PROVE OrderInv'
  <1> DEFINE y == [Top EXCEPT !.i = @ + 1]
             x == [y EXCEPT !.k = 0]
  <1>1. pc \in Running /\ pc = "resume" /\ pc' = "entry"
    BY DEF ResumeEntry, Running
  <1>2. stack' = [stack EXCEPT ![Len(stack)] = x]
    BY DEF ResumeEntry, Top
  <1>3. y \in Frame /\ y.dir = Top.dir
    <2>1. Top \in Frame
      BY <1>1, TopFacts
    <2> QED
      BY <2>1 DEF Frame
  <1> HIDE DEF y
  <1>4. x \in Frame /\ x.dir = Top.dir
    BY <1>3 DEF Frame
  <1> HIDE DEF x
  <1>5. Top' = x
    BY <1>1, <1>2, <1>4, NewTop DEF ResumeEntry
  <1>6. motorola' = OrderOf(F, Top.dir)
    BY <1>1 DEF ResumeEntry, OrderInv
  <1> QED
    BY <1>1, <1>2, <1>4, <1>5, <1>6, OrderSame DEF ResumeEntry

\* Entries with one pointer lead to a directory under the same header, except
\* that a maker note declares its own.
LEMMA OrderLink ==
  ASSUME StepInv, OrderInv, Reading, UNCHANGED <<file, list>>,
         Here.kind \in {"exif", "makerNote", "thumbIfd"},
         NEW b \in Dir \cup {NoDir, Zero}, Call(AfterEntry, AfterEntry, Here.to[1], b),
         Here.kind # "makerNote" => UNCHANGED <<motorola, oldOrder>>,
         Here.kind = "makerNote" => /\ Here.header \in ByteOrder
                                    /\ motorola' = Here.header /\ oldOrder' = motorola
  PROVE  OrderInv'
  <1> DEFINE d == Here.to[1]
             x == [Top EXCEPT !.old = AfterEntry, !.temp = AfterEntry]
  <1>1. pc = "entry" /\ pc \in Running /\ F' = F
    BY DEF Reading, Running, F
  <1>2. /\ stack \in Seq(Frame) /\ stack # <<>> /\ Len(stack) \in Nat /\ Len(stack) >= 1
        /\ Top \in Frame
    BY <1>1, TopFacts
  <1>3. /\ Here = Current(Top) /\ d \in Dir /\ AfterEntry \in Position
        /\ LinkOK(F, Top.dir, Here, d)
    BY ReadingFacts
  <1>4. motorola = OrderOf(F, Top.dir)
    BY <1>1 DEF OrderInv, ByteOrderRight
  <1>5. x.dir = Top.dir /\ x.i = Top.i
    BY <1>2 DEF Frame
  <1>6. NewFrame(d, b).dir = d
    BY DEF NewFrame
  <1>7. Called(AfterEntry, AfterEntry, d, b)
    BY <1>1, <1>3, CallShape
  <1> HIDE DEF d, x
  <1>8. /\ Len(stack') = Len(stack) + 1 /\ pc' = "enter"
        /\ \A n \in 1..Len(stack) : n < Len(stack) => stack'[n] = stack[n]
        /\ stack'[Len(stack)] = x
        /\ stack'[Len(stack) + 1].dir = d /\ Top'.dir = d
    BY <1>6, <1>7 DEF Called, x
  <1>9. stack'[Len(stack)].dir = stack[Len(stack)].dir /\ Current(stack'[Len(stack)]) = Here
    BY <1>3, <1>5, <1>8 DEF Top, Current
  <1>10. SavedInv' /\ motorola' = OrderOf(F, d)
    <2>1. CASE Here.kind = "makerNote"
      <3>1. F.home[Top.dir] = NoDir /\ F.home[d] = d /\ Here.header = F.order[d]
        BY <1>3, <2>1, DirAssumption DEF LinkOK, ByteOrder
      <3>2. F.home[d] # NoDir
        BY <1>3, <3>1, DirAssumption
      <3>3. SavedInv'
        BY <1>2, <1>4, <1>8, <1>9, <2>1, <3>1, <3>2, SavedMaker DEF OrderInv, Top
      <3> QED
        BY <2>1, <3>1, <3>3 DEF OrderOf
    <2>2. CASE Here.kind # "makerNote"
      <3>1. F.home[d] = F.home[Top.dir]
        BY <1>3, <2>2 DEF LinkOK
      <3>2. SavedInv'
        BY <1>2, <1>8, <1>9, <2>2, <3>1, SavedCall DEF OrderInv, Top
      <3> QED
        BY <1>4, <2>2, <3>1, <3>2 DEF OrderOf
    <2> QED
      BY <2>1, <2>2
  <1> QED
    BY <1>1, <1>8, <1>10 DEF OrderInv, ByteOrderRight, OrderOf

LEMMA OrderCallLink ==
  ASSUME StepInv, OrderInv, CallExif \/ CallMakerNote \/ CallThumbIfd
  PROVE  OrderInv'
  <1>1. calc \in Dir \cup {NoDir}
    BY DEF StepInv, TypeOK
  <1>2. CASE CallExif
    BY <1>2, OrderLink DEF CallExif
  <1>3. CASE CallMakerNote
    <2>1. Here.header \in ByteOrder /\ Here.to[1] \in Dir
      BY <1>3, ReadingFacts DEF CallMakerNote, Entry
    <2> QED
      BY <1>3, <2>1, OrderLink DEF CallMakerNote
  <1>4. CASE CallThumbIfd
    BY <1>1, <1>4, OrderLink DEF CallThumbIfd
  <1> QED
    BY <1>2, <1>3, <1>4

LEMMA OrderCallSubIfd == ASSUME StepInv, OrderInv, CallSubIfd PROVE OrderInv'
  <1> DEFINE temp == [pos EXCEPT !.k = @ + 1]
             d == Here.to[pos.k]
             x == [Top EXCEPT !.old = Top.old, !.temp = temp]
  <1>1. pc = "subs" /\ pc \in Running /\ F' = F /\ UNCHANGED <<file, motorola, oldOrder, list>>
    BY DEF CallSubIfd, Running, F
  <1>2. /\ stack \in Seq(Frame) /\ stack # <<>> /\ Len(stack) \in Nat /\ Len(stack) >= 1
        /\ Top \in Frame
    BY <1>1, TopFacts
  <1>3. /\ Top.i <= Len(F.entries[Top.dir]) /\ Current(Top).kind = "subIfds"
        /\ Top.k + 1 <= Len(Current(Top).to)
        /\ pos = At(Top.dir, Top.i, Top.k + 1) /\ pos \in Position
    BY <1>1 DEF StepInv, SubsInv, PositionRestored, TypeOK
  <1>4. Here = Current(Top) /\ pos.k = Top.k + 1
    BY <1>3 DEF Here, Current, At
  <1>5. d \in Dir /\ LinkOK(F, Top.dir, Here, d)
    <2>1. Top.dir \in Dir /\ Top.i \in Nat \ {0} /\ Top.k \in Nat
      BY <1>2 DEF Frame
    <2>2. /\ Current(Top) \in Entry
          /\ \A k \in 1..Len(Current(Top).to) :
               LinkOK(F, Top.dir, Current(Top), Current(Top).to[k])
      BY <1>3, <2>1, EntryFacts DEF StepInv, TypeOK, Current
    <2>3. Current(Top).to \in Seq(Dir)
      BY <2>2 DEF Entry
    <2>4. pos.k \in 1..Len(Current(Top).to)
      BY <1>3, <1>4, <2>1, <2>3
    <2> QED
      BY <1>4, <2>2, <2>3, <2>4
  <1>6. temp \in Position /\ Top.old \in Position
    <2>1. pos \in Position
      BY <1>3
    <2>2. temp \in Position
      BY <2>1 DEF Position
    <2> QED
      BY <1>2, <2>2 DEF Frame
  <1>7. x.dir = Top.dir /\ x.i = Top.i
    BY <1>2 DEF Frame
  <1>8. NewFrame(d, Zero).dir = d
    BY DEF NewFrame
  <1>9. Called(Top.old, temp, d, Zero)
    <2>1. Call(Top.old, temp, d, Zero)
      BY DEF CallSubIfd
    <2> HIDE DEF temp, d
    <2> QED
      BY <1>1, <1>5, <1>6, <2>1, CallShape
  <1> HIDE DEF temp, d, x
  <1>10. /\ Len(stack') = Len(stack) + 1 /\ pc' = "enter"
         /\ \A n \in 1..Len(stack) : n < Len(stack) => stack'[n] = stack[n]
         /\ stack'[Len(stack)] = x
         /\ stack'[Len(stack) + 1].dir = d /\ Top'.dir = d
    BY <1>8, <1>9 DEF Called, x
  <1>11. stack'[Len(stack)].dir = stack[Len(stack)].dir /\ Current(stack'[Len(stack)]) = Here
    BY <1>4, <1>7, <1>10 DEF Top, Current
  <1>12. F.home[d] = F.home[Top.dir]
    BY <1>3, <1>4, <1>5 DEF LinkOK
  <1>13. SavedInv'
    BY <1>1, <1>2, <1>3, <1>4, <1>10, <1>11, <1>12, SavedCall DEF OrderInv, Top
  <1>14. motorola' = OrderOf(F, d)
    BY <1>1, <1>12 DEF OrderInv, ByteOrderRight, OrderOf
  <1> QED
    BY <1>1, <1>10, <1>13, <1>14 DEF OrderInv, ByteOrderRight, OrderOf

\* Back in its caller the walk finds the byte order of the caller: the one it
\* saved when it called a maker note, and an unchanged one otherwise.
LEMMA OrderReturn == ASSUME StepInv, OrderInv, Return PROVE OrderInv'
  <1>1. /\ pc = "entry" /\ pc \in Running /\ F' = F
        /\ UNCHANGED <<file, motorola, oldOrder, list>>
        /\ stack' = SubSeq(stack, 1, Len(stack) - 1)
        /\ pc' \in {"done", "resume"} /\ (pc' = "done" <=> Len(stack) = 1)
    BY DEF Return, Running, F, Below
  <1>2. /\ stack \in Seq(Frame) /\ stack # <<>> /\ Len(stack) \in Nat /\ Len(stack) >= 1
    BY <1>1, TopFacts
  <1>3. /\ Len(stack') = Len(stack) - 1
        /\ \A n \in 1..Len(stack) : n < Len(stack) => stack'[n] = stack[n]
    BY <1>1, <1>2, PopTop
  <1>4. SavedInv'
    BY <1>1, <1>2, <1>3, SavedReturn DEF OrderInv
  <1>5. ASSUME pc' = "resume" PROVE RestoredOrder' = OrderOf(F, Top.dir)'
    <2> DEFINE p == stack[Len(stack) - 1]
    <2>1. Len(stack) - 1 \in 1..Len(stack) /\ Len(stack) - 1 < Len(stack) /\ Len(stack) - 1 >= 1
      <3>1. Len(stack) # 1
        BY <1>1, <1>5
      <3>2. \A k \in Nat : k >= 1 /\ k # 1 => k - 1 \in 1..k /\ k - 1 < k /\ k - 1 >= 1
        OBVIOUS
      <3> QED
        BY <1>2, <3>1, <3>2, Zenon
    <2>2. Top' = p
      BY <1>3, <2>1 DEF Top
    <2>3. Suspended(p) /\ Top.dir = Child(p) /\ p \in Frame
      BY <1>2, <2>1 DEF StepInv, StackInv, Top
    <2>4. Current(p).kind = "makerNote" => oldOrder = OrderOf(F, p.dir)
      BY <2>1 DEF OrderInv, SavedInv
    <2> HIDE DEF p
    <2>5. ASSUME Current(p).kind # "makerNote" PROVE motorola = OrderOf(F, p.dir)
      <3>1. /\ Current(p) \in Entry
            /\ Current(p).kind \in {"exif", "makerNote", "thumbIfd"} => Len(Current(p).to) = 1
            /\ \A k \in 1..Len(Current(p).to) :
                 LinkOK(F, p.dir, Current(p), Current(p).to[k])
        BY <2>3, EntryFacts DEF StepInv, TypeOK, Frame, Suspended, Current
      <3>2. Len(Current(p).to) \in Nat /\ p.k \in Nat
        BY <2>3, <3>1 DEF Entry, Frame
      <3>3. LinkOK(F, p.dir, Current(p), Top.dir)
        BY <2>3, <3>1, <3>2 DEF Child, Suspended
      <3>4. F.home[Top.dir] = F.home[p.dir]
        BY <2>5, <3>3 DEF LinkOK
      <3> QED
        BY <1>1, <3>4 DEF OrderInv, ByteOrderRight, OrderOf
    <2> QED
      BY <1>1, <2>2, <2>4, <2>5 DEF RestoredOrder, OrderOf, Current
  <1> QED
    BY <1>1, <1>4, <1>5 DEF OrderInv, ByteOrderRight, OrderOf

LEMMA OrderEnd ==
  ASSUME StepInv, OrderInv, EmptyIfd \/ BadMakerHeader \/ NullText
  PROVE  OrderInv'
  <1>1. stack' = <<>> /\ pc' \in Ended /\ F' = F /\ list' = list
    BY DEF EmptyIfd, BadMakerHeader, NullText, Ended, F
  <1>2. SavedInv'
    BY <1>1 DEF SavedInv
  <1> QED
    BY <1>1, <1>2 DEF OrderInv, ByteOrderRight, OrderOf, Ended

LEMMA OrderStutter == ASSUME OrderInv, UNCHANGED vars PROVE OrderInv'
  <1>1. Top' = Top /\ F' = F
    BY DEF vars, Top, F
  <1>2. SavedInv'
    BY <1>1 DEF OrderInv, SavedInv, Current, OrderOf, vars
  <1> QED
    BY <1>1, <1>2 DEF OrderInv, ByteOrderRight, RestoredOrder, Current, OrderOf, vars

LEMMA OrderStep == StepInv /\ OrderInv /\ [Next]_vars => OrderInv'
  <1> SUFFICES ASSUME StepInv, OrderInv, [Next]_vars PROVE OrderInv'
    OBVIOUS
  <1>1. CASE PlainEntry \/ SetMake \/ SetModel \/ SetThumbnailOffset \/ SetThumbnailLength
    BY <1>1, OrderFinish
       DEF PlainEntry, SetMake, SetModel, SetThumbnailOffset, SetThumbnailLength
  <1> QED
    BY <1>1, OrderEnter, OrderEnd, OrderBeginSubIfds, OrderCallSubIfd, OrderCallLink,
       OrderReturn, OrderNextSubIfd, OrderResume, OrderStutter DEF Next, Stopped

\* Every directory is decoded in the byte order it was written in, for every
\* nesting of directories in which maker notes are not nested in maker notes.
THEOREM ByteOrderCorrect == Spec => []ByteOrderRight
  BY OrderInit, OrderStep, StepInvariant, PTL DEF Spec, OrderInv

-----------------------------------------------------------------------------
(* What the globals carry from one directory to another.                   *)

\* Every active call under the header of a maker note has that header's base, and
\* nothing below such a call is back under the header of the file.
BaseInv ==
  \A n \in 1..Len(stack) :
    /\ F.home[stack[n].dir] \in {NoDir, calc}
    /\ F.home[stack[n].dir] = NoDir => \A m \in 1..n : F.home[stack[m].dir] = NoDir

\* The two globals differ only between the two entries of one directory.
Halfway == Reading /\ Current(Top).kind = "thumbLength"
PairInv ==
  /\ Halfway => thumbOff = Top.dir
  /\ thumbOff = thumbLen \/ Halfway

\* In a file of another camera no maker note is followed.
OtherCamera == FileMakes \cap NikonMakes = {}
CameraInv ==
  OtherCamera =>
    /\ make \notin NikonMakes
    /\ \A n \in 1..Len(stack) : stack[n].base \notin Dir /\ F.home[stack[n].dir] = NoDir
    /\ \A n \in 1..Len(list) : list[n].base \notin Dir

\* Three ways a step changes the stack, seen from what the invariants need: the
\* directory and the base of every call.
Kept ==
  /\ Len(stack') = Len(stack)
  /\ \A n \in 1..Len(stack) : /\ stack'[n].dir = stack[n].dir
                              /\ stack'[n].base = stack[n].base

Pushed ==
  /\ Len(stack') = Len(stack) + 1
  /\ \A n \in 1..Len(stack) : /\ stack'[n].dir = stack[n].dir
                              /\ stack'[n].base = stack[n].base

Popped ==
  /\ Len(stack') \in Nat /\ Len(stack') <= Len(stack)
  /\ \A n \in 1..Len(stack') : /\ stack'[n].dir = stack[n].dir
                               /\ stack'[n].base = stack[n].base

LEMMA TopKept ==
  ASSUME StepInv, pc \in Running, NEW x \in Frame, x.dir = Top.dir, x.base = Top.base,
         stack' = [stack EXCEPT ![Len(stack)] = x]
  PROVE  Kept
  <1>1. stack \in Seq(Frame) /\ stack # <<>> /\ Len(stack) \in Nat /\ Len(stack) >= 1
    BY TopFacts
  <1>2. /\ Len(stack') = Len(stack) /\ stack'[Len(stack)] = x
        /\ \A n \in 1..Len(stack) : n < Len(stack) => stack'[n] = stack[n]
    BY <1>1, ReplaceTop
  <1>3. ASSUME NEW n \in 1..Len(stack)
        PROVE  stack'[n].dir = stack[n].dir /\ stack'[n].base = stack[n].base
    <2>1. n < Len(stack) \/ n = Len(stack)
      BY <1>1
    <2> QED
      BY <1>2, <2>1 DEF Top
  <1> QED
    BY <1>2, <1>3 DEF Kept

\* Changing the counters and positions of a frame leaves its directory and base.
LEMMA FrameParts ==
  ASSUME NEW fr \in Frame, NEW i \in Nat \ {0}, NEW k \in Nat, NEW old \in Position
  PROVE  LET a == [fr EXCEPT !.i = i]
             b == [fr EXCEPT !.k = k]
             c == [fr EXCEPT !.old = old]
         IN  /\ a \in Frame /\ a.dir = fr.dir /\ a.base = fr.base
             /\ b \in Frame /\ b.dir = fr.dir /\ b.base = fr.base
             /\ c \in Frame /\ c.dir = fr.dir /\ c.base = fr.base
  BY DEF Frame

Within ==
  \/ Enter \/ PlainEntry \/ SetMake \/ SetModel \/ SetThumbnailOffset
  \/ SetThumbnailLength \/ BeginSubIfds \/ NextSubIfd \/ ResumeEntry

LEMMA WithinKept ==
  ASSUME StepInv, Within
  PROVE  Kept
  <1>1. pc \in Running
    BY DEF Within, Enter, PlainEntry, SetMake, SetModel, SetThumbnailOffset,
           SetThumbnailLength, BeginSubIfds, NextSubIfd, ResumeEntry, Reading, Running
  <1>2. Top \in Frame /\ Top.i \in Nat \ {0} /\ Top.k \in Nat /\ Top.old \in Position
    BY <1>1, TopFacts DEF Frame
  <1>3. Top.i + 1 \in Nat \ {0} /\ Top.k + 1 \in Nat /\ 0 \in Nat
    BY <1>2
  <1>4. CASE UNCHANGED stack
    BY <1>4 DEF Kept
  <1>5. CASE FinishEntry
    <2> DEFINE x == [Top EXCEPT !.i = Top.i + 1]
    <2>1. stack' = [stack EXCEPT ![Len(stack)] = x]
      BY <1>5 DEF FinishEntry, Top
    <2>2. x \in Frame /\ x.dir = Top.dir /\ x.base = Top.base
      BY <1>2, <1>3, FrameParts
    <2> HIDE DEF x
    <2> QED
      BY <1>1, <2>1, <2>2, TopKept
  <1>6. CASE BeginSubIfds
    <2> DEFINE x == [Top EXCEPT !.old = AfterEntry, !.k = 0]
               y == [Top EXCEPT !.old = AfterEntry]
    <2>1. stack' = [stack EXCEPT ![Len(stack)] = x] /\ AfterEntry \in Position
      BY <1>6, ReadingFacts DEF BeginSubIfds, Top
    <2>2. y \in Frame /\ y.dir = Top.dir /\ y.base = Top.base
      BY <1>2, <1>3, <2>1, FrameParts
    <2>3. x = [y EXCEPT !.k = 0]
      OBVIOUS
    <2> HIDE DEF x, y
    <2>4. x \in Frame /\ x.dir = Top.dir /\ x.base = Top.base
      BY <1>2, <1>3, <2>2, <2>3, FrameParts
    <2> QED
      BY <1>1, <2>1, <2>4, TopKept
  <1>7. CASE NextSubIfd
    <2> DEFINE x == [Top EXCEPT !.k = Top.k + 1]
    <2>1. stack' = [stack EXCEPT ![Len(stack)] = x]
      BY <1>7 DEF NextSubIfd, Top
    <2>2. x \in Frame /\ x.dir = Top.dir /\ x.base = Top.base
      BY <1>2, <1>3, FrameParts
    <2> HIDE DEF x
    <2> QED
      BY <1>1, <2>1, <2>2, TopKept
  <1>8. CASE ResumeEntry
    <2> DEFINE x == [Top EXCEPT !.i = Top.i + 1, !.k = 0]
               y == [Top EXCEPT !.i = Top.i + 1]
    <2>1. stack' = [stack EXCEPT ![Len(stack)] = x]
      BY <1>8 DEF ResumeEntry, Top
    <2>2. y \in Frame /\ y.dir = Top.dir /\ y.base = Top.base
      BY <1>2, <1>3, FrameParts
    <2>3. x = [y EXCEPT !.k = 0]
      OBVIOUS
    <2> HIDE DEF x, y
    <2>4. x \in Frame /\ x.dir = Top.dir /\ x.base = Top.base
      BY <1>2, <1>3, <2>2, <2>3, FrameParts
    <2> QED
      BY <1>1, <2>1, <2>4, TopKept
  <1> QED
    BY <1>4, <1>5, <1>6, <1>7, <1>8
       DEF Within, Enter, PlainEntry, SetMake, SetModel, SetThumbnailOffset, SetThumbnailLength

\* What is known of the directory a call goes to.
LEMMA CallPushed ==
  ASSUME StepInv, CallSubIfd \/ CallExif \/ CallMakerNote \/ CallThumbIfd
  PROVE  /\ Pushed
         /\ LET c == stack'[Len(stack) + 1]
            IN  \/ /\ CallSubIfd \/ CallExif
                   /\ c.base \notin Dir /\ F.home[c.dir] = F.home[Top.dir]
                \/ /\ CallThumbIfd
                   /\ F.home[Top.dir] # NoDir /\ F.home[c.dir] = F.home[Top.dir]
                \/ /\ CallMakerNote
                   /\ F.home[Top.dir] = NoDir /\ F.home[c.dir] = calc'
  <1> DEFINE c == stack'[Len(stack) + 1]
  <1>1. pc \in Running
    BY DEF CallSubIfd, CallExif, CallMakerNote, CallThumbIfd, Reading, Running
  <1>2. /\ stack \in Seq(Frame) /\ stack # <<>> /\ Len(stack) \in Nat /\ Len(stack) >= 1
        /\ Top \in Frame
    BY <1>1, TopFacts
  <1>3. ASSUME NEW old \in Position, NEW temp \in Position, NEW d \in Dir,
               NEW b \in Dir \cup {NoDir, Zero}, Call(old, temp, d, b)
        PROVE  Pushed /\ c.dir = d /\ c.base = b
    <2> DEFINE x == [Top EXCEPT !.old = old, !.temp = temp]
    <2>1. Called(old, temp, d, b)
      BY <1>1, <1>3, CallShape
    <2>2. x.dir = Top.dir /\ x.base = Top.base
      BY <1>2 DEF Frame
    <2> HIDE DEF x
    <2>3. /\ Len(stack') = Len(stack) + 1 /\ c = NewFrame(d, b) /\ stack'[Len(stack)] = x
          /\ \A n \in 1..Len(stack) : n < Len(stack) => stack'[n] = stack[n]
      BY <2>1 DEF Called, x
    <2>4. c.dir = d /\ c.base = b
      BY <2>3 DEF NewFrame
    <2>5. ASSUME NEW n \in 1..Len(stack)
          PROVE  stack'[n].dir = stack[n].dir /\ stack'[n].base = stack[n].base
      <3>1. n < Len(stack) \/ n = Len(stack)
        BY <1>2
      <3> QED
        BY <2>2, <2>3, <3>1 DEF Top
    <2> QED
      BY <2>3, <2>4, <2>5 DEF Pushed
  <1>4. Reading => /\ Here = Current(Top) /\ AfterEntry \in Position
                   /\ Here.kind \in {"exif", "makerNote", "thumbIfd"} =>
                        Here.to[1] \in Dir /\ LinkOK(F, Top.dir, Here, Here.to[1])
                   /\ Here.kind = "thumbIfd" => F.home[Top.dir] # NoDir
    BY ReadingFacts
  <1>5. CASE CallExif
    <2>1. Reading /\ Here.kind = "exif" /\ Call(AfterEntry, AfterEntry, Here.to[1], NoDir)
      BY <1>5 DEF CallExif
    <2>2. Pushed /\ c.dir = Here.to[1] /\ c.base = NoDir
      BY <1>3, <1>4, <2>1
    <2> QED
      BY <1>4, <1>5, <2>1, <2>2, DirAssumption DEF LinkOK
  <1>6. CASE CallThumbIfd
    <2>1. Reading /\ Here.kind = "thumbIfd" /\ Call(AfterEntry, AfterEntry, Here.to[1], calc)
      BY <1>6 DEF CallThumbIfd
    <2>2. calc \in Dir \cup {NoDir, Zero}
      BY DEF StepInv, TypeOK
    <2>3. Pushed /\ c.dir = Here.to[1]
      BY <1>3, <1>4, <2>1, <2>2
    <2> QED
      BY <1>4, <1>6, <2>1, <2>3 DEF LinkOK
  <1>7. CASE CallMakerNote
    <2>1. /\ Reading /\ Here.kind = "makerNote" /\ calc' = Here.to[1]
          /\ Call(AfterEntry, AfterEntry, Here.to[1], Here.to[1])
      BY <1>7 DEF CallMakerNote, MakerNoteBase
    <2>2. Pushed /\ c.dir = Here.to[1]
      BY <1>3, <1>4, <2>1
    <2> QED
      BY <1>4, <1>7, <2>1, <2>2 DEF LinkOK
  <1>8. CASE CallSubIfd
    <2> DEFINE temp == [pos EXCEPT !.k = @ + 1]
               d == Here.to[pos.k]
    <2>1. /\ pc = "subs" /\ Call(Top.old, temp, d, Zero)
      BY <1>8 DEF CallSubIfd
    <2>2. /\ Top.i <= Len(F.entries[Top.dir]) /\ Current(Top).kind = "subIfds"
          /\ Top.k + 1 <= Len(Current(Top).to)
          /\ pos = At(Top.dir, Top.i, Top.k + 1) /\ pos \in Position
      BY <2>1 DEF StepInv, SubsInv, PositionRestored, TypeOK
    <2>3. Here = Current(Top) /\ pos.k = Top.k + 1
      BY <2>2 DEF Here, Current, At
    <2>4. Top.dir \in Dir /\ Top.i \in Nat \ {0} /\ Top.k \in Nat /\ Top.old \in Position
      BY <1>2 DEF Frame
    <2>5. /\ Current(Top) \in Entry
          /\ \A k \in 1..Len(Current(Top).to) :
               LinkOK(F, Top.dir, Current(Top), Current(Top).to[k])
      BY <2>2, <2>4, EntryFacts DEF StepInv, TypeOK, Current
    <2>6. Current(Top).to \in Seq(Dir)
      BY <2>5 DEF Entry
    <2>7. pos.k \in 1..Len(Current(Top).to)
      BY <2>2, <2>3, <2>4, <2>6
    <2>8. d \in Dir /\ LinkOK(F, Top.dir, Here, d)
      BY <2>3, <2>5, <2>6, <2>7
    <2>9. temp \in Position
      BY <2>2 DEF Position
    <2> HIDE DEF temp, d
    <2>10. Pushed /\ c.dir = d /\ c.base = Zero
      BY <1>3, <2>1, <2>4, <2>8, <2>9
    <2> QED
      BY <1>8, <2>2, <2>3, <2>8, <2>10, DirAssumption DEF LinkOK
  <1> QED
    BY <1>5, <1>6, <1>7, <1>8

LEMMA ReturnPopped ==
  ASSUME StepInv, Return \/ EmptyIfd \/ BadMakerHeader \/ NullText
  PROVE  Popped
  <1>1. CASE Return
    <2>1. pc \in Running /\ stack' = SubSeq(stack, 1, Len(stack) - 1)
      BY <1>1 DEF Return, Below, Running
    <2>2. stack \in Seq(Frame) /\ stack # <<>> /\ Len(stack) \in Nat /\ Len(stack) >= 1
      BY <2>1, TopFacts
    <2>3. /\ Len(stack') = Len(stack) - 1
          /\ \A n \in 1..Len(stack) : n < Len(stack) => stack'[n] = stack[n]
      BY <2>1, <2>2, PopTop
    <2> QED
      BY <2>2, <2>3 DEF Popped
  <1>2. CASE EmptyIfd \/ BadMakerHeader \/ NullText
    <2>1. stack' = <<>>
      BY <1>2 DEF EmptyIfd, BadMakerHeader, NullText
    <2>2. stack \in Seq(Frame)
      BY DEF StepInv, TypeOK
    <2> QED
      BY <2>1, <2>2 DEF Popped
  <1> QED
    BY <1>1, <1>2

LEMMA StackSteps ==
  ASSUME [Next]_vars
  PROVE  \/ Within \/ UNCHANGED vars
         \/ CallSubIfd \/ CallExif \/ CallMakerNote \/ CallThumbIfd
         \/ Return \/ EmptyIfd \/ BadMakerHeader \/ NullText
  BY DEF Next, Stopped, Within

LEMMA FileKept == ASSUME [Next]_vars PROVE F' = F
  BY StackSteps
     DEF Within, Enter, PlainEntry, SetMake, SetModel, SetThumbnailOffset, SetThumbnailLength,
         FinishEntry, BeginSubIfds, NextSubIfd, ResumeEntry, CallSubIfd, CallExif,
         CallMakerNote, CallThumbIfd, Return, EmptyIfd, BadMakerHeader, NullText, vars, F

\* The base of the maker note: no assumption on the file but that it is well formed.
LEMMA BaseInit == ASSUME Init PROVE BaseInv
  <1>1. F.home[F.root] = NoDir
    BY FileFacts DEF Init, WellFormed
  <1>2. Len(stack) = 1 /\ stack[1].dir = F.root
    BY DEF Init, NewFrame
  <1> QED
    BY <1>1, <1>2 DEF BaseInv

LEMMA BaseStep ==
  ASSUME StepInv, BaseInv, [Next]_vars
  PROVE  BaseInv'
  <1>1. F' = F
    BY FileKept
  <1>2. stack \in Seq(Frame) /\ Len(stack) \in Nat
    BY DEF StepInv, TypeOK
  <1>3. ASSUME Popped, UNCHANGED calc
        PROVE  BaseInv'
    <2>1. \A n \in 1..Len(stack') : n \in 1..Len(stack) /\ stack'[n].dir = stack[n].dir
      BY <1>2, <1>3 DEF Popped
    <2>2. ASSUME NEW n \in 1..Len(stack')
          PROVE  /\ F.home[stack'[n].dir] \in {NoDir, calc}
                 /\ F.home[stack'[n].dir] = NoDir =>
                      \A m \in 1..n : F.home[stack'[m].dir] = NoDir
      <3>1. \A m \in 1..n : m \in 1..Len(stack')
        BY <1>3 DEF Popped
      <3> QED
        BY <2>1, <3>1 DEF BaseInv
    <2> QED
      BY <1>1, <1>3, <2>2 DEF BaseInv
  <1>4. CASE Within \/ UNCHANGED vars
    <2>1. Kept /\ UNCHANGED calc
      BY <1>4, WithinKept
         DEF Within, Enter, PlainEntry, SetMake, SetModel, SetThumbnailOffset,
             SetThumbnailLength, FinishEntry, BeginSubIfds, NextSubIfd, ResumeEntry,
             globals, vars, Kept
    <2>2. Popped
      BY <1>2, <2>1 DEF Kept, Popped
    <2> QED
      BY <1>3, <2>1, <2>2
  <1>5. CASE CallSubIfd \/ CallExif \/ CallMakerNote \/ CallThumbIfd
    <2> DEFINE l == Len(stack)
               c == stack'[l + 1]
    <2>1. /\ Pushed /\ l >= 1 /\ l \in Nat
          /\ \/ F.home[c.dir] = F.home[Top.dir] /\ calc' = calc
             \/ F.home[Top.dir] = NoDir /\ F.home[c.dir] = calc'
      <3>1. pc \in Running
        BY <1>5 DEF CallSubIfd, CallExif, CallMakerNote, CallThumbIfd, Reading, Running
      <3> QED
        BY <1>5, <3>1, CallPushed, TopFacts DEF CallSubIfd, CallExif, CallThumbIfd, globals
    <2>2. /\ F.home[Top.dir] \in {NoDir, calc} /\ l \in 1..l
          /\ F.home[Top.dir] = NoDir => \A m \in 1..l : F.home[stack[m].dir] = NoDir
      BY <2>1 DEF BaseInv, Top
    <2>3. \A n \in 1..l : stack'[n].dir = stack[n].dir
      BY <2>1 DEF Pushed
    <2>4. ASSUME NEW n \in 1..l
          PROVE  /\ F.home[stack'[n].dir] \in {NoDir, calc'}
                 /\ F.home[stack'[n].dir] = NoDir =>
                      \A m \in 1..n : F.home[stack'[m].dir] = NoDir
      <3>1. F.home[stack[n].dir] \in {NoDir, calc'}
        BY <2>1, <2>2 DEF BaseInv
      <3>2. \A m \in 1..n : m \in 1..l
        BY <2>1
      <3> QED
        BY <2>3, <3>1, <3>2 DEF BaseInv
    <2>5. /\ F.home[c.dir] \in {NoDir, calc'}
          /\ F.home[c.dir] = NoDir => \A m \in 1..l : F.home[stack'[m].dir] = NoDir
      <3>1. CASE F.home[c.dir] = F.home[Top.dir] /\ calc' = calc
        BY <2>2, <2>3, <3>1
      <3>2. CASE F.home[Top.dir] = NoDir /\ F.home[c.dir] = calc'
        BY <2>2, <2>3, <3>2
      <3> QED
        BY <2>1, <3>1, <3>2
    <2>6. Len(stack') = l + 1
      BY <2>1 DEF Pushed
    <2> HIDE DEF l
    <2>7. \A n \in 1..(l + 1) : n \in 1..l \/ n = l + 1
      BY <2>1
    <2>8. \A m \in 1..(l + 1) : m \in 1..l \/ stack'[m] = c
      BY <2>7
    <2> HIDE DEF c
    <2>9. ASSUME NEW n \in 1..(l + 1)
          PROVE  /\ F.home[stack'[n].dir] \in {NoDir, calc'}
                 /\ F.home[stack'[n].dir] = NoDir =>
                      \A m \in 1..n : F.home[stack'[m].dir] = NoDir
      <3>1. CASE n \in 1..l
        BY <2>4, <3>1
      <3>2. CASE n \notin 1..l
        <4>1. stack'[n] = c /\ \A m \in 1..n : m \in 1..(l + 1)
          BY <2>1, <2>8, <3>2
        <4> QED
          BY <2>5, <2>8, <4>1
      <3> QED
        BY <3>1, <3>2
    <2> QED
      BY <1>1, <2>6, <2>9 DEF BaseInv
  <1>6. CASE Return
    BY <1>3, <1>6, ReturnPopped DEF Return, globals
  <1>7. CASE EmptyIfd \/ BadMakerHeader \/ NullText
    <2>1. stack' = <<>>
      BY <1>7 DEF EmptyIfd, BadMakerHeader, NullText
    <2> QED
      BY <2>1 DEF BaseInv
  <1> QED
    BY <1>4, <1>5, <1>6, <1>7, StackSteps

\* The thumbnail directory of a D100 or D2H is located from the header of its own
\* maker note, in every well-formed file.
LEMMA BaseRight == ASSUME StepInv, BaseInv PROVE ThumbnailBase
  <1> SUFFICES ASSUME pc = "entry", Top.i <= Len(F.entries[Top.dir]),
                      Current(Top).kind = "thumbIfd"
               PROVE  calc = F.home[Top.dir]
    BY DEF ThumbnailBase
  <1>1. Reading /\ pc \in Running
    BY DEF Reading, Running
  <1>2. F.home[Top.dir] # NoDir
    BY <1>1, ReadingFacts
  <1>3. Len(stack) \in 1..Len(stack)
    BY <1>1, TopFacts
  <1> QED
    BY <1>2, <1>3 DEF BaseInv, Top

-----------------------------------------------------------------------------
(* The thumbnail's range. *)

LEMMA NextEntry ==
  ASSUME StepInv, (Reading /\ FinishEntry) \/ ResumeEntry
  PROVE  /\ Top'.dir = Top.dir /\ Top'.i = Top.i + 1 /\ pc' = "entry" /\ F' = F
         /\ Top.dir \in Dir /\ Top.i \in Nat \ {0}
  <1>1. pc \in Running /\ pc' = "entry" /\ UNCHANGED file
    BY DEF Reading, Running, FinishEntry, ResumeEntry
  <1>2. Top \in Frame /\ Top.dir \in Dir /\ Top.i \in Nat \ {0}
    BY <1>1, TopFacts DEF Frame
  <1> DEFINE y == [Top EXCEPT !.i = @ + 1]
             x == [y EXCEPT !.k = 0]
  <1>3. y \in Frame /\ y.dir = Top.dir /\ y.i = Top.i + 1
    BY <1>2 DEF Frame
  <1>4. CASE Reading /\ FinishEntry
    <2>1. stack' = [stack EXCEPT ![Len(stack)] = y]
      BY <1>4 DEF FinishEntry, Top
    <2> HIDE DEF y
    <2>2. Top' = y
      BY <1>1, <1>3, <2>1, NewTop
    <2> QED
      BY <1>1, <1>2, <1>3, <2>2 DEF F
  <1>5. CASE ResumeEntry
    <2>1. stack' = [stack EXCEPT ![Len(stack)] = x]
      BY <1>5 DEF ResumeEntry, Top
    <2> HIDE DEF y
    <2>2. x \in Frame /\ x.dir = Top.dir /\ x.i = Top.i + 1
      BY <1>3 DEF Frame
    <2> HIDE DEF x
    <2>3. Top' = x
      BY <1>1, <2>1, <2>2, NewTop
    <2> QED
      BY <1>1, <1>2, <2>2, <2>3 DEF F
  <1> QED
    BY <1>4, <1>5

\* The entry before a thumbnail's length is its offset, and the one after that its
\* length.
LEMMA Neighbours ==
  ASSUME StepInv, TagsInOrder(F), NEW d \in Dir, NEW i \in Nat \ {0}
  PROVE  /\ (i + 1 <= Len(F.entries[d]) /\ F.entries[d][i + 1].kind = "thumbLength")
              => F.entries[d][i].kind = "thumbOffset"
         /\ (i <= Len(F.entries[d]) /\ F.entries[d][i].kind = "thumbOffset")
              => i + 1 <= Len(F.entries[d]) /\ F.entries[d][i + 1].kind = "thumbLength"
         /\ (1 <= Len(F.entries[d])) => F.entries[d][1].kind # "thumbLength"
         /\ (i <= Len(F.entries[d]) /\ F.entries[d][i].kind = "make") => d = F.root
  <1>1. F.entries[d] \in Seq(Entry)
    BY FileFacts DEF StepInv, TypeOK, File
  <1>2. DOMAIN F.entries[d] = 1..Len(F.entries[d]) /\ Len(F.entries[d]) \in Nat
    BY <1>1
  <1>3. \A j \in DOMAIN F.entries[d] :
          /\ F.entries[d][j].kind = "thumbOffset" =>
               j + 1 \in DOMAIN F.entries[d] /\ F.entries[d][j + 1].kind = "thumbLength"
          /\ F.entries[d][j].kind = "thumbLength" =>
               j > 1 /\ j - 1 \in DOMAIN F.entries[d] /\ F.entries[d][j - 1].kind = "thumbOffset"
          /\ F.entries[d][j].kind = "make" => d = F.root
    BY DEF TagsInOrder
  <1>4. ASSUME i + 1 <= Len(F.entries[d]), F.entries[d][i + 1].kind = "thumbLength"
        PROVE  F.entries[d][i].kind = "thumbOffset"
    <2>1. i + 1 \in DOMAIN F.entries[d] /\ (i + 1) - 1 = i
      BY <1>2, <1>4
    <2> QED
      BY <1>3, <1>4, <2>1
  <1>5. ASSUME i <= Len(F.entries[d])
        PROVE  i \in DOMAIN F.entries[d]
    BY <1>2, <1>5
  <1>6. ASSUME 1 <= Len(F.entries[d])
        PROVE  F.entries[d][1].kind # "thumbLength"
    <2>1. 1 \in DOMAIN F.entries[d] /\ ~(1 > 1)
      BY <1>2, <1>6
    <2> QED
      BY <1>3, <2>1
  <1>7. i + 1 \in DOMAIN F.entries[d] => i + 1 <= Len(F.entries[d])
    BY <1>2
  <1> QED
    BY <1>3, <1>4, <1>5, <1>6, <1>7

LEMMA PairInit == ASSUME Init PROVE PairInv
  BY DEF Init, PairInv, Halfway, Reading

LEMMA PairNextEntry ==
  ASSUME StepInv, PairInv, TagsInOrder(F), Reading, FinishEntry,
         PlainEntry \/ SetMake \/ SetModel \/ SetThumbnailOffset \/ SetThumbnailLength
  PROVE  PairInv'
  <1>1. /\ Top'.dir = Top.dir /\ Top'.i = Top.i + 1 /\ pc' = "entry" /\ F' = F
        /\ Top.dir \in Dir /\ Top.i \in Nat \ {0}
    BY NextEntry
  <1>2. Here = Current(Top)
    BY ReadingFacts
  <1>3. Current(Top)' = F.entries[Top.dir][Top.i + 1]
    BY <1>1 DEF Current
  <1>4. Halfway' <=> /\ Top.i + 1 <= Len(F.entries[Top.dir])
                     /\ F.entries[Top.dir][Top.i + 1].kind = "thumbLength"
    BY <1>1, <1>3 DEF Halfway, Reading
  <1>5. Halfway' <=> Here.kind = "thumbOffset"
    BY <1>1, <1>2, <1>4, Neighbours DEF Current, Reading
  <1>6. CASE SetThumbnailOffset
    BY <1>1, <1>5, <1>6 DEF SetThumbnailOffset, PairInv, Halfway
  <1>7. CASE SetThumbnailLength
    <2>1. Here.kind = "thumbLength" /\ thumbLen' = Top.dir /\ thumbOff' = thumbOff
      BY <1>7 DEF SetThumbnailLength
    <2>2. thumbOff = Top.dir
      BY <1>2, <2>1 DEF PairInv, Halfway
    <2>3. ~Halfway'
      BY <1>5, <2>1
    <2> QED
      BY <2>1, <2>2, <2>3 DEF PairInv, Halfway
  <1>8. CASE PlainEntry \/ SetMake \/ SetModel
    <2>1. /\ Here.kind \notin {"thumbOffset", "thumbLength"}
          /\ UNCHANGED <<thumbOff, thumbLen>>
      BY <1>8 DEF PlainEntry, NotFollowed, SetMake, SetModel
    <2>2. ~Halfway' /\ ~Halfway
      BY <1>2, <1>5, <2>1 DEF Halfway
    <2> QED
      BY <2>1, <2>2 DEF PairInv, Halfway
  <1> QED
    BY <1>6, <1>7, <1>8

LEMMA PairStep ==
  ASSUME StepInv, PairInv, TagsInOrder(F), [Next]_vars
  PROVE  PairInv'
  <1>1. CASE PlainEntry \/ SetMake \/ SetModel \/ SetThumbnailOffset \/ SetThumbnailLength
    BY <1>1, PairNextEntry
       DEF PlainEntry, SetMake, SetModel, SetThumbnailOffset, SetThumbnailLength
  <1>2. CASE Enter
    <2>1. ~Halfway /\ UNCHANGED <<thumbOff, thumbLen, stack, file>> /\ pc \in Running
      BY <1>2 DEF Enter, Halfway, Reading, globals, Running
    <2>2. Top' = Top /\ F' = F /\ Top.i = 1 /\ Top.dir \in Dir
      BY <1>2, <2>1, TopFacts DEF Enter, Top, F, StepInv, EnterInv, Frame
    <2>3. ~Halfway'
      BY <2>2, Neighbours DEF Halfway, Reading, Current
    <2> QED
      BY <2>1, <2>3 DEF PairInv, Halfway
  <1>3. CASE ResumeEntry
    <2>1. ~Halfway /\ UNCHANGED <<thumbOff, thumbLen>> /\ Suspended(Top)
      BY <1>3, ResumeFacts DEF ResumeEntry, Halfway, Reading, globals
    <2>2. /\ Top'.dir = Top.dir /\ Top'.i = Top.i + 1 /\ F' = F
          /\ Top.dir \in Dir /\ Top.i \in Nat \ {0}
      BY <1>3, NextEntry
    <2>3. F.entries[Top.dir][Top.i].kind # "thumbOffset"
      BY <2>1 DEF Suspended, Current
    <2>4. ~Halfway'
      BY <2>2, <2>3, Neighbours DEF Halfway, Reading, Current
    <2> QED
      BY <2>1, <2>4 DEF PairInv, Halfway
  <1>4. CASE \/ BeginSubIfds \/ NextSubIfd \/ CallSubIfd \/ CallExif \/ CallMakerNote
             \/ CallThumbIfd \/ Return \/ EmptyIfd \/ BadMakerHeader \/ NullText
    <2>1. pc' # "entry" /\ UNCHANGED <<thumbOff, thumbLen>>
      BY <1>4 DEF BeginSubIfds, NextSubIfd, CallSubIfd, CallExif, CallMakerNote,
             CallThumbIfd, Return, EmptyIfd, BadMakerHeader, NullText, Call, globals
    <2>2. ~Halfway
      <3>1. Reading => Here = Current(Top)
        BY ReadingFacts
      <3>2. ~Reading \/ Here.kind # "thumbLength"
        <4>1. CASE Return
          <5>1. pc \in Running
            BY <4>1 DEF Return, Running
          <5>2. Len(F.entries[Top.dir]) \in Nat /\ Top.i \in Nat
            BY <5>1, TopFacts DEF Frame
          <5> QED
            BY <4>1, <5>2 DEF Return, Reading
        <4>2. CASE ~Return
          BY <1>4, <4>2 DEF BeginSubIfds, NextSubIfd, CallSubIfd, CallExif, CallMakerNote,
                 CallThumbIfd, EmptyIfd, BadMakerHeader, NullText, Reading
        <4> QED
          BY <4>1, <4>2
      <3> QED
        BY <3>1, <3>2 DEF Halfway
    <2> QED
      BY <2>1, <2>2 DEF PairInv, Halfway, Reading
  <1>5. CASE UNCHANGED vars
    BY <1>5 DEF vars, PairInv, Halfway, Reading, Current, Top, F
  <1> QED
    BY <1>1, <1>2, <1>3, <1>4, <1>5, StackSteps DEF Within

-----------------------------------------------------------------------------
(* The make. *)

LEMMA CameraInit ==
  ASSUME Init, StartTexts \cap NikonMakes = {}
  PROVE  CameraInv
  <1>1. F.home[F.root] = NoDir
    BY FileFacts DEF Init, WellFormed
  <1>2. Len(stack) = 1 /\ stack[1].dir = F.root /\ stack[1].base = NoDir /\ Len(list) = 0
    BY DEF Init, NewFrame
  <1> QED
    BY <1>1, <1>2, DirAssumption DEF CameraInv, Init

LEMMA FileMakesKept == ASSUME F' = F PROVE FileMakes' = FileMakes
  BY DEF FileMakes

\* A make that is kept is one of the file's own.
LEMMA MakeOwn ==
  ASSUME StepInv, TagsInOrder(F), SetMake
  PROVE  make' \in FileMakes
  <1>1. Reading /\ Here.kind = "make" /\ make' = Here.text
    BY DEF SetMake
  <1>2. /\ Top.dir \in Dir /\ Top.i \in Nat \ {0} /\ Top.i <= Len(F.entries[Top.dir])
        /\ F.entries[Top.dir] \in Seq(Entry)
    BY <1>1, TopFacts DEF Reading, Running, Frame
  <1>3. Here = F.entries[Top.dir][Top.i]
    BY <1>1, ReadingFacts DEF Current
  <1>4. Top.dir = F.root
    BY <1>1, <1>2, <1>3, Neighbours
  <1>5. Top.i \in DOMAIN F.entries[F.root]
    BY <1>2, <1>4
  <1> QED
    BY <1>1, <1>3, <1>4, <1>5 DEF FileMakes

LEMMA CameraStep ==
  ASSUME StepInv, CameraInv, TagsInOrder(F), [Next]_vars
  PROVE  CameraInv'
  <1>1. F' = F
    BY FileKept
  <1> SUFFICES ASSUME OtherCamera
               PROVE  /\ make' \notin NikonMakes
                      /\ \A n \in 1..Len(stack') :
                           stack'[n].base \notin Dir /\ F.home[stack'[n].dir] = NoDir
                      /\ \A n \in 1..Len(list') : list'[n].base \notin Dir
    BY <1>1, FileMakesKept DEF CameraInv, OtherCamera
  <1>2. /\ make \notin NikonMakes
        /\ \A n \in 1..Len(stack) : stack[n].base \notin Dir /\ F.home[stack[n].dir] = NoDir
        /\ \A n \in 1..Len(list) : list[n].base \notin Dir
    BY DEF CameraInv
  <1>3. stack \in Seq(Frame) /\ Len(stack) \in Nat
    BY DEF StepInv, TypeOK
  <1>4. make' \notin NikonMakes
    <2>1. CASE SetMake
      BY <2>1, MakeOwn DEF OtherCamera
    <2>2. CASE ~SetMake
      <3>1. UNCHANGED make
        BY <2>2, StackSteps
           DEF Within, Enter, PlainEntry, SetModel, SetThumbnailOffset, SetThumbnailLength,
               BeginSubIfds, NextSubIfd, ResumeEntry, CallSubIfd, CallExif, CallMakerNote,
               CallThumbIfd, Return, EmptyIfd, BadMakerHeader, NullText, globals, vars
      <3> QED
        BY <1>2, <3>1
    <2> QED
      BY <2>1, <2>2
  <1>5. \A n \in 1..Len(list') : list'[n].base \notin Dir
    <2>1. CASE Enter
      <3> DEFINE node == [dir |-> Top.dir, base |-> Top.base, order |-> motorola]
                 S == [dir : Dir, base : Dir \cup {NoDir, Zero}, order : ByteOrder]
      <3>1. list \in Seq(S) /\ list' = Append(list, node)
        BY <2>1 DEF Enter, StepInv, TypeOK
      <3>2. pc \in Running
        BY <2>1 DEF Enter, Running
      <3>3. Len(stack) \in 1..Len(stack)
        BY <3>2, TopFacts
      <3>4. node.base \notin Dir
        BY <1>2, <3>3 DEF Top
      <3> HIDE DEF node, S
      <3>5. \A n \in 1..Len(list') : list'[n] = node \/ (n \in 1..Len(list) /\ list'[n] = list[n])
        BY <3>1
      <3> QED
        BY <1>2, <3>4, <3>5
    <2>2. CASE ~Enter
      <3>1. UNCHANGED list
        BY <2>2, StackSteps
           DEF Within, PlainEntry, SetMake, SetModel, SetThumbnailOffset, SetThumbnailLength,
               FinishEntry, BeginSubIfds, NextSubIfd, ResumeEntry, CallSubIfd, CallExif,
               CallMakerNote, CallThumbIfd, Return, EmptyIfd, BadMakerHeader, NullText, vars
      <3> QED
        BY <1>2, <3>1
    <2> QED
      BY <2>1, <2>2
  <1>6. ~CallMakerNote
    BY <1>2 DEF CallMakerNote, IsNikon
  <1>7. \A n \in 1..Len(stack') : stack'[n].base \notin Dir /\ F.home[stack'[n].dir] = NoDir
    <2>1. CASE Within \/ UNCHANGED vars
      <3>1. Kept
        BY <2>1, WithinKept DEF vars, Kept
      <3> QED
        BY <1>2, <3>1 DEF Kept
    <2>2. CASE Return \/ EmptyIfd \/ BadMakerHeader \/ NullText
      <3>1. Popped
        BY <2>2, ReturnPopped
      <3>2. \A n \in 1..Len(stack') : n \in 1..Len(stack)
        BY <1>3, <3>1 DEF Popped
      <3> QED
        BY <1>2, <3>1, <3>2 DEF Popped
    <2>3. CASE CallSubIfd \/ CallExif \/ CallThumbIfd
      <3> DEFINE l == Len(stack)
                 c == stack'[l + 1]
      <3>1. l \in 1..l
        <4>1. pc \in Running
          BY <2>3 DEF CallSubIfd, CallExif, CallThumbIfd, Reading, Running
        <4> QED
          BY <4>1, TopFacts
      <3>2. F.home[Top.dir] = NoDir
        BY <1>2, <3>1 DEF Top
      <3>3. Pushed /\ c.base \notin Dir /\ F.home[c.dir] = NoDir
        BY <1>6, <2>3, <3>2, CallPushed
      <3>4. Len(stack') = l + 1 /\ \A n \in 1..l : /\ stack'[n].dir = stack[n].dir
                                                   /\ stack'[n].base = stack[n].base
        BY <3>3 DEF Pushed
      <3> HIDE DEF l
      <3>5. \A n \in 1..(l + 1) : n \in 1..l \/ stack'[n] = c
        BY <3>1
      <3> HIDE DEF c
      <3> QED
        BY <1>2, <3>3, <3>4, <3>5 DEF l
    <2> QED
      BY <1>6, <2>1, <2>2, <2>3, StackSteps
  <1> QED
    BY <1>4, <1>5, <1>7

\* In a walk that no earlier file has left a Nikon make for.
LEMMA CameraRight == ASSUME StepInv, CameraInv PROVE OnlyNikonMakerNotes
  <1> SUFFICES ASSUME NEW n \in 1..Len(list), list[n].base = list[n].dir
               PROVE  ~OtherCamera
    BY DEF OnlyNikonMakerNotes, OtherCamera
  <1> DEFINE S == [dir : Dir, base : Dir \cup {NoDir, Zero}, order : ByteOrder]
  <1>1. list \in Seq(S)
    BY DEF StepInv, TypeOK
  <1> HIDE DEF S
  <1>2. list[n] \in S
    BY <1>1
  <1>3. list[n].dir \in Dir
    BY <1>2 DEF S
  <1> QED
    BY <1>3 DEF CameraInv

-----------------------------------------------------------------------------
(* Sequences put one after the other. *)

LEMMA Least ==
  ASSUME NEW T \in SUBSET Nat, T # {}
  PROVE  \E m \in T : \A k \in T : m <= k
  <1>1. IsWellFoundedOn(OpToRel(<, Nat), Nat)
    BY NatLessThanWellFounded
  <1>2. PICK m \in T : \A k \in T : ~(<<k, m>> \in OpToRel(<, Nat))
    BY <1>1, WFMin
  <1>3. \A k, l \in Nat : k < l => <<k, l>> \in OpToRel(<, Nat)
    BY DEF OpToRel
  <1>4. m \in Nat /\ \A k \in T : k \in Nat
    OBVIOUS
  <1>5. \A k \in T : ~(k < m)
    BY <1>2, <1>3, <1>4, Zenon
  <1> QED
    BY <1>4, <1>5, SMT

\* The first n of the sequences ss, and the function of FlattenSeq on n sequences.
Cut(ss, n) == [x \in 1..n |-> ss[x]]

Flattens(fl, n, ss) ==
  fl = [i \in 1..n |-> IF i = 1 THEN ss[i] ELSE fl[i - 1] \o ss[i]]

\* A function on 1..n is a sequence.
LEMMA SeqOfFunction ==
  ASSUME NEW S, NEW n \in Nat, NEW s \in [1..n -> S]
  PROVE  s \in Seq(S) /\ Len(s) = n /\ DOMAIN s = 1..n
  OBVIOUS

\* One sequence more.
LEMMA FlattensMore ==
  ASSUME NEW ss, NEW n \in Nat, n > 0, NEW fl, Flattens(fl, n - 1, ss)
  PROVE  \E h : Flattens(h, n, ss)
  <1> DEFINE next == IF n = 1 THEN ss[n] ELSE fl[n - 1] \o ss[n]
             h == [i \in 1..n |-> IF i = n THEN next ELSE fl[i]]
  <1>1. \A i \in 1..n - 1 : h[i] = fl[i]
    OBVIOUS
  <1>2. h[n] = next
    OBVIOUS
  <1>3. \A i \in 1..n - 1 : fl[i] = IF i = 1 THEN ss[i] ELSE fl[i - 1] \o ss[i]
    BY DEF Flattens
  <1>4. ASSUME NEW i \in 1..n
        PROVE  h[i] = IF i = 1 THEN ss[i] ELSE h[i - 1] \o ss[i]
    <2>1. i # 1 => i - 1 \in 1..n - 1
      OBVIOUS
    <2>2. i # 1 => h[i - 1] = fl[i - 1]
      BY <1>1, <2>1
    <2>3. CASE i = n
      BY <2>3, <2>2, <1>2
    <2>4. CASE i # n
      <3>1. i \in 1..n - 1
        BY <2>4
      <3>2. h[i] = fl[i]
        BY <3>1, <1>1
      <3> HIDE DEF h
      <3> QED
        BY <3>1, <3>2, <2>2, <1>3, Zenon
    <2> QED
      BY <2>3, <2>4
  <1>5. h = [i \in 1..n |-> h[i]]
    OBVIOUS
  <1> HIDE DEF h
  <1>6. Flattens(h, n, ss)
    BY <1>4, <1>5 DEF Flattens
  <1> QED
    BY <1>6

\* The function that FlattenSeq chooses exists, for any number of sequences.
LEMMA FlattensExists ==
  ASSUME NEW ss, NEW n \in Nat
  PROVE  \E fl : Flattens(fl, n, ss)
  <1> DEFINE T == {m \in Nat : ~\E fl : Flattens(fl, m, ss)}
  <1> SUFFICES ASSUME T # {} PROVE FALSE
    OBVIOUS
  <1>1. PICK m \in T : \A k \in T : m <= k
    BY Least
  <1>2. m # 0
    <2> DEFINE none == [i \in {} |-> 0]
    <2>1. none = [i \in 1..0 |-> IF i = 1 THEN ss[i] ELSE none[i - 1] \o ss[i]]
      OBVIOUS
    <2>2. Flattens(none, 0, ss)
      BY <2>1 DEF Flattens
    <2> QED
      BY <1>1, <2>2
  <1>3. m - 1 \in Nat /\ m \in Nat /\ m > 0 /\ m - 1 \notin T
    BY <1>1, <1>2
  <1>4. PICK fl : Flattens(fl, m - 1, ss)
    BY <1>3
  <1>5. \E h : Flattens(h, m, ss)
    BY <1>3, <1>4, FlattensMore
  <1> QED
    BY <1>1, <1>5

\* FlattenSeq is what its function gives for the last sequence.
LEMMA FlattenIs ==
  ASSUME NEW S, NEW n \in Nat \ {0}, NEW ss \in [1..n -> Seq(S)]
  PROVE  \E fl : Flattens(fl, n, ss) /\ FlattenSeq(ss) = fl[n]
  <1> DEFINE Is(fl) == fl = [i \in 1..Len(ss) |-> IF i = 1 THEN ss[i] ELSE fl[i - 1] \o ss[i]]
             it == CHOOSE fl : Is(fl)
  <1>1. Len(ss) = n
    BY SeqOfFunction
  <1>2. PICK fl : Flattens(fl, n, ss)
    BY FlattensExists
  <1>3. Is(fl)
    BY <1>1, <1>2 DEF Flattens
  <1>4. Is(it)
    BY <1>3, Zenon
  <1>5. Len(ss) # 0
    BY <1>1
  <1>6. FlattenSeq(ss) = it[Len(ss)]
    BY <1>5, Zenon DEF FlattenSeq
  <1> HIDE DEF it
  <1>7. Flattens(it, n, ss)
    BY <1>1, <1>4 DEF Flattens
  <1> QED
    BY <1>1, <1>6, <1>7

\* No sequences, nothing listed.
LEMMA FlattenNone ==
  ASSUME NEW ss, NEW n, n = 0
  PROVE  FlattenSeq(Cut(ss, n)) = <<>>
  <1>1. Cut(ss, n) = <<>>
    BY DEF Cut
  <1> QED
    BY <1>1 DEF FlattenSeq

\* Two functions of the same sequences agree as far as both go.
LEMMA FlattensSame ==
  ASSUME NEW ss, NEW n \in Nat, NEW f, Flattens(f, n, ss), NEW m \in Nat, m <= n,
         NEW g, Flattens(g, m, Cut(ss, m))
  PROVE  \A i \in 1..m : g[i] = f[i]
  <1>1. \A i \in 1..n : f[i] = IF i = 1 THEN ss[i] ELSE f[i - 1] \o ss[i]
    BY DEF Flattens
  <1>2. \A i \in 1..m : g[i] = IF i = 1 THEN ss[i] ELSE g[i - 1] \o ss[i]
    BY DEF Flattens, Cut
  <1> DEFINE T == {i \in 1..m : g[i] # f[i]}
  <1>3. ASSUME T # {} PROVE FALSE
    <2>1. T \in SUBSET Nat
      OBVIOUS
    <2>2. PICK i \in T : \A k \in T : i <= k
      BY <1>3, <2>1, Least
    <2>3. i \in 1..m /\ i \in 1..n /\ (i # 1 => i - 1 \in 1..m /\ i - 1 \notin T)
      BY <2>2
    <2>4. i # 1 => g[i - 1] = f[i - 1]
      BY <2>3
    <2>5. g[i] # f[i]
      BY <2>2
    <2> HIDE DEF T
    <2> QED
      BY <1>1, <1>2, <2>3, <2>4, <2>5, Zenon
  <1> QED
    BY <1>3

\* The first n of the sequences have their types.
LEMMA CutType ==
  ASSUME NEW S, NEW n \in Nat, NEW ss \in [1..n -> S], NEW m \in Nat, m <= n
  PROVE  Cut(ss, m) \in [1..m -> S]
  BY DEF Cut

\* All of the sequences.
LEMMA CutAll ==
  ASSUME NEW S, NEW n \in Nat, NEW ss \in [1..n -> S]
  PROVE  Cut(ss, n) = ss
  BY DEF Cut

\* One sequence more is put at the end.
LEMMA FlattenStep ==
  ASSUME NEW S, NEW n \in Nat, NEW ss \in [1..n -> Seq(S)], NEW m \in Nat \ {0}, m <= n
  PROVE  FlattenSeq(Cut(ss, m)) = FlattenSeq(Cut(ss, m - 1)) \o ss[m]
  <1>1. Cut(ss, m) \in [1..m -> Seq(S)] /\ ss[m] \in Seq(S) /\ m - 1 \in Nat /\ m - 1 <= n
    BY CutType
  <1>2. PICK f : Flattens(f, m, Cut(ss, m)) /\ FlattenSeq(Cut(ss, m)) = f[m]
    BY <1>1, FlattenIs
  <1>3. \A i \in 1..m : f[i] = IF i = 1 THEN ss[i] ELSE f[i - 1] \o ss[i]
    BY <1>2 DEF Flattens, Cut
  <1>4. CASE m = 1
    <2>1. FlattenSeq(Cut(ss, m - 1)) = <<>>
      BY <1>4, FlattenNone
    <2>2. f[m] = ss[m]
      BY <1>3, <1>4
    <2>3. <<>> \o ss[m] = ss[m]
      BY <1>1, ConcatEmptySeq
    <2> QED
      BY <1>2, <2>1, <2>2, <2>3
  <1>5. CASE m # 1
    <2> DEFINE l == m - 1
    <2>1. l \in Nat \ {0} /\ l <= m /\ l <= n /\ m \in Nat
      BY <1>5
    <2>2. Cut(ss, l) \in [1..l -> Seq(S)]
      BY <2>1, CutType
    <2>3. PICK g : Flattens(g, l, Cut(ss, l)) /\ FlattenSeq(Cut(ss, l)) = g[l]
      BY <2>1, <2>2, FlattenIs
    <2>4. Cut(Cut(ss, m), l) = Cut(ss, l)
      BY <2>1 DEF Cut
    <2>5. g[l] = f[l]
      <3>1. Flattens(g, l, Cut(Cut(ss, m), l))
        BY <2>3, <2>4
      <3>2. l \in 1..l
        BY <2>1
      <3> HIDE DEF l
      <3> QED
        BY <1>2, <2>1, <3>1, <3>2, FlattensSame
    <2>6. f[m] = f[l] \o ss[m]
      <3>1. m \in 1..m
        BY <2>1
      <3> HIDE DEF l
      <3> QED
        BY <1>3, <1>5, <3>1, Zenon DEF l
    <2> QED
      BY <1>2, <2>3, <2>5, <2>6
  <1> QED
    BY <1>4, <1>5

\* What the first m sequences give has its type, and is where it was when there are
\* more sequences.
LEMMA FlattenType ==
  ASSUME NEW S, NEW n \in Nat, NEW ss \in [1..n -> Seq(S)], NEW m \in Nat, m <= n
  PROVE  FlattenSeq(Cut(ss, m)) \in Seq(S)
  <1> DEFINE T == {k \in Nat : k <= n /\ FlattenSeq(Cut(ss, k)) \notin Seq(S)}
  <1> SUFFICES ASSUME T # {} PROVE FALSE
    OBVIOUS
  <1>1. PICK k \in T : \A j \in T : k <= j
    BY Least
  <1>2. k # 0
    <2>1. <<>> \in Seq(S)
      OBVIOUS
    <2> QED
      BY <1>1, <2>1, FlattenNone
  <1>3. /\ k \in Nat \ {0} /\ k <= n /\ k - 1 \in Nat /\ k - 1 <= n /\ k - 1 \notin T
        /\ FlattenSeq(Cut(ss, k)) \notin Seq(S)
    BY <1>1, <1>2
  <1>4. FlattenSeq(Cut(ss, k - 1)) \in Seq(S) /\ ss[k] \in Seq(S)
    BY <1>3
  <1>5. FlattenSeq(Cut(ss, k)) = FlattenSeq(Cut(ss, k - 1)) \o ss[k]
    BY <1>3, FlattenStep
  <1> QED
    BY <1>3, <1>4, <1>5, ConcatProperties

Starts(s, t) == Len(s) <= Len(t) /\ \A x \in 1..Len(s) : t[x] = s[x]

\* A sequence is a beginning of itself with another one appended.
LEMMA StartsMore ==
  ASSUME NEW S, NEW p \in Seq(S), NEW q \in Seq(S), NEW r \in Seq(S), Starts(p, q)
  PROVE  Starts(p, q \o r)
  <1>1. /\ Len(q \o r) = Len(q) + Len(r)
        /\ \A x \in 1..Len(q) + Len(r) : x <= Len(q) => (q \o r)[x] = q[x]
    BY ConcatProperties
  <1>2. Len(p) \in Nat /\ Len(q) \in Nat /\ Len(r) \in Nat /\ Len(p) <= Len(q)
    BY DEF Starts
  <1>3. ASSUME NEW x \in 1..Len(p)
        PROVE  (q \o r)[x] = p[x]
    <2>1. x \in 1..Len(q) + Len(r) /\ x <= Len(q)
      BY <1>2
    <2> QED
      BY <1>1, <2>1 DEF Starts
  <1> QED
    BY <1>1, <1>2, <1>3 DEF Starts

\* The first m sequences make the beginning of what all of them make.
LEMMA FlattenStarts ==
  ASSUME NEW S, NEW n \in Nat, NEW ss \in [1..n -> Seq(S)], NEW m \in Nat, m <= n
  PROVE  Starts(FlattenSeq(Cut(ss, m)), FlattenSeq(ss))
  <1> DEFINE all(k) == FlattenSeq(Cut(ss, k))
             T == {k \in Nat : m <= k /\ k <= n /\ ~Starts(all(m), all(k))}
  <1>1. ASSUME T # {} PROVE FALSE
    <2>1. PICK k \in T : \A j \in T : k <= j
      BY <1>1, Least
    <2>2. k \in Nat /\ m <= k /\ k <= n /\ ~Starts(all(m), all(k))
      BY <2>1
    <2>3. k # m
      <3>1. all(m) \in Seq(S)
        BY FlattenType
      <3>2. Starts(all(m), all(m))
        BY <3>1 DEF Starts
      <3> HIDE DEF all
      <3> QED
        BY <2>2, <3>2
    <2>4. k \in Nat \ {0} /\ k - 1 \in Nat /\ m <= k - 1 /\ k - 1 <= n
      BY <2>2, <2>3
    <2>5. Starts(all(m), all(k - 1))
      BY <2>1, <2>4
    <2>6. all(k) = all(k - 1) \o ss[k]
      BY <2>2, <2>4, FlattenStep
    <2>7. all(m) \in Seq(S) /\ all(k - 1) \in Seq(S) /\ ss[k] \in Seq(S)
      BY <2>2, <2>4, FlattenType
    <2> HIDE DEF all, T
    <2>8. Starts(all(m), all(k))
      BY <2>5, <2>6, <2>7, StartsMore
    <2> QED
      BY <2>2, <2>8
  <1>2. Starts(all(m), all(n))
    BY <1>1
  <1> QED
    BY <1>2, CutAll

\* The sequence s is in t, after the first a elements.
Part(t, a, s) == a + Len(s) <= Len(t) /\ \A x \in 1..Len(s) : t[a + x] = s[x]

\* How many elements the first m sequences have.
Upto(ss, m) == Len(FlattenSeq(Cut(ss, m)))

\* The sequence after the first m - 1 is found where they end.
LEMMA FlattenPart ==
  ASSUME NEW S, NEW n \in Nat, NEW ss \in [1..n -> Seq(S)], NEW m \in Nat \ {0}, m <= n
  PROVE  /\ Upto(ss, m - 1) \in Nat
         /\ Upto(ss, m) = Upto(ss, m - 1) + Len(ss[m])
         /\ Part(FlattenSeq(ss), Upto(ss, m - 1), ss[m])
  <1> DEFINE p == FlattenSeq(Cut(ss, m - 1))
             q == FlattenSeq(Cut(ss, m))
             t == FlattenSeq(ss)
  <1>1. q = p \o ss[m]
    BY FlattenStep
  <1>2. p \in Seq(S) /\ q \in Seq(S) /\ ss[m] \in Seq(S)
    BY FlattenType
  <1>3. Starts(q, t)
    BY FlattenStarts
  <1> HIDE DEF p, q, t
  <1>4. /\ Len(q) = Len(p) + Len(ss[m])
        /\ \A x \in 1..Len(p) + Len(ss[m]) :
             q[x] = IF x <= Len(p) THEN p[x] ELSE ss[m][x - Len(p)]
    BY <1>1, <1>2, ConcatProperties
  <1>5. Len(p) \in Nat /\ Len(ss[m]) \in Nat
    BY <1>2
  <1>6. ASSUME NEW x \in 1..Len(ss[m])
        PROVE  t[Len(p) + x] = ss[m][x]
    <2>1. /\ Len(p) + x \in 1..Len(p) + Len(ss[m]) /\ ~(Len(p) + x <= Len(p))
          /\ Len(p) + x - Len(p) = x
      BY <1>5
    <2>2. q[Len(p) + x] = ss[m][x]
      BY <1>4, <2>1
    <2> QED
      BY <1>3, <1>4, <2>1, <2>2 DEF Starts
  <1> QED
    BY <1>3, <1>4, <1>5, <1>6 DEF p, q, t, Starts, Part, Upto

-----------------------------------------------------------------------------
(* The trees of directories exist: tt gives the directories each one leads to. *)

\* NoCycle, for a table of targets.
Grounded(tt) ==
  \A S \in (SUBSET Dir) \ {{}} : \E d \in S : \A j \in 1..Len(tt[d]) : tt[d][j] \notin S

Trees(g, t) == [j \in 1..Len(t) |-> g[t[j]]]
Node(g, t, d) == <<d>> \o FlattenSeq(Trees(g, t))

\* The function g gives the preorder for the directories of A, and A is closed.
Solves(g, A, tt) ==
  /\ A \in SUBSET Dir
  /\ g \in [A -> Seq(Dir)]
  /\ \A d \in A : /\ \A j \in 1..Len(tt[d]) : tt[d][j] \in A
                  /\ g[d] = Node(g, tt[d], d)

\* The tree of a directory depends on the trees of its targets only.
LEMMA NodeSame ==
  ASSUME NEW g, NEW h, NEW t \in Seq(Dir), NEW d, \A j \in 1..Len(t) : g[t[j]] = h[t[j]]
  PROVE  Node(g, t, d) = Node(h, t, d)
  <1>1. Trees(g, t) = Trees(h, t)
    BY DEF Trees
  <1> QED
    BY <1>1 DEF Node

\* A tree is listed as a sequence of directories.
LEMMA NodeType ==
  ASSUME NEW g, NEW t \in Seq(Dir), NEW d \in Dir, \A j \in 1..Len(t) : g[t[j]] \in Seq(Dir)
  PROVE  Node(g, t, d) \in Seq(Dir)
  <1>1. Len(t) \in Nat /\ Trees(g, t) \in [1..Len(t) -> Seq(Dir)]
    BY DEF Trees
  <1>2. FlattenSeq(Trees(g, t)) \in Seq(Dir)
    <2>1. Cut(Trees(g, t), Len(t)) = Trees(g, t)
      BY <1>1, CutAll
    <2>2. FlattenSeq(Cut(Trees(g, t), Len(t))) \in Seq(Dir)
      <3> DEFINE n == Len(t)
                 ss == Trees(g, t)
      <3>1. n \in Nat /\ ss \in [1..n -> Seq(Dir)] /\ n <= n
        BY <1>1
      <3> HIDE DEF n, ss
      <3>2. FlattenSeq(Cut(ss, n)) \in Seq(Dir)
        BY <3>1, FlattenType
      <3> QED
        BY <3>2 DEF n, ss
    <2> QED
      BY <2>1, <2>2
  <1>3. <<d>> \in Seq(Dir)
    OBVIOUS
  <1> DEFINE p == <<d>>
             q == FlattenSeq(Trees(g, t))
  <1>4. Node(g, t, d) = p \o q
    BY DEF Node
  <1> HIDE DEF p, q
  <1>5. p \o q \in Seq(Dir)
    BY <1>2, <1>3, ConcatProperties DEF p, q
  <1> QED
    BY <1>4, <1>5

\* Two functions that give the preorder agree wherever both do.
LEMMA SolvesSame ==
  ASSUME NEW tt \in [Dir -> Seq(Dir)], Grounded(tt),
         NEW g, NEW A, Solves(g, A, tt), NEW h, NEW B, Solves(h, B, tt)
  PROVE  \A d \in A \cap B : g[d] = h[d]
  <1> DEFINE S == {d \in A \cap B : g[d] # h[d]}
  <1>1. ASSUME S # {} PROVE FALSE
    <2>1. S \in (SUBSET Dir) \ {{}}
      BY <1>1 DEF Solves
    <2>2. PICK d \in S : \A j \in 1..Len(tt[d]) : tt[d][j] \notin S
      BY <2>1 DEF Grounded
    <2>3. /\ d \in A /\ d \in B /\ d \in Dir /\ g[d] # h[d] /\ tt[d] \in Seq(Dir)
          /\ g[d] = Node(g, tt[d], d) /\ h[d] = Node(h, tt[d], d)
      BY <2>2 DEF Solves
    <2>4. \A j \in 1..Len(tt[d]) : g[tt[d][j]] = h[tt[d][j]]
      BY <2>2, <2>3 DEF Solves
    <2>5. Node(g, tt[d], d) = Node(h, tt[d], d)
      BY <2>3, <2>4, NodeSame
    <2> QED
      BY <2>3, <2>5
  <1> QED
    BY <1>1

\* Without a cycle there is a function that gives the preorder of every directory:
\* a directory without one, chosen among those that lead to no other, is impossible.
LEMMA TreesExist ==
  ASSUME NEW tt \in [Dir -> Seq(Dir)], Grounded(tt)
  PROVE  \E g : Solves(g, Dir, tt)
  <1> DEFINE Gives(d, v) == \E A \in SUBSET Dir : \E g : Solves(g, A, tt) /\ d \in A /\ v = g[d]
             Known == {d \in Dir : \E v : Gives(d, v)}
             h == [d \in Known |-> CHOOSE v : Gives(d, v)]
  <1>1. ASSUME NEW g, NEW A, Solves(g, A, tt), NEW d \in A
        PROVE  d \in Known /\ h[d] = g[d]
    <2>1. A \in SUBSET Dir /\ d \in Dir
      BY <1>1 DEF Solves
    <2>2. Gives(d, g[d])
      BY <1>1, <2>1
    <2>3. d \in Known
      BY <2>1, <2>2
    <2>4. h[d] = CHOOSE v : Gives(d, v)
      BY <2>3
    <2>5. Gives(d, CHOOSE v : Gives(d, v))
      <3> HIDE DEF Gives
      <3> QED
        BY <2>2, Zenon
    <2>6. Gives(d, h[d])
      <3> HIDE DEF Gives, h
      <3> QED
        BY <2>4, <2>5, Zenon
    <2> HIDE DEF h
    <2>7. PICK B \in SUBSET Dir : \E k : Solves(k, B, tt) /\ d \in B /\ h[d] = k[d]
      BY <2>6
    <2>8. PICK k : Solves(k, B, tt) /\ d \in B /\ h[d] = k[d]
      BY <2>7
    <2>9. g[d] = k[d]
      BY <1>1, <2>8, SolvesSame
    <2> QED
      BY <2>3, <2>8, <2>9
  <1>2. Solves(h, Known, tt)
    <2>1. ASSUME NEW d \in Known
          PROVE  /\ h[d] \in Seq(Dir)
                 /\ \A j \in 1..Len(tt[d]) : tt[d][j] \in Known
                 /\ h[d] = Node(h, tt[d], d)
      <3>1. PICK v : Gives(d, v)
        BY <2>1
      <3>2. PICK A \in SUBSET Dir : \E g : Solves(g, A, tt) /\ d \in A /\ v = g[d]
        BY <3>1
      <3>3. PICK g : Solves(g, A, tt) /\ d \in A
        BY <3>2
      <3> HIDE DEF h, Known
      <3>4. h[d] = g[d]
        BY <1>1, <3>3
      <3>5. /\ \A j \in 1..Len(tt[d]) : tt[d][j] \in A
            /\ g[d] = Node(g, tt[d], d) /\ g[d] \in Seq(Dir) /\ d \in Dir
        BY <3>3 DEF Solves
      <3>6. \A j \in 1..Len(tt[d]) : tt[d][j] \in Known /\ h[tt[d][j]] = g[tt[d][j]]
        BY <1>1, <3>3, <3>5
      <3>7. Node(g, tt[d], d) = Node(h, tt[d], d)
        BY <3>5, <3>6, NodeSame
      <3> QED
        BY <3>4, <3>5, <3>6, <3>7
    <2>2. h \in [Known -> Seq(Dir)]
      BY <2>1
    <2>3. Known \in SUBSET Dir
      OBVIOUS
    <2> HIDE DEF h, Known
    <2> QED
      BY <2>1, <2>2, <2>3 DEF Solves
  <1> HIDE DEF h, Known
  <1>3. ASSUME Dir \ Known # {} PROVE FALSE
    <2>1. PICK d \in Dir \ Known : \A j \in 1..Len(tt[d]) : tt[d][j] \notin Dir \ Known
      <3>1. Dir \ Known \in (SUBSET Dir) \ {{}}
        BY <1>3
      <3> QED
        BY <3>1 DEF Grounded
    <2>2. d \in Dir /\ d \notin Known /\ tt[d] \in Seq(Dir)
      BY <2>1
    <2>3. \A j \in 1..Len(tt[d]) : tt[d][j] \in Known
      BY <2>1, <2>2
    <2> DEFINE A == Known \cup {d}
               k == [c \in A |-> IF c = d THEN Node(h, tt[d], d) ELSE h[c]]
    <2>4. \A c \in Known : k[c] = h[c]
      BY <2>2
    <2>5. k[d] = Node(h, tt[d], d)
      OBVIOUS
    <2>6. Node(h, tt[d], d) \in Seq(Dir)
      <3>1. \A j \in 1..Len(tt[d]) : h[tt[d][j]] \in Seq(Dir)
        BY <1>2, <2>3 DEF Solves
      <3> QED
        BY <2>2, <3>1, NodeType
    <2>7. k \in [A -> Seq(Dir)]
      <3>1. \A c \in Known : h[c] \in Seq(Dir)
        BY <1>2 DEF Solves
      <3> QED
        BY <2>6, <3>1
    <2> HIDE DEF k
    <2>8. ASSUME NEW c \in A
          PROVE  (\A j \in 1..Len(tt[c]) : tt[c][j] \in A) /\ k[c] = Node(k, tt[c], c)
      <3>1. /\ \A j \in 1..Len(tt[c]) : tt[c][j] \in Known
            /\ k[c] = Node(h, tt[c], c) /\ tt[c] \in Seq(Dir)
        <4>1. CASE c = d
          BY <2>2, <2>3, <2>5, <4>1
        <4>2. CASE c # d
          BY <1>2, <2>4, <4>2 DEF Solves
        <4> QED
          BY <4>1, <4>2
      <3>2. \A j \in 1..Len(tt[c]) : k[tt[c][j]] = h[tt[c][j]]
        BY <2>4, <3>1
      <3>3. Node(k, tt[c], c) = Node(h, tt[c], c)
        <4>1. PICK t : t = tt[c]
          OBVIOUS
        <4>2. t \in Seq(Dir) /\ \A j \in 1..Len(t) : k[t[j]] = h[t[j]]
          BY <3>1, <3>2, <4>1
        <4>3. \A a, b : (\A j \in 1..Len(t) : a[t[j]] = b[t[j]]) => Node(a, t, c) = Node(b, t, c)
          BY ONLY <4>2, NodeSame
        <4>4. Node(k, t, c) = Node(h, t, c)
          BY <4>2, <4>3, Zenon
        <4> QED
          BY <4>1, <4>4
      <3> QED
        BY <3>1, <3>3
    <2>9. A \in SUBSET Dir
      BY <1>2, <2>2 DEF Solves
    <2>10. Solves(k, A, tt)
      BY <2>7, <2>8, <2>9 DEF Solves
    <2>11. d \in Known
      BY <1>1, <2>10
    <2> QED
      BY <2>2, <2>11
  <1>4. Known = Dir
    BY <1>2, <1>3 DEF Solves
  <1> QED
    BY <1>2, <1>4

\* Every element comes from one of the sequences.
LEMMA FlattenFrom ==
  ASSUME NEW S, NEW n \in Nat, NEW ss \in [1..n -> Seq(S)], NEW x \in 1..Len(FlattenSeq(ss))
  PROVE  \E m \in 1..n : \E k \in 1..Len(ss[m]) : FlattenSeq(ss)[x] = ss[m][k]
  <1> DEFINE len(k) == Upto(ss, k)
             T == {k \in Nat : k <= n /\ x <= len(k)}
  <1>1. Cut(ss, n) = ss
    BY CutAll
  <1>2. n \in T
    BY <1>1 DEF Upto
  <1>3. PICK m \in T : \A k \in T : m <= k
    BY <1>2, Least
  <1>4. m # 0
    <2>1. len(0) = 0
      BY FlattenNone DEF Upto
    <2> QED
      BY <1>3, <2>1
  <1>5. m \in Nat \ {0} /\ m <= n /\ x <= len(m) /\ m - 1 \in Nat /\ m - 1 \notin T
    BY <1>3, <1>4
  <1>6. ~(x <= len(m - 1))
    BY <1>5
  <1> HIDE DEF T
  <1>7. /\ Upto(ss, m - 1) \in Nat /\ Upto(ss, m) = Upto(ss, m - 1) + Len(ss[m])
        /\ Part(FlattenSeq(ss), Upto(ss, m - 1), ss[m])
    BY <1>5, FlattenPart
  <1>8. m \in 1..n /\ Len(ss[m]) \in Nat
    BY <1>5
  <1> DEFINE a == Upto(ss, m - 1)
  <1>9. x - a \in 1..Len(ss[m]) /\ a + (x - a) = x
    <2>1. x \in Nat
      OBVIOUS
    <2>2. a \in Nat /\ Upto(ss, m) = a + Len(ss[m]) /\ ~(x <= a) /\ x <= Upto(ss, m)
      BY <1>5, <1>6, <1>7
    <2> HIDE DEF a
    <2> QED
      BY <1>8, <2>1, <2>2
  <1> HIDE DEF a
  <1>10. FlattenSeq(ss)[a + (x - a)] = ss[m][x - a]
    BY <1>7, <1>9 DEF Part, a
  <1> QED
    BY <1>8, <1>9, <1>10

-----------------------------------------------------------------------------
(* The trees of a file. *)

Kids(f, d, mk, md) == [i \in 1..Len(f.entries[d]) |-> Followed(f.entries[d][i], mk, md)]
TargetTable(f, mk, md) == [d \in Dir |-> Targets(f, d, mk, md)]

\* An entry is followed to all of its directories or to none.
LEMMA FollowedType ==
  ASSUME NEW e \in Entry, NEW mk, NEW md
  PROVE  /\ Followed(e, mk, md) \in Seq(Dir)
         /\ Followed(e, mk, md) = <<>> \/ (Followed(e, mk, md) = e.to /\ e.kind \in Links)
  BY DEF Followed, Entry, Links

\* Entries have their type.
LEMMA EntryType ==
  ASSUME NEW f \in File, NEW d \in Dir, NEW i \in Nat \ {0}, i <= Len(f.entries[d])
  PROVE  f.entries[d][i] \in Entry
  <1>1. f.entries[d] \in Seq(Entry)
    BY DEF File
  <1> QED
    BY <1>1

\* What the entries of a directory lead to, one sequence per entry.
LEMMA KidsType ==
  ASSUME NEW f \in File, NEW d \in Dir, NEW mk, NEW md
  PROVE  /\ Len(f.entries[d]) \in Nat
         /\ \A i \in 1..Len(f.entries[d]) : f.entries[d][i] \in Entry
         /\ DOMAIN f.entries[d] = 1..Len(f.entries[d])
         /\ Kids(f, d, mk, md) \in [1..Len(f.entries[d]) -> Seq(Dir)]
         /\ Targets(f, d, mk, md) = FlattenSeq(Kids(f, d, mk, md))
         /\ Targets(f, d, mk, md) \in Seq(Dir)
  <1>1. f.entries[d] \in Seq(Entry)
    BY DEF File
  <1>2. /\ Len(f.entries[d]) \in Nat /\ DOMAIN f.entries[d] = 1..Len(f.entries[d])
        /\ \A i \in 1..Len(f.entries[d]) : f.entries[d][i] \in Entry
    BY <1>1
  <1>3. \A i \in 1..Len(f.entries[d]) : Followed(f.entries[d][i], mk, md) \in Seq(Dir)
    BY <1>2, FollowedType
  <1>4. Kids(f, d, mk, md) \in [1..Len(f.entries[d]) -> Seq(Dir)]
    BY <1>3 DEF Kids
  <1>5. Targets(f, d, mk, md) = FlattenSeq(Kids(f, d, mk, md))
    BY DEF Targets, Kids
  <1>6. FlattenSeq(Kids(f, d, mk, md)) \in Seq(Dir)
    <2> DEFINE n == Len(f.entries[d])
               ss == Kids(f, d, mk, md)
    <2>1. n \in Nat /\ ss \in [1..n -> Seq(Dir)] /\ n <= n
      BY <1>2, <1>4
    <2> HIDE DEF n, ss
    <2>2. FlattenSeq(Cut(ss, n)) \in Seq(Dir) /\ Cut(ss, n) = ss
      BY <2>1, FlattenType, CutAll
    <2>3. FlattenSeq(ss) \in Seq(Dir)
      BY <2>2
    <2> QED
      BY <2>3 DEF ss
  <1> QED
    BY <1>2, <1>4, <1>5, <1>6

\* A file without a cycle has a table of targets without one.
LEMMA GroundedFile ==
  ASSUME NEW f \in File, NoCycle(f), NEW mk, NEW md
  PROVE  Grounded(TargetTable(f, mk, md)) /\ TargetTable(f, mk, md) \in [Dir -> Seq(Dir)]
  <1> DEFINE tt == TargetTable(f, mk, md)
  <1>1. \A d \in Dir : tt[d] = Targets(f, d, mk, md) /\ Targets(f, d, mk, md) \in Seq(Dir)
    BY KidsType DEF TargetTable
  <1>2. tt \in [Dir -> Seq(Dir)]
    BY <1>1 DEF TargetTable
  <1>3. ASSUME NEW S \in (SUBSET Dir) \ {{}}
        PROVE  \E d \in S : \A j \in 1..Len(tt[d]) : tt[d][j] \notin S
    <2>1. PICK d \in S : \A i \in DOMAIN f.entries[d] :
                 f.entries[d][i].kind \in Links =>
                   \A k \in DOMAIN f.entries[d][i].to : f.entries[d][i].to[k] \notin S
      BY <1>3 DEF NoCycle
    <2>2. d \in Dir
      OBVIOUS
    <2> DEFINE n == Len(f.entries[d])
               ss == Kids(f, d, mk, md)
    <2>3. n \in Nat /\ ss \in [1..n -> Seq(Dir)] /\ tt[d] = FlattenSeq(ss)
      BY <1>1, <2>2, KidsType
    <2>4. ASSUME NEW i \in 1..n, NEW k \in 1..Len(ss[i])
          PROVE  ss[i][k] \notin S
      <3>1. f.entries[d][i] \in Entry /\ i \in DOMAIN f.entries[d]
        BY <2>2, KidsType
      <3>2. PICK e : e = f.entries[d][i]
        OBVIOUS
      <3>3. ss[i] = Followed(e, mk, md)
        BY <3>2 DEF Kids
      <3>4. e.to \in Seq(Dir)
        BY <3>1, <3>2 DEF Entry
      <3>5. ss[i] = <<>> \/ (ss[i] = e.to /\ e.kind \in Links)
        BY <3>1, <3>2, <3>3, FollowedType
      <3> HIDE DEF ss, n
      <3>6. ss[i] # <<>>
        BY <2>4
      <3>7. k \in DOMAIN e.to /\ ss[i] = e.to /\ e.kind \in Links
        BY <3>4, <3>5, <3>6, <2>4
      <3> QED
        BY <2>1, <3>1, <3>2, <3>7
    <2> HIDE DEF n, ss, tt
    <2>5. ASSUME NEW j \in 1..Len(tt[d]) PROVE tt[d][j] \notin S
      <3>1. j \in 1..Len(FlattenSeq(ss))
        BY <2>3
      <3>2. \E m \in 1..n : \E k \in 1..Len(ss[m]) : FlattenSeq(ss)[j] = ss[m][k]
        <4>1. n \in Nat /\ ss \in [1..n -> Seq(Dir)]
          BY <2>3
        <4> QED
          BY ONLY <3>1, <4>1, FlattenFrom
      <3>3. tt[d][j] = FlattenSeq(ss)[j]
        BY <2>3
      <3> QED
        BY <2>4, <3>2, <3>3
    <2> QED
      BY <2>5
  <1> QED
    BY <1>2, <1>3 DEF Grounded

\* The function the reference definition chooses solves its equation.
LEMMA PreordersSolve ==
  ASSUME NEW f \in File, NoCycle(f), NEW mk, NEW md
  PROVE  Solves(Preorders(f, mk, md), Dir, TargetTable(f, mk, md))
  <1> DEFINE tt == TargetTable(f, mk, md)
             Is(g) == g = [d \in Dir |-> <<d>> \o FlattenSeq(
                        [j \in 1..Len(Targets(f, d, mk, md)) |-> g[Targets(f, d, mk, md)[j]]])]
             it == CHOOSE g : Is(g)
  <1>1. Grounded(tt) /\ tt \in [Dir -> Seq(Dir)]
    BY GroundedFile
  <1>2. \A d \in Dir : tt[d] = Targets(f, d, mk, md)
    BY DEF TargetTable
  <1>3. ASSUME NEW g, NEW d \in Dir
        PROVE  Node(g, tt[d], d) = <<d>> \o FlattenSeq(
                 [j \in 1..Len(Targets(f, d, mk, md)) |-> g[Targets(f, d, mk, md)[j]]])
    BY <1>2 DEF Node, Trees
  <1>4. PICK g : Solves(g, Dir, tt)
    <2> HIDE DEF tt
    <2> QED
      BY <1>1, TreesExist
  <1> HIDE DEF tt
  <1>5. \A d \in Dir : g[d] = Node(g, tt[d], d)
    BY <1>4 DEF Solves
  <1>6. g = [d \in Dir |-> g[d]]
    BY <1>4 DEF Solves
  <1>7. Is(g)
    BY <1>3, <1>5, <1>6
  <1>8. Is(it)
    BY <1>7, Zenon
  <1>9. Preorders(f, mk, md) = it
    BY Zenon DEF Preorders
  <1> HIDE DEF it
  <1>10. \A d \in Dir : it[d] = Node(it, tt[d], d)
    BY <1>3, <1>8
  <1>11. it = [d \in Dir |-> it[d]]
    BY <1>8
  <1>12. \A d \in Dir : it[d] = g[d]
    <2> DEFINE S == {d \in Dir : it[d] # g[d]}
    <2>1. ASSUME S # {} PROVE FALSE
      <3>1. S \in (SUBSET Dir) \ {{}}
        BY <2>1
      <3>2. PICK d \in S : \A j \in 1..Len(tt[d]) : tt[d][j] \notin S
        BY <1>1, <3>1 DEF Grounded
      <3>3. d \in Dir /\ it[d] # g[d] /\ tt[d] \in Seq(Dir)
        BY <1>1, <3>2
      <3>4. \A j \in 1..Len(tt[d]) : it[tt[d][j]] = g[tt[d][j]]
        BY <3>2, <3>3
      <3>5. Node(it, tt[d], d) = Node(g, tt[d], d)
        BY <3>3, <3>4, NodeSame
      <3> QED
        BY <1>5, <1>10, <3>3, <3>5
    <2> QED
      BY <2>1
  <1>13. it = g
    BY <1>6, <1>11, <1>12
  <1> QED
    BY <1>4, <1>9, <1>13 DEF tt

\* How many directories of the tree below d are listed before the one that entry i
\* leads to after k others.
Off(f, d, mk, md, i, k) ==
  1 + Upto(Trees(Preorders(f, mk, md), Targets(f, d, mk, md)), Upto(Kids(f, d, mk, md), i - 1) + k)

\* A part of q, found in p \o q.
LEMMA PartShift ==
  ASSUME NEW S, NEW p \in Seq(S), NEW q \in Seq(S), NEW a \in Nat, NEW s \in Seq(S),
         Part(q, a, s), NEW l \in Nat, l = Len(p)
  PROVE  Part(p \o q, l + a, s)
  <1>1. /\ Len(p \o q) = l + Len(q)
        /\ \A i \in 1..l + Len(q) : (p \o q)[i] = IF i <= l THEN p[i] ELSE q[i - l]
    BY ConcatProperties
  <1>2. Len(q) \in Nat /\ Len(s) \in Nat /\ a + Len(s) <= Len(q)
    BY DEF Part
  <1>3. ASSUME NEW x \in 1..Len(s)
        PROVE  (p \o q)[l + a + x] = s[x]
    <2>1. /\ l + a + x \in 1..l + Len(q) /\ ~(l + a + x <= l) /\ l + a + x - l = a + x
      BY <1>2
    <2>2. (p \o q)[l + a + x] = q[l + a + x - l]
      BY <1>1, <2>1
    <2> QED
      BY <2>1, <2>2 DEF Part
  <1> QED
    BY <1>1, <1>2, <1>3 DEF Part

\* Nothing is listed before the first sequence, everything up to the last.
LEMMA UptoEnds ==
  ASSUME NEW S, NEW n \in Nat, NEW ss \in [1..n -> Seq(S)]
  PROVE  /\ Upto(ss, 0) = 0
         /\ Upto(ss, n) = Len(FlattenSeq(ss))
         /\ FlattenSeq(ss) \in Seq(S)
         /\ \A m \in 0..n : Upto(ss, m) \in Nat
  <1>1. Cut(ss, n) = ss
    BY CutAll
  <1>2. Upto(ss, 0) = 0
    BY FlattenNone DEF Upto
  <1>3. \A m \in 0..n : FlattenSeq(Cut(ss, m)) \in Seq(S)
    BY FlattenType
  <1>4. \A m \in 0..n : Upto(ss, m) \in Nat
    BY <1>3 DEF Upto
  <1>5. FlattenSeq(Cut(ss, n)) \in Seq(S)
    BY <1>3
  <1> QED
    BY <1>1, <1>2, <1>4, <1>5 DEF Upto

\* The parts a tree is made of.
Made(f, d, mk, md, n, ss, t, tr) ==
  /\ n = Len(f.entries[d]) /\ n \in Nat
  /\ ss = Kids(f, d, mk, md) /\ ss \in [1..n -> Seq(Dir)]
  /\ t = Targets(f, d, mk, md) /\ t \in Seq(Dir) /\ Len(t) \in Nat /\ t = FlattenSeq(ss)
  /\ tr = Trees(Preorders(f, mk, md), t) /\ tr \in [1..Len(t) -> Seq(Dir)]
  /\ Preorders(f, mk, md)[d] = <<d>> \o FlattenSeq(tr)
  /\ FlattenSeq(tr) \in Seq(Dir)
  /\ \A j \in 1..Len(t) : tr[j] = Preorders(f, mk, md)[t[j]]

\* The tree of a directory is the directory and the trees of its targets.
LEMMA TreeMade ==
  ASSUME NEW f \in File, NoCycle(f), NEW mk, NEW md, NEW d \in Dir
  PROVE  \E n, ss, t, tr : Made(f, d, mk, md, n, ss, t, tr)
  <1> DEFINE g == Preorders(f, mk, md)
             tt == TargetTable(f, mk, md)
             n == Len(f.entries[d])
             ss == Kids(f, d, mk, md)
             t == Targets(f, d, mk, md)
             tr == Trees(g, t)
  <1>1. Solves(g, Dir, tt) /\ tt[d] = t
    BY PreordersSolve DEF TargetTable
  <1>2. n \in Nat /\ ss \in [1..n -> Seq(Dir)] /\ t = FlattenSeq(ss) /\ t \in Seq(Dir)
    BY KidsType
  <1>3. g[d] = Node(g, t, d) /\ \A c \in Dir : g[c] \in Seq(Dir)
    BY <1>1 DEF Solves
  <1> HIDE DEF g, t
  <1>4. tr \in [1..Len(t) -> Seq(Dir)] /\ \A j \in 1..Len(t) : tr[j] = g[t[j]]
    BY <1>2, <1>3 DEF Trees
  <1>5. g[d] = <<d>> \o FlattenSeq(tr)
    BY <1>3 DEF Node
  <1>6. Len(t) \in Nat
    BY <1>2
  <1> HIDE DEF tr
  <1>7. FlattenSeq(tr) \in Seq(Dir)
    <2>1. PICK l : l = Len(t)
      OBVIOUS
    <2>2. l \in Nat /\ tr \in [1..l -> Seq(Dir)]
      BY <1>4, <1>6, <2>1
    <2> QED
      BY ONLY <2>2, UptoEnds
  <1>8. Made(f, d, mk, md, n, ss, t, tr)
    BY <1>2, <1>4, <1>5, <1>6, <1>7, Zenon DEF Made, g, t, tr
  <1> QED
    BY <1>8

\* A tree begins with its directory; its entries start behind it and fill the rest.
LEMMA TreeFacts ==
  ASSUME NEW f \in File, NoCycle(f), NEW mk, NEW md, NEW d \in Dir
  PROVE  LET p == Preorders(f, mk, md)[d]
         IN  /\ p \in Seq(Dir) /\ Len(p) \in Nat /\ Len(p) >= 1 /\ p[1] = d
             /\ Off(f, d, mk, md, 1, 0) = 1
             /\ Off(f, d, mk, md, Len(f.entries[d]) + 1, 0) = Len(p)
  <1>1. PICK n, ss, t, tr : Made(f, d, mk, md, n, ss, t, tr)
    BY TreeMade
  <1> DEFINE q == FlattenSeq(tr)
             s == <<d>>
             p == Preorders(f, mk, md)[d]
  <1>2. p = s \o q /\ q \in Seq(Dir) /\ s \in Seq(Dir) /\ Len(s) = 1 /\ s[1] = d
    BY <1>1 DEF Made
  <1>3. PICK l : l = Len(t) /\ l \in Nat
    BY <1>1 DEF Made
  <1>4. n \in Nat /\ ss \in [1..n -> Seq(Dir)] /\ tr \in [1..l -> Seq(Dir)] /\ t = FlattenSeq(ss)
    BY <1>1, <1>3 DEF Made
  <1>5. Upto(ss, 0) = 0 /\ Upto(ss, n) = l
    BY <1>3, <1>4, UptoEnds
  <1>6. Upto(tr, 0) = 0 /\ Upto(tr, l) = Len(q)
    <2>1. l \in Nat /\ tr \in [1..l -> Seq(Dir)]
      BY <1>3, <1>4
    <2> QED
      BY ONLY <2>1, UptoEnds
  <1>7. \A i, k : Off(f, d, mk, md, i, k) = 1 + Upto(tr, Upto(ss, i - 1) + k)
    BY <1>1 DEF Made, Off
  <1> HIDE DEF p, q, s
  <1>8. /\ p \in Seq(Dir) /\ Len(p) = 1 + Len(q)
        /\ \A i \in 1..1 + Len(q) : p[i] = IF i <= 1 THEN s[i] ELSE q[i - 1]
    <2>1. /\ s \o q \in Seq(Dir) /\ Len(s \o q) = Len(s) + Len(q)
          /\ \A i \in 1..Len(s) + Len(q) :
               (s \o q)[i] = IF i <= Len(s) THEN s[i] ELSE q[i - Len(s)]
      BY <1>2, ConcatProperties
    <2> QED
      BY <1>2, <2>1
  <1>9. Len(q) \in Nat
    BY <1>2
  <1>10. 1 \in 1..1 + Len(q)
    BY <1>9
  <1>11. p[1] = d /\ Len(p) \in Nat /\ Len(p) >= 1
    BY <1>2, <1>8, <1>9, <1>10
  <1>12. Off(f, d, mk, md, 1, 0) = 1
    <2>1. 1 - 1 = 0 /\ 0 + 0 = 0 /\ 1 + 0 = 1
      OBVIOUS
    <2>2. Off(f, d, mk, md, 1, 0) = 1 + Upto(tr, Upto(ss, 1 - 1) + 0)
      BY <1>7, Zenon
    <2> QED
      BY <1>5, <1>6, <2>1, <2>2, Zenon
  <1>13. Off(f, d, mk, md, n + 1, 0) = Len(p)
    <2>1. PICK m : m = n + 1
      OBVIOUS
    <2>2. m - 1 = n /\ l + 0 = l
      BY <1>3, <1>4, <2>1
    <2>3. Off(f, d, mk, md, m, 0) = 1 + Upto(tr, Upto(ss, m - 1) + 0)
      BY <1>7, Zenon
    <2>4. Off(f, d, mk, md, m, 0) = 1 + Len(q)
      BY <1>5, <1>6, <2>2, <2>3, Zenon
    <2> QED
      BY <1>8, <2>1, <2>4, Zenon
  <1>14. n = Len(f.entries[d])
    BY <1>1 DEF Made
  <1> QED
    BY <1>8, <1>11, <1>12, <1>13, <1>14 DEF p

\* One entry further: what it leads to is listed.
LEMMA EntryOff ==
  ASSUME NEW f \in File, NoCycle(f), NEW mk, NEW md, NEW d \in Dir,
         NEW i \in Nat \ {0}, i <= Len(f.entries[d])
  PROVE  /\ Off(f, d, mk, md, i, 0) \in Nat
         /\ Off(f, d, mk, md, i + 1, 0)
              = Off(f, d, mk, md, i, Len(Followed(f.entries[d][i], mk, md)))
  <1>1. PICK n, ss, t, tr : Made(f, d, mk, md, n, ss, t, tr)
    BY TreeMade
  <1>2. n \in Nat /\ ss \in [1..n -> Seq(Dir)] /\ i <= n /\ i \in 1..n
    BY <1>1 DEF Made
  <1>3. ss[i] = Followed(f.entries[d][i], mk, md)
    BY <1>1, <1>2 DEF Made, Kids
  <1>4. \A j, k : Off(f, d, mk, md, j, k) = 1 + Upto(tr, Upto(ss, j - 1) + k)
    BY <1>1 DEF Made, Off
  <1>5. Upto(ss, i - 1) \in Nat /\ Upto(ss, i) = Upto(ss, i - 1) + Len(ss[i])
    BY <1>2, FlattenPart
  <1>6. PICK l : l = Len(t) /\ l \in Nat /\ tr \in [1..l -> Seq(Dir)] /\ t = FlattenSeq(ss)
    BY <1>1 DEF Made
  <1>7. Upto(ss, i) <= l /\ Len(ss[i]) \in Nat
    <2>1. Part(FlattenSeq(ss), Upto(ss, i - 1), ss[i])
      BY <1>2, FlattenPart
    <2>2. Len(ss[i]) \in Nat
      BY <1>2
    <2> QED
      BY <1>5, <1>6, <2>1, <2>2 DEF Part
  <1>8. Upto(ss, i - 1) \in 0..l
    BY <1>5, <1>6, <1>7
  <1>9. Upto(tr, Upto(ss, i - 1)) \in Nat
    <2>1. l \in Nat /\ tr \in [1..l -> Seq(Dir)]
      BY <1>6
    <2>2. \A m \in 0..l : Upto(tr, m) \in Nat
      BY ONLY <2>1, UptoEnds
    <2> QED
      BY <1>8, <2>2
  <1>10. i + 1 - 1 = i /\ Upto(ss, i - 1) + 0 = Upto(ss, i - 1) /\ Upto(ss, i) + 0 = Upto(ss, i)
    BY <1>5, <1>7
  <1> QED
    BY <1>3, <1>4, <1>5, <1>9, <1>10

\* The tree of c is in that of d, where the walk stands after k directories of entry i.
ChildAt(f, mk, md, d, i, k, c) ==
  LET g == Preorders(f, mk, md)
  IN  /\ Off(f, d, mk, md, i, k) \in Nat
      /\ Off(f, d, mk, md, i, k + 1) = Off(f, d, mk, md, i, k) + Len(g[c])
      /\ Part(g[d], Off(f, d, mk, md, i, k), g[c])

\* The tree below a directory that an entry leads to is part of the tree.
LEMMA ChildOff ==
  ASSUME NEW f \in File, NoCycle(f), NEW mk, NEW md, NEW d \in Dir,
         NEW i \in Nat \ {0}, i <= Len(f.entries[d]),
         NEW fo, fo = Followed(f.entries[d][i], mk, md), NEW k \in Nat, k + 1 <= Len(fo),
         NEW c, c = fo[k + 1]
  PROVE  ChildAt(f, mk, md, d, i, k, c)
  <1> DEFINE g == Preorders(f, mk, md)
  <1>1. PICK n, ss, t, tr : Made(f, d, mk, md, n, ss, t, tr)
    BY TreeMade
  <1>2. n \in Nat /\ ss \in [1..n -> Seq(Dir)] /\ i <= n /\ i \in 1..n
    BY <1>1 DEF Made
  <1>3. ss[i] = fo
    BY <1>1, <1>2 DEF Made, Kids
  <1>4. \A j, h : Off(f, d, mk, md, j, h) = 1 + Upto(tr, Upto(ss, j - 1) + h)
    BY <1>1 DEF Made, Off
  <1>5. Upto(ss, i - 1) \in Nat /\ Part(FlattenSeq(ss), Upto(ss, i - 1), fo)
    BY <1>2, <1>3, FlattenPart
  <1>6. PICK l : l = Len(t) /\ l \in Nat /\ tr \in [1..l -> Seq(Dir)] /\ t = FlattenSeq(ss)
    BY <1>1 DEF Made
  <1>7. PICK a : a = Upto(ss, i - 1)
    OBVIOUS
  <1>8. PICK j : j = a + (k + 1)
    OBVIOUS
  <1>9. fo \in Seq(Dir) /\ Len(fo) \in Nat /\ k + 1 \in 1..Len(fo) /\ fo[k + 1] \in Dir
    BY <1>2, <1>3
  <1>10. j \in Nat \ {0} /\ j \in 1..l /\ j - 1 = a + k /\ a \in Nat /\ t[j] = fo[k + 1]
    BY <1>5, <1>6, <1>7, <1>8, <1>9 DEF Part
  <1>11. tr[j] = g[fo[k + 1]]
    BY <1>1, <1>6, <1>10 DEF Made
  <1>12. /\ Upto(tr, j - 1) \in Nat /\ Upto(tr, j) = Upto(tr, j - 1) + Len(tr[j])
         /\ Part(FlattenSeq(tr), Upto(tr, j - 1), tr[j])
    <2>1. l \in Nat /\ tr \in [1..l -> Seq(Dir)] /\ j \in Nat \ {0} /\ j <= l
      BY <1>6, <1>10
    <2> QED
      BY ONLY <2>1, FlattenPart
  <1> DEFINE q == FlattenSeq(tr)
             s == <<d>>
  <1>13. g[d] = s \o q /\ q \in Seq(Dir) /\ s \in Seq(Dir) /\ Len(s) = 1
    BY <1>1 DEF Made
  <1>14. tr[j] \in Seq(Dir) /\ Len(tr[j]) \in Nat
    BY <1>6, <1>10
  <1> HIDE DEF g, q, s
  <1>15. Part(q, Upto(tr, j - 1), tr[j])
    BY <1>12 DEF q
  <1>16. Part(s \o q, 1 + Upto(tr, j - 1), tr[j])
    BY ONLY <1>12, <1>13, <1>14, <1>15, PartShift
  <1>17. /\ Off(f, d, mk, md, i, k) = 1 + Upto(tr, j - 1)
         /\ Off(f, d, mk, md, i, k + 1) = 1 + Upto(tr, j)
    BY <1>4, <1>7, <1>8, <1>10
  <1>18. Off(f, d, mk, md, i, k + 1) = Off(f, d, mk, md, i, k) + Len(tr[j])
    <2>1. \A a1, b1, c1 \in Nat : a1 = b1 + c1 => 1 + a1 = (1 + b1) + c1
      OBVIOUS
    <2>2. Upto(tr, j) \in Nat
      BY <1>12, <1>14
    <2>3. 1 + Upto(tr, j) = (1 + Upto(tr, j - 1)) + Len(tr[j])
      BY <1>12, <1>14, <2>1, <2>2
    <2> QED
      BY <1>17, <2>3, Zenon
  <1>19. Part(g[d], Off(f, d, mk, md, i, k), tr[j])
    BY <1>13, <1>16, <1>17
  <1>20. Off(f, d, mk, md, i, k) \in Nat
    BY <1>12, <1>17
  <1> QED
    BY <1>11, <1>18, <1>19, <1>20 DEF g, ChildAt

-----------------------------------------------------------------------------
(* Where the calls stand in the preorder. *)

\* How many directories that the current entry of frame fr leads to are already
\* listed while a call for one of them is active.
Walked(f, fr) == IF f.entries[fr.dir][fr.i].kind = "subIfds" THEN fr.k ELSE 0
Goes(f, fr, mk, md) ==
  Followed(f.entries[fr.dir][fr.i], mk, md) = f.entries[fr.dir][fr.i].to
Place(f, fr, mk, md, k) == Off(f, fr.dir, mk, md, fr.i, k)

\* a[n] directories of the preorder come before the tree of call n.
CallPlaced(a, st, n, f, mk, md) ==
  LET g == Preorders(f, mk, md)
  IN  /\ n = 1 => a[n] = 0 /\ st[n].dir = f.root
      /\ Part(g[f.root], a[n], g[st[n].dir])
      /\ n < Len(st) => /\ Goes(f, st[n], mk, md)
                        /\ a[n + 1] = a[n] + Place(f, st[n], mk, md, Walked(f, st[n]))

Placed(a, st, f, mk, md) ==
  /\ a \in Seq(Nat) /\ Len(a) = Len(st)
  /\ \A n \in 1..Len(st) : CallPlaced(a, st, n, f, mk, md)

\* No call, no place.
LEMMA PlacedNone ==
  ASSUME NEW f, NEW mk, NEW md
  PROVE  Placed(<<>>, <<>>, f, mk, md)
  BY DEF Placed, CallPlaced

\* The innermost call changes its frame but not its directory.
LEMMA PlacedTop ==
  ASSUME NEW f, NEW mk, NEW md, NEW st \in Seq(Frame), NEW a, Placed(a, st, f, mk, md),
         NEW st2 \in Seq(Frame), Len(st2) = Len(st),
         \A n \in 1..Len(st) : n < Len(st) => st2[n] = st[n],
         st # <<>> => st2[Len(st)].dir = st[Len(st)].dir
  PROVE  Placed(a, st2, f, mk, md)
  <1>1. Len(st) \in Nat
    OBVIOUS
  <1>2. ASSUME NEW n \in 1..Len(st) PROVE st2[n].dir = st[n].dir
    <2>1. n < Len(st) \/ n = Len(st)
      BY <1>1
    <2>2. st # <<>>
      BY <1>1, <1>2
    <2> QED
      BY <2>1, <2>2
  <1> QED
    BY <1>1, <1>2 DEF Placed, CallPlaced

\* A part of a part.
LEMMA PartOfPart ==
  ASSUME NEW S, NEW t \in Seq(S), NEW s \in Seq(S), NEW r \in Seq(S), NEW a \in Nat, NEW b \in Nat,
         Part(t, a, s), Part(s, b, r)
  PROVE  Part(t, a + b, r)
  <1>1. Len(t) \in Nat /\ Len(s) \in Nat /\ Len(r) \in Nat
    OBVIOUS
  <1>2. a + Len(s) <= Len(t) /\ b + Len(r) <= Len(s)
    BY DEF Part
  <1>3. ASSUME NEW x \in 1..Len(r)
        PROVE  t[a + b + x] = r[x]
    <2>1. b + x \in 1..Len(s) /\ a + (b + x) = a + b + x
      BY <1>1, <1>2
    <2>2. t[a + (b + x)] = s[b + x]
      BY <2>1 DEF Part
    <2>3. s[b + x] = r[x]
      BY DEF Part
    <2> QED
      BY <2>1, <2>2, <2>3
  <1> QED
    BY <1>1, <1>2, <1>3 DEF Part

\* What is known of a directory that the current entry of frame x leads to.
Leads(f, x, mk, md) ==
  LET e == f.entries[x.dir][x.i]
  IN  /\ x \in Frame /\ x.i <= Len(f.entries[x.dir])
      /\ Followed(e, mk, md) = e.to
      /\ Walked(f, x) + 1 <= Len(e.to)

\* The tree of a directory that the entry of frame x leads to, inside that of x.
LEMMA LeadsTo ==
  ASSUME NEW f \in File, NoCycle(f), NEW mk, NEW md, NEW x, Leads(f, x, mk, md),
         NEW c, c = f.entries[x.dir][x.i].to[Walked(f, x) + 1]
  PROVE  LET g == Preorders(f, mk, md)
         IN  /\ c \in Dir
             /\ Walked(f, x) \in Nat
             /\ Place(f, x, mk, md, Walked(f, x)) \in Nat
             /\ Place(f, x, mk, md, Walked(f, x) + 1)
                  = Place(f, x, mk, md, Walked(f, x)) + Len(g[c])
             /\ Part(g[x.dir], Place(f, x, mk, md, Walked(f, x)), g[c])
             /\ g[x.dir] \in Seq(Dir) /\ g[c] \in Seq(Dir)
  <1>1. x.dir \in Dir /\ x.i \in Nat \ {0} /\ x.k \in Nat /\ x.i <= Len(f.entries[x.dir])
    BY DEF Leads, Frame
  <1>2. PICK k : k = Walked(f, x)
    OBVIOUS
  <1>3. PICK e : e = f.entries[x.dir][x.i]
    OBVIOUS
  <1>4. e \in Entry
    BY <1>1, <1>3, EntryType
  <1>5. k \in Nat
    <2>1. k = IF f.entries[x.dir][x.i].kind = "subIfds" THEN x.k ELSE 0
      BY <1>2 DEF Walked
    <2> QED
      BY <1>1, <2>1
  <1>6. k + 1 <= Len(e.to) /\ e.to = Followed(e, mk, md) /\ c = e.to[k + 1]
    BY <1>2, <1>3 DEF Leads
  <1>7. c \in Dir
    <2>1. e.to \in Seq(Dir)
      BY <1>4 DEF Entry
    <2> QED
      BY <1>5, <1>6, <2>1
  <1> DEFINE g == Preorders(f, mk, md)
  <1>8. PICK fo : fo = Followed(f.entries[x.dir][x.i], mk, md)
    OBVIOUS
  <1>9. fo[k + 1] = c
    BY <1>3, <1>6, <1>8
  <1>10. ChildAt(f, mk, md, x.dir, x.i, k, c)
    <2>1. k + 1 <= Len(fo)
      BY <1>3, <1>6, <1>8
    <2>2. PICK d : d = x.dir
      OBVIOUS
    <2>3. PICK i : i = x.i
      OBVIOUS
    <2>4. d \in Dir /\ i \in Nat \ {0} /\ i <= Len(f.entries[d])
      BY <1>1, <2>2, <2>3
    <2>5. fo = Followed(f.entries[d][i], mk, md)
      BY <1>8, <2>2, <2>3
    <2>6. f \in File /\ NoCycle(f)
      OBVIOUS
    <2>7. ChildAt(f, mk, md, d, i, k, c)
      BY ONLY <1>5, <1>9, <2>1, <2>4, <2>5, <2>6, ChildOff
    <2> QED
      BY <2>2, <2>3, <2>7
  <1>11. g[x.dir] \in Seq(Dir) /\ g[c] \in Seq(Dir)
    BY <1>1, <1>7, TreeFacts
  <1> QED
    BY <1>2, <1>5, <1>7, <1>10, <1>11 DEF Place, ChildAt

\* b agrees with a below n.
Agree(b, a, n) == \A x \in 1..n : x < n => b[x] = a[x]

\* The stack st2 is st with x for its innermost call and a call for directory c on top.
PushOf(st2, st, x, c) ==
  /\ Len(st2) = Len(st) + 1 /\ Agree(st2, st, Len(st))
  /\ st2[Len(st)] = x /\ x.dir = st[Len(st)].dir /\ st2[Len(st) + 1].dir = c

\* The places b of its calls, when those of st have the places a.
PlacedChild(b, a, st2, st, f, x, mk, md) ==
  /\ Placed(b, st2, f, mk, md)
  /\ b[Len(st) + 1] = a[Len(st)] + Place(f, x, mk, md, Walked(f, x))

\* The innermost call suspends itself with frame x and calls for a directory that its
\* entry leads to.
LEMMA PlacedPush ==
  ASSUME NEW f \in File, NoCycle(f), NEW mk, NEW md,
         NEW st \in Seq(Frame), st # <<>>, NEW a, Placed(a, st, f, mk, md),
         NEW st2, NEW x, NEW c, PushOf(st2, st, x, c), Leads(f, x, mk, md),
         c = f.entries[x.dir][x.i].to[Walked(f, x) + 1]
  PROVE  \E b : PlacedChild(b, a, st2, st, f, x, mk, md)
  <1> DEFINE g == Preorders(f, mk, md)
  <1>1. PICK l : l = Len(st) /\ l \in Nat /\ l >= 1
    OBVIOUS
  <1>2. PICK z : z = a[l] + Place(f, x, mk, md, Walked(f, x))
    OBVIOUS
  <1>3. /\ Len(st2) = l + 1 /\ \A n \in 1..l : n < l => st2[n] = st[n]
        /\ st2[l] = x /\ x.dir = st[l].dir /\ st2[l + 1].dir = c
    BY <1>1 DEF PushOf, Agree
  <1>4. PICK w : w = Place(f, x, mk, md, Walked(f, x))
    OBVIOUS
  <1>5. /\ c \in Dir /\ w \in Nat /\ Part(g[x.dir], w, g[c])
        /\ g[x.dir] \in Seq(Dir) /\ g[c] \in Seq(Dir)
    BY <1>4, LeadsTo
  <1>6. a \in Seq(Nat) /\ Len(a) = l /\ a[l] \in Nat /\ Part(g[f.root], a[l], g[x.dir])
    <2>1. l \in 1..Len(st) /\ x.dir = st[l].dir
      BY ONLY <1>1, <1>3
    <2>2. a \in Seq(Nat) /\ Len(a) = Len(st) /\ Part(g[f.root], a[l], g[st[l].dir])
      <3>1. a \in Seq(Nat) /\ Len(a) = Len(st) /\ CallPlaced(a, st, l, f, mk, md)
        BY <2>1, Zenon DEF Placed
      <3> QED
        BY <3>1, Zenon DEF CallPlaced
    <2>3. a[l] \in Nat
      <3>1. a \in Seq(Nat) /\ l \in 1..Len(a)
        BY <2>1, <2>2, Zenon
      <3> QED
        BY ONLY <3>1
    <2> QED
      BY <1>1, <2>1, <2>2, <2>3, Zenon
  <1>7. g[f.root] \in Seq(Dir)
    <2>1. f.root \in Dir
      BY DEF File
    <2> QED
      BY <2>1, TreeFacts
  <1>8. z \in Nat /\ z = a[l] + w
    BY ONLY <1>2, <1>4, <1>5, <1>6
  <1> HIDE DEF g
  <1>9. Part(g[f.root], z, g[c])
    BY <1>5, <1>6, <1>7, <1>8, PartOfPart
  <1> DEFINE b == Append(a, z)
  <1>10. /\ b \in Seq(Nat) /\ Len(b) = l + 1 /\ b[l + 1] = z
         /\ \A n \in 1..l : b[n] = a[n]
    BY ONLY <1>1, <1>6, <1>8
  <1> HIDE DEF b
  <1>11. ASSUME NEW n \in 1..Len(st2)
         PROVE  /\ n = 1 => b[n] = 0 /\ st2[n].dir = f.root
                /\ Part(g[f.root], b[n], g[st2[n].dir])
                /\ n < Len(st2) => /\ Goes(f, st2[n], mk, md)
                                   /\ b[n + 1] = b[n] + Place(f, st2[n], mk, md, Walked(f, st2[n]))
    <2>0. n \in 1..l + 1
      BY <1>3
    <2>1. CASE n < l
      <3>1. n \in 1..l /\ n + 1 \in 1..l /\ st2[n] = st[n] /\ b[n] = a[n] /\ b[n + 1] = a[n + 1]
        BY ONLY <1>1, <1>3, <1>10, <2>1, <2>0
      <3> QED
        <4>1. n \in 1..Len(st) /\ n < Len(st) /\ Len(st2) = l + 1
          BY <1>1, <1>3, <2>1, <3>1
        <4>2. /\ n = 1 => a[n] = 0 /\ st[n].dir = f.root
              /\ Part(g[f.root], a[n], g[st[n].dir])
              /\ Goes(f, st[n], mk, md)
              /\ a[n + 1] = a[n] + Place(f, st[n], mk, md, Walked(f, st[n]))
          <5>1. CallPlaced(a, st, n, f, mk, md)
            BY <4>1, Zenon DEF Placed
          <5> QED
            BY <4>1, <5>1, Zenon DEF CallPlaced, g
        <4> QED
          BY <3>1, <4>2, Zenon
    <2>2. CASE n = l
      <3>1. /\ n \in 1..l /\ st2[n] = x /\ st2[n].dir = st[n].dir
            /\ b[n] = a[n] /\ b[n + 1] = z
        BY ONLY <1>1, <1>3, <1>10, <2>2
      <3>2. Goes(f, x, mk, md)
        BY DEF Leads, Goes
      <3>3. n = 1 => a[n] = 0 /\ st[n].dir = f.root
        <4>1. n \in 1..Len(st)
          BY <1>1, <3>1
        <4>2. CallPlaced(a, st, n, f, mk, md)
          BY <4>1, Zenon DEF Placed
        <4> QED
          BY <4>2, Zenon DEF CallPlaced
      <3>4. Part(g[f.root], a[n], g[st2[n].dir])
        BY <1>3, <1>6, <2>2, <3>1, Zenon
      <3>5. z = a[n] + Place(f, st2[n], mk, md, Walked(f, st2[n]))
        BY <1>2, <2>2, <3>1, Zenon
      <3> QED
        BY <3>1, <3>2, <3>3, <3>4, <3>5, Zenon
    <2>3. CASE n = l + 1
      <3>1. n # 1 /\ ~(n < Len(st2)) /\ b[n] = z /\ st2[n].dir = c
        BY ONLY <1>1, <1>3, <1>10, <2>3
      <3> QED
        BY <1>9, <3>1, Zenon
    <2> QED
      <3>1. n < l \/ n = l \/ n = l + 1
        BY ONLY <1>1, <2>0
      <3> QED
        BY <2>1, <2>2, <2>3, <3>1, Zenon
  <1>12. Placed(b, st2, f, mk, md)
    <2>1. b \in Seq(Nat) /\ Len(b) = Len(st2)
      BY <1>3, <1>10, Zenon
    <2> QED
      BY <1>11, <2>1, Zenon DEF Placed, CallPlaced, g
  <1>13. b[Len(st) + 1] = a[Len(st)] + Place(f, x, mk, md, Walked(f, x))
    BY <1>1, <1>2, <1>10, Zenon
  <1> QED
    BY <1>12, <1>13 DEF PlacedChild

\* The stack st2 is st without its innermost call.
PopOf(st2, st) ==
  st2 \in Seq(Frame) /\ Len(st2) = Len(st) - 1 /\ Agree(st2, st, Len(st))

\* The innermost call returns.
LEMMA PlacedPop ==
  ASSUME NEW f, NEW mk, NEW md, NEW st \in Seq(Frame), st # <<>>, NEW a, Placed(a, st, f, mk, md),
         NEW st2, PopOf(st2, st)
  PROVE  \E b : Placed(b, st2, f, mk, md) /\ Agree(b, a, Len(st))
  <1>1. PICK l : l = Len(st) /\ l \in Nat /\ l >= 1
    OBVIOUS
  <1>2. a \in Seq(Nat) /\ Len(a) = l /\ a # <<>>
    BY <1>1 DEF Placed, CallPlaced
  <1> DEFINE b == SubSeq(a, 1, Len(a) - 1)
  <1>3. b \in Seq(Nat) /\ Len(b) = l - 1 /\ \A n \in 1..l : n < l => b[n] = a[n]
    BY <1>2, PopTop
  <1> HIDE DEF b
  <1>4. ASSUME NEW n \in 1..Len(st2)
        PROVE  /\ n \in 1..l /\ n < l /\ st2[n] = st[n] /\ b[n] = a[n]
               /\ n < Len(st2) => b[n + 1] = a[n + 1]
    BY <1>1, <1>3 DEF PopOf, Agree
  <1>5. Placed(b, st2, f, mk, md)
    BY <1>1, <1>3, <1>4 DEF Placed, CallPlaced, PopOf
  <1>6. Agree(b, a, Len(st))
    BY <1>1, <1>3 DEF Agree
  <1> QED
    BY <1>5, <1>6

\* As long as no entry leads anywhere, only the directory itself is listed.
LEMMA NoLinksOff ==
  ASSUME NEW f \in File, NoCycle(f), NEW mk, NEW md, NEW d \in Dir,
         NEW m \in Nat, m <= Len(f.entries[d]),
         \A j \in 1..m : f.entries[d][j].kind \notin Links,
         NEW i \in Nat \ {0}, i <= m + 1
  PROVE  Off(f, d, mk, md, i, 0) = 1
  <1> DEFINE T == {j \in Nat : j # 0 /\ j <= m + 1 /\ Off(f, d, mk, md, j, 0) # 1}
  <1>1. ASSUME T # {} PROVE FALSE
    <2>1. PICK j \in T : \A h \in T : j <= h
      BY <1>1, Least
    <2>2. j # 1
      BY <2>1, TreeFacts
    <2>3. PICK h : h = j - 1
      OBVIOUS
    <2>4. h \in Nat \ {0} /\ h \in 1..m /\ h <= Len(f.entries[d]) /\ h + 1 = j /\ h \notin T
      BY <2>1, <2>2, <2>3, KidsType
    <2>5. Off(f, d, mk, md, h, 0) = 1 /\ Off(f, d, mk, md, h + 1, 0) # 1
      BY <2>1, <2>4
    <2> HIDE DEF T
    <2>6. Off(f, d, mk, md, h + 1, 0)
            = Off(f, d, mk, md, h, Len(Followed(f.entries[d][h], mk, md)))
      BY <2>4, EntryOff
    <2>7. Followed(f.entries[d][h], mk, md) = <<>>
      <3>1. f.entries[d][h] \in Entry /\ f.entries[d][h].kind \notin Links
        BY <2>4, KidsType
      <3> QED
        BY <3>1, FollowedType
    <2>8. Len(Followed(f.entries[d][h], mk, md)) = 0
      BY <2>7
    <2> QED
      BY <2>5, <2>6, <2>8
  <1> QED
    BY <1>1

-----------------------------------------------------------------------------
(* The list of directories: ListInv is inductive relative to StepInv.       *)

\* How many directories of its own tree the innermost call has listed.
Reached(p, f, fr, mk, md) ==
  CASE p = "enter" -> 0
    [] p = "entry" -> Place(f, fr, mk, md, 0)
    [] p = "subs" -> Place(f, fr, mk, md, fr.k)
    [] p = "resume" -> Place(f, fr, mk, md, Walked(f, fr) + 1)

\* The list ends where the innermost call stands in the preorder.
Standing(a) ==
  /\ Placed(a, stack, F, make, model)
  /\ pc \in Running => Len(list) = a[Len(stack)] + Reached(pc, F, Top, make, model)

\* ListedInPreorder, position by position.
Prefixed ==
  /\ Len(list) <= Len(Preorder) /\ \A x \in 1..Len(list) : list[x].dir = Preorder[x]
  /\ pc = "done" => Len(list) = Len(Preorder)
  /\ pc = "empty" => /\ Len(list) < Len(Preorder)
                     /\ F.entries[Preorder[Len(list) + 1]] = <<>>

ListInv ==
  /\ \E a : Standing(a)
  /\ pc \in {"subs", "resume"} => Goes(F, Top, make, model)
  /\ pc = "entry" => Top.i <= Len(F.entries[Top.dir]) + 1
  /\ Prefixed

\* What is assumed of the file: its directories form a tree, written by one camera.
Tree == NoCycle(F) /\ CameraFirst(F)

\* The preorder depends on the file, the make and the model.
LEMMA PreorderKept ==
  ASSUME UNCHANGED <<file, make, model>>
  PROVE  F' = F /\ Preorder' = Preorder
  <1>1. F' = F
    BY DEF F
  <1>2. make' = make /\ model' = model
    OBVIOUS
  <1> QED
    BY <1>1, <1>2, Zenon DEF Preorder

\* The end of the list does not move and the walk goes on.
LEMMA PrefixedKept ==
  ASSUME Prefixed, UNCHANGED <<file, make, model, list>>, pc' \notin {"done", "empty"}
  PROVE  Prefixed'
  <1>1. F' = F /\ Preorder' = Preorder
    BY PreorderKept
  <1> QED
    BY <1>1 DEF Prefixed

\* What is known of the preorder and of the list in every state.
LEMMA RootTree ==
  ASSUME StepInv, Tree
  PROVE  /\ F \in File /\ NoCycle(F) /\ F.root \in Dir
         /\ Preorder \in Seq(Dir) /\ Len(Preorder) \in Nat
         /\ Len(Preorder) >= 1 /\ Preorder[1] = F.root
         /\ list \in Seq([dir : Dir, base : Dir \cup {NoDir, Zero}, order : ByteOrder])
         /\ Len(list) \in Nat
  <1>1. F \in File /\ NoCycle(F)
    BY FileFacts DEF StepInv, TypeOK, Tree
  <1>2. F.root \in Dir
    BY <1>1 DEF File
  <1>3. list \in Seq([dir : Dir, base : Dir \cup {NoDir, Zero}, order : ByteOrder])
    BY DEF StepInv, TypeOK
  <1>4. Len(list) \in Nat
    BY <1>3
  <1> QED
    BY <1>1, <1>2, <1>3, <1>4, TreeFacts DEF Preorder

\* The innermost call changes its frame: what it has listed of its tree stays.
LEMMA ListTop ==
  ASSUME StepInv, Tree, ListInv, pc \in Running, NEW x \in Frame, x.dir = Top.dir,
         stack' = [stack EXCEPT ![Len(stack)] = x], UNCHANGED <<file, make, model, list>>,
         pc' \in {"entry", "subs"},
         Reached(pc', F, x, make, model) = Reached(pc, F, Top, make, model),
         pc' = "subs" => Goes(F, x, make, model),
         pc' = "entry" => x.i <= Len(F.entries[x.dir]) + 1
  PROVE  ListInv'
  <1>1. /\ stack \in Seq(Frame) /\ stack # <<>> /\ Len(stack) \in Nat /\ Len(stack) >= 1
    BY TopFacts
  <1>2. /\ stack' \in Seq(Frame) /\ stack' # <<>> /\ Top' = x
        /\ Len(stack') = Len(stack)
        /\ \A n \in 1..Len(stack) : n < Len(stack) => stack'[n] = stack[n]
    BY NewTop
  <1>3. stack'[Len(stack)].dir = stack[Len(stack)].dir
    BY <1>2 DEF Top
  <1>4. PICK a : Standing(a)
    BY DEF ListInv
  <1>5. F' = F /\ make' = make /\ model' = model /\ list' = list
    BY DEF F
  <1>6. Placed(a, stack', F, make, model)
    <2>1. Placed(a, stack, F, make, model)
      BY <1>4 DEF Standing
    <2> QED
      BY <1>1, <1>2, <1>3, <2>1, PlacedTop
  <1>7. Len(list) = a[Len(stack)] + Reached(pc', F, x, make, model)
    BY <1>4 DEF Standing
  <1>8. Standing(a)'
    BY <1>2, <1>5, <1>6, <1>7 DEF Standing
  <1>9. Prefixed'
    BY PrefixedKept DEF ListInv
  <1>10. \E b : Standing(b)'
    BY <1>8
  <1> QED
    BY <1>2, <1>5, <1>9, <1>10 DEF ListInv

\* The innermost call calls for a directory that its entry leads to.
LEMMA ListCall ==
  ASSUME StepInv, Tree, ListInv, pc \in Running, UNCHANGED <<file, make, model, list>>,
         NEW x, NEW d, PushOf(stack', stack, x, d), pc' = "enter",
         Leads(F, x, make, model), d = F.entries[x.dir][x.i].to[Walked(F, x) + 1],
         Reached(pc, F, Top, make, model) = Place(F, x, make, model, Walked(F, x))
  PROVE  ListInv'
  <1>1. stack \in Seq(Frame) /\ stack # <<>> /\ Len(stack) \in Nat /\ Len(stack') = Len(stack) + 1
    BY TopFacts DEF PushOf
  <1>2. PICK a : Standing(a)
    BY DEF ListInv
  <1>3. F' = F /\ make' = make /\ model' = model /\ list' = list
    BY DEF F
  <1>4. F \in File /\ NoCycle(F) /\ Len(list) \in Nat
    BY RootTree
  <1>5. Placed(a, stack, F, make, model)
    BY <1>2 DEF Standing
  <1>6. \E c : PlacedChild(c, a, stack', stack, F, x, make, model)
    <2>1. PICK f, mk, md, st, st2 : f = F /\ mk = make /\ md = model /\ st = stack /\ st2 = stack'
      OBVIOUS
    <2>2. /\ f \in File /\ NoCycle(f) /\ st \in Seq(Frame) /\ st # <<>>
          /\ Placed(a, st, f, mk, md) /\ PushOf(st2, st, x, d) /\ Leads(f, x, mk, md)
          /\ d = f.entries[x.dir][x.i].to[Walked(f, x) + 1]
      BY <1>1, <1>4, <1>5, <2>1
    <2>3. \E c : PlacedChild(c, a, st2, st, f, x, mk, md)
      BY ONLY <2>2, PlacedPush, Zenon
    <2> QED
      BY <2>1, <2>3
  <1>7. PICK c : PlacedChild(c, a, stack', stack, F, x, make, model)
    BY <1>6
  <1>8. Len(list) = c[Len(stack')] + Reached(pc', F, Top', make, model)
    <2>1. Len(list) = a[Len(stack)] + Reached(pc, F, Top, make, model)
      BY <1>2 DEF Standing
    <2>2. Len(list) = c[Len(stack')]
      BY <1>1, <1>7, <2>1 DEF PlacedChild
    <2>3. Reached(pc', F, Top', make, model) = 0
      BY DEF Reached
    <2> QED
      BY <1>4, <2>2, <2>3
  <1>9. Standing(c)'
    BY <1>3, <1>7, <1>8 DEF Standing, PlacedChild
  <1>10. Prefixed'
    BY PrefixedKept DEF ListInv
  <1>11. \E h : Standing(h)'
    BY <1>9
  <1> QED
    BY <1>10, <1>11 DEF ListInv

\* The call that is made is the one CallShape describes.
LEMMA CalledPush ==
  ASSUME StepInv, pc \in Running, NEW old \in Position, NEW temp \in Position, NEW d \in Dir,
         NEW b, Called(old, temp, d, b)
  PROVE  \E x \in Frame : /\ PushOf(stack', stack, x, d) /\ pc' = "enter"
                          /\ x.dir = Top.dir /\ x.i = Top.i /\ x.k = Top.k
  <1> DEFINE x == [Top EXCEPT !.old = old, !.temp = temp]
  <1>1. Top \in Frame /\ Top = stack[Len(stack)]
    BY TopFacts DEF Top
  <1>2. x \in Frame /\ x.dir = Top.dir /\ x.i = Top.i /\ x.k = Top.k
    BY <1>1 DEF Frame
  <1>3. /\ Len(stack') = Len(stack) + 1
        /\ \A n \in 1..Len(stack) : n < Len(stack) => stack'[n] = stack[n]
        /\ stack'[Len(stack)] = x
        /\ stack'[Len(stack) + 1] = NewFrame(d, b) /\ pc' = "enter"
    BY DEF Called
  <1>4. NewFrame(d, b).dir = d
    BY DEF NewFrame
  <1> HIDE DEF x
  <1>5. PushOf(stack', stack, x, d)
    BY <1>1, <1>2, <1>3, <1>4 DEF PushOf, Agree
  <1> QED
    BY <1>2, <1>3, <1>5

\* Where the program exits or crashes, the list stays.
LEMMA ListEnd ==
  ASSUME StepInv, Tree, ListInv, BadMakerHeader \/ NullText
  PROVE  ListInv'
  <1>1. stack' = <<>> /\ pc' \in {"exit", "crash"} /\ UNCHANGED <<file, make, model, list>>
    BY DEF BadMakerHeader, NullText, globals
  <1>2. Placed(<<>>, <<>>, F', make', model')
    BY PlacedNone
  <1>3. Standing(<<>>)'
    BY <1>1, <1>2 DEF Standing, Running
  <1>4. Prefixed'
    BY <1>1, PrefixedKept DEF ListInv
  <1>5. \E b : Standing(b)'
    BY <1>3
  <1> QED
    BY <1>1, <1>4, <1>5 DEF ListInv

\* A step that changes nothing.
LEMMA ListStutter == ASSUME ListInv, UNCHANGED vars PROVE ListInv'
  <1>1. /\ UNCHANGED <<file, make, model, list>> /\ stack' = stack /\ pc' = pc
    BY DEF vars
  <1>2. F' = F /\ Preorder' = Preorder /\ Top' = Top
    BY <1>1, PreorderKept DEF Top
  <1>3. PICK a : Standing(a)
    BY DEF ListInv
  <1>4. Standing(a)'
    BY <1>1, <1>2, <1>3 DEF Standing
  <1>5. \E b : Standing(b)'
    BY <1>4
  <1>6. Prefixed'
    BY <1>1, <1>2 DEF ListInv, Prefixed
  <1> QED
    BY <1>1, <1>2, <1>5, <1>6 DEF ListInv

\* The tree of the innermost call is part of the preorder of the file.
LEMMA StandingTop ==
  ASSUME StepInv, Tree, pc \in Running, NEW a, Standing(a)
  PROVE  LET p == Preorders(F, make, model)[Top.dir]
         IN  /\ a \in Seq(Nat) /\ Len(a) = Len(stack)
             /\ a[Len(stack)] \in Nat
             /\ Len(list) = a[Len(stack)] + Reached(pc, F, Top, make, model)
             /\ Part(Preorder, a[Len(stack)], p)
             /\ p \in Seq(Dir) /\ Len(p) \in Nat /\ Len(p) >= 1 /\ p[1] = Top.dir
             /\ Off(F, Top.dir, make, model, 1, 0) = 1
             /\ Off(F, Top.dir, make, model, Len(F.entries[Top.dir]) + 1, 0) = Len(p)
  <1>1. Len(stack) \in Nat /\ Len(stack) >= 1 /\ Top \in Frame
    BY TopFacts
  <1>2. Top.dir \in Dir /\ Top.i \in Nat \ {0}
    BY <1>1 DEF Frame
  <1>3. F \in File /\ NoCycle(F)
    BY RootTree
  <1>4. Placed(a, stack, F, make, model) /\ Len(stack) \in 1..Len(stack)
    BY <1>1 DEF Standing
  <1>5. /\ a \in Seq(Nat) /\ Len(a) = Len(stack) /\ a[Len(stack)] \in Nat
        /\ Part(Preorder, a[Len(stack)], Preorders(F, make, model)[Top.dir])
    BY <1>1, <1>4 DEF Placed, CallPlaced, Preorder, Top
  <1>6. Len(list) = a[Len(stack)] + Reached(pc, F, Top, make, model)
    BY DEF Standing
  <1> QED
    BY <1>2, <1>3, <1>5, <1>6, TreeFacts

\* The walk starts with the root, of whose tree nothing is listed.
LEMMA ListInit ==
  ASSUME Init, Tree
  PROVE  ListInv
  <1>1. StepInv
    BY InitStep
  <1>2. /\ F \in File /\ NoCycle(F) /\ F.root \in Dir
        /\ Preorder \in Seq(Dir) /\ Len(Preorder) \in Nat /\ Len(Preorder) >= 1
    BY <1>1, RootTree
  <1>3. stack = <<NewFrame(F.root, NoDir)>> /\ pc = "enter" /\ list = <<>>
    BY DEF Init
  <1> DEFINE a == <<0>>
  <1>4. /\ Len(stack) = 1 /\ stack[1].dir = F.root
        /\ Len(a) = 1 /\ a \in Seq(Nat) /\ a[1] = 0
    BY <1>3 DEF NewFrame
  <1>5. Part(Preorder, 0, Preorder)
    BY <1>2 DEF Part
  <1>6. Part(Preorders(F, make, model)[F.root], 0, Preorders(F, make, model)[stack[1].dir])
    BY <1>4, <1>5 DEF Preorder
  <1> HIDE DEF a
  <1>7. Placed(a, stack, F, make, model)
    BY <1>4, <1>6 DEF Placed, CallPlaced
  <1>8. Standing(a)
    BY <1>3, <1>4, <1>7 DEF Standing, Reached
  <1>9. \E b : Standing(b)
    BY <1>8
  <1>10. Prefixed
    BY <1>2, <1>3 DEF Prefixed
  <1> QED
    BY <1>3, <1>9, <1>10 DEF ListInv

\* Entering a directory appends it: the next one of the preorder.
LEMMA ListEnter ==
  ASSUME StepInv, Tree, ListInv, Enter
  PROVE  ListInv'
  <1>1. /\ pc = "enter" /\ pc' = "entry" /\ pc \in Running /\ stack' = stack
        /\ UNCHANGED <<file, make, model>>
    BY DEF Enter, Running, globals
  <1>2. F' = F /\ Preorder' = Preorder /\ Top' = Top
    BY <1>1, PreorderKept DEF Top
  <1>3. PICK a : Standing(a)
    BY DEF ListInv
  <1> DEFINE p == Preorders(F, make, model)[Top.dir]
             node == [dir |-> Top.dir, base |-> Top.base, order |-> motorola]
  <1>4. /\ a[Len(stack)] \in Nat
        /\ Len(list) = a[Len(stack)] + Reached(pc, F, Top, make, model)
        /\ Part(Preorder, a[Len(stack)], p)
        /\ p \in Seq(Dir) /\ Len(p) \in Nat /\ Len(p) >= 1 /\ p[1] = Top.dir
        /\ Off(F, Top.dir, make, model, 1, 0) = 1
    BY <1>1, <1>3, StandingTop
  <1>5. Reached(pc, F, Top, make, model) = 0
    BY <1>1 DEF Reached
  <1>6. Len(list) \in Nat /\ Len(list) = a[Len(stack)]
    BY <1>4, <1>5
  <1> HIDE DEF p
  <1>7. Len(list) + 1 <= Len(Preorder) /\ Preorder[Len(list) + 1] = Top.dir
    BY <1>4, <1>6, RootTree DEF Part
  <1>8. list' = Append(list, node) /\ node.dir = Top.dir
    BY DEF Enter
  <1> HIDE DEF node
  <1>9. /\ Len(list') = Len(list) + 1 /\ list'[Len(list) + 1] = node
        /\ \A x \in 1..Len(list) : list'[x] = list[x]
    BY <1>8, RootTree
  <1>10. Prefixed'
    <2>1. ASSUME NEW x \in 1..Len(list') PROVE list'[x].dir = Preorder[x]
      <3>1. x \in 1..Len(list) \/ x = Len(list) + 1
        BY <1>6, <1>9
      <3> QED
        BY <1>7, <1>8, <1>9, <3>1 DEF ListInv, Prefixed
    <2> QED
      BY <1>1, <1>2, <1>7, <1>9, <2>1 DEF Prefixed
  <1>11. Top.i = 1
    BY <1>1 DEF StepInv, EnterInv
  <1>12. Reached(pc', F, Top, make, model) = 1
    BY <1>1, <1>4, <1>11 DEF Reached, Place
  <1>13. Standing(a)'
    BY <1>1, <1>2, <1>3, <1>6, <1>9, <1>12 DEF Standing
  <1>14. \E b : Standing(b)'
    BY <1>13
  <1>15. Top.i <= Len(F.entries[Top.dir]) + 1
    BY <1>1, <1>11, TopFacts
  <1> QED
    BY <1>1, <1>2, <1>10, <1>14, <1>15 DEF ListInv

\* An empty directory ends the walk where the preorder has it.
LEMMA ListEmpty ==
  ASSUME StepInv, Tree, ListInv, EmptyIfd
  PROVE  ListInv'
  <1>1. /\ pc = "enter" /\ pc' = "empty" /\ pc \in Running /\ stack' = <<>> /\ list' = list
        /\ UNCHANGED <<file, make, model>> /\ F.entries[Top.dir] = <<>>
    BY DEF EmptyIfd, Running, globals
  <1>2. F' = F /\ Preorder' = Preorder
    BY <1>1, PreorderKept
  <1>3. PICK a : Standing(a)
    BY DEF ListInv
  <1> DEFINE p == Preorders(F, make, model)[Top.dir]
  <1>4. /\ a[Len(stack)] \in Nat
        /\ Len(list) = a[Len(stack)] + Reached(pc, F, Top, make, model)
        /\ Part(Preorder, a[Len(stack)], p)
        /\ p \in Seq(Dir) /\ Len(p) \in Nat /\ Len(p) >= 1 /\ p[1] = Top.dir
    BY <1>1, <1>3, StandingTop
  <1>5. Reached(pc, F, Top, make, model) = 0
    BY <1>1 DEF Reached
  <1>6. Len(list) \in Nat /\ Len(list) = a[Len(stack)]
    BY <1>4, <1>5
  <1> HIDE DEF p
  <1>7. Len(list) < Len(Preorder) /\ Preorder[Len(list) + 1] = Top.dir
    BY <1>4, <1>6, RootTree DEF Part
  <1>8. Prefixed'
    BY <1>1, <1>2, <1>7 DEF ListInv, Prefixed
  <1>9. Placed(<<>>, <<>>, F', make', model')
    BY PlacedNone
  <1>10. Standing(<<>>)'
    BY <1>1, <1>9 DEF Standing, Running
  <1>11. \E b : Standing(b)'
    BY <1>10
  <1> QED
    BY <1>1, <1>8, <1>11 DEF ListInv

\* An entry that leads nowhere.
LEMMA ListFinish ==
  ASSUME StepInv, Tree, ListInv, Reading, FinishEntry, UNCHANGED <<make, model>>,
         Followed(Here, make, model) = <<>>
  PROVE  ListInv'
  <1> DEFINE x == [Top EXCEPT !.i = @ + 1]
  <1>1. pc \in Running /\ pc = "entry" /\ pc' = "entry" /\ Top.i <= Len(F.entries[Top.dir])
    BY DEF Reading, FinishEntry, Running
  <1>2. Top \in Frame /\ F.entries[Top.dir] \in Seq(Entry)
    BY <1>1, TopFacts
  <1>3. /\ x \in Frame /\ x.dir = Top.dir /\ x.i = Top.i + 1
        /\ Top.dir \in Dir /\ Top.i \in Nat \ {0}
    BY <1>2 DEF Frame
  <1>4. stack' = [stack EXCEPT ![Len(stack)] = x] /\ UNCHANGED <<file, list>>
    BY DEF FinishEntry, Top
  <1>5. F.entries[Top.dir][Top.i] = Here
    BY ReadingFacts DEF Current
  <1> HIDE DEF x
  <1>6. F \in File /\ NoCycle(F)
    BY RootTree
  <1>7. Off(F, Top.dir, make, model, Top.i + 1, 0)
          = Off(F, Top.dir, make, model, Top.i, Len(Followed(F.entries[Top.dir][Top.i], make, model)))
    BY <1>1, <1>3, <1>6, EntryOff
  <1>8. Off(F, Top.dir, make, model, Top.i + 1, 0) = Off(F, Top.dir, make, model, Top.i, 0)
    BY <1>5, <1>7
  <1>9. Reached(pc', F, x, make, model) = Reached(pc, F, Top, make, model)
    BY <1>1, <1>3, <1>8 DEF Reached, Place
  <1>10. x.i <= Len(F.entries[x.dir]) + 1
    BY <1>1, <1>2, <1>3
  <1> QED
    BY <1>1, <1>3, <1>4, <1>9, <1>10, ListTop

\* Entries that are only formatted, and the thumbnail's range.
LEMMA ListPlain ==
  ASSUME StepInv, Tree, ListInv, PlainEntry \/ SetThumbnailOffset \/ SetThumbnailLength
  PROVE  ListInv'
  <1>1. Reading /\ FinishEntry /\ UNCHANGED <<make, model>>
    BY DEF PlainEntry, SetThumbnailOffset, SetThumbnailLength
  <1>2. Here \in Entry
    BY <1>1, ReadingFacts
  <1>3. NotFollowed(Here) \/ Here.kind \in {"thumbOffset", "thumbLength"}
    BY DEF PlainEntry, SetThumbnailOffset, SetThumbnailLength
  <1>4. Followed(Here, make, model) = <<>>
    <2>1. Here.kind \in Kinds /\ Here.to \in Seq(Dir)
      BY <1>2 DEF Entry
    <2>2. CASE Here.kind \in {"plain", "shortMake", "thumbOffset", "thumbLength"}
      BY <2>2 DEF Followed
    <2>3. CASE Here.kind = "subIfds" /\ Len(Here.to) < 2
      <3>1. ~(Len(Here.to) > 1)
        BY <2>1, <2>3
      <3> QED
        BY <2>3, <3>1 DEF Followed
    <2>4. CASE Here.kind = "makerNote" /\ ~IsNikon
      BY <2>4 DEF Followed, IsNikon
    <2>5. CASE Here.kind = "thumbIfd" /\ model \notin ThumbModels
      BY <2>5 DEF Followed
    <2> QED
      BY <1>3, <2>2, <2>3, <2>4, <2>5 DEF NotFollowed
  <1> QED
    BY <1>1, <1>4, ListFinish

\* The call begins an array of SubIFDs.
LEMMA ListBeginSubIfds ==
  ASSUME StepInv, Tree, ListInv, BeginSubIfds
  PROVE  ListInv'
  <1> DEFINE x == [Top EXCEPT !.old = AfterEntry, !.k = 0]
  <1>1. /\ Reading /\ pc \in Running /\ pc = "entry" /\ pc' = "subs"
        /\ Top.i <= Len(F.entries[Top.dir])
    BY DEF Reading, BeginSubIfds, Running
  <1>2. Top \in Frame /\ Here = Current(Top) /\ AfterEntry \in Position
    BY <1>1, TopFacts, ReadingFacts
  <1>3. x \in Frame /\ x.dir = Top.dir /\ x.i = Top.i /\ x.k = 0
    BY <1>2 DEF Frame
  <1>4. stack' = [stack EXCEPT ![Len(stack)] = x] /\ UNCHANGED <<file, make, model, list>>
    BY DEF BeginSubIfds, Top, globals
  <1>5. Here.kind = "subIfds" /\ Len(Here.to) >= 2 /\ Here \in Entry
    BY <1>1, ReadingFacts DEF BeginSubIfds
  <1> HIDE DEF x
  <1>6. Followed(Here, make, model) = Here.to
    <2>1. Here.to \in Seq(Dir)
      BY <1>5 DEF Entry
    <2>2. Len(Here.to) > 1
      BY <1>5, <2>1
    <2> QED
      BY <1>5, <2>2 DEF Followed
  <1>7. F.entries[x.dir][x.i] = Here
    BY <1>2, <1>3 DEF Current
  <1>8. Goes(F, x, make, model)
    BY <1>6, <1>7 DEF Goes
  <1>9. Reached(pc', F, x, make, model) = Reached(pc, F, Top, make, model)
    BY <1>1, <1>3 DEF Reached, Place
  <1>10. pc' # "entry"
    BY <1>1
  <1> QED
    BY <1>1, <1>3, <1>4, <1>8, <1>9, <1>10, ListTop

\* The call for the one directory that an entry leads to.
LEMMA ListLink ==
  ASSUME StepInv, Tree, ListInv, Reading, UNCHANGED <<file, make, model, list>>,
         Here.kind \in {"exif", "makerNote", "thumbIfd"},
         Followed(Here, make, model) = Here.to,
         NEW b \in Dir \cup {NoDir, Zero}, Call(AfterEntry, AfterEntry, Here.to[1], b)
  PROVE  ListInv'
  <1> DEFINE d == Here.to[1]
  <1>1. pc \in Running /\ pc = "entry" /\ Top.i <= Len(F.entries[Top.dir])
    BY DEF Reading, Running
  <1>2. /\ Here = Current(Top) /\ Here \in Entry /\ AfterEntry \in Position
        /\ Len(Here.to) = 1 /\ d \in Dir
    BY ReadingFacts
  <1>3. Called(AfterEntry, AfterEntry, d, b)
    BY <1>1, <1>2, CallShape
  <1> HIDE DEF d
  <1>4. PICK x \in Frame : /\ PushOf(stack', stack, x, d) /\ pc' = "enter"
                          /\ x.dir = Top.dir /\ x.i = Top.i
    BY <1>1, <1>2, <1>3, CalledPush
  <1>5. F.entries[x.dir][x.i] = Here
    BY <1>2, <1>4 DEF Current
  <1>6. Walked(F, x) = 0
    BY <1>5 DEF Walked
  <1>7. Leads(F, x, make, model)
    BY <1>1, <1>2, <1>4, <1>5, <1>6 DEF Leads
  <1>8. d = F.entries[x.dir][x.i].to[Walked(F, x) + 1]
    BY <1>5, <1>6 DEF d
  <1>9. Reached(pc, F, Top, make, model) = Place(F, x, make, model, Walked(F, x))
    BY <1>1, <1>4, <1>6 DEF Reached, Place
  <1> QED
    BY <1>1, <1>4, <1>7, <1>8, <1>9, ListCall

\* EXIF, a maker note, a thumbnail directory.
LEMMA ListCallLink ==
  ASSUME StepInv, Tree, ListInv, CallExif \/ CallMakerNote \/ CallThumbIfd
  PROVE  ListInv'
  <1>1. Reading /\ UNCHANGED <<file, make, model, list>>
    BY DEF CallExif, CallMakerNote, CallThumbIfd, globals
  <1>2. /\ Here.kind \in {"exif", "makerNote", "thumbIfd"}
        /\ Followed(Here, make, model) = Here.to
    <2>1. CASE CallExif
      BY <2>1 DEF CallExif, Followed
    <2>2. CASE CallMakerNote
      BY <2>2 DEF CallMakerNote, Followed, IsNikon
    <2>3. CASE CallThumbIfd
      BY <2>3 DEF CallThumbIfd, Followed
    <2> QED
      BY <2>1, <2>2, <2>3
  <1>3. \E b \in Dir \cup {NoDir, Zero} : Call(AfterEntry, AfterEntry, Here.to[1], b)
    <2>1. calc \in Dir \cup {NoDir}
      BY DEF StepInv, TypeOK
    <2>2. Here.to[1] \in Dir
      BY <1>1, <1>2, ReadingFacts
    <2> QED
      BY <2>1, <2>2 DEF CallExif, CallMakerNote, CallThumbIfd
  <1> QED
    BY <1>1, <1>2, <1>3, ListLink

\* The call for a SubIFD, after those before it in the array.
LEMMA ListCallSubIfd ==
  ASSUME StepInv, Tree, ListInv, CallSubIfd
  PROVE  ListInv'
  <1> DEFINE temp == [pos EXCEPT !.k = @ + 1]
             d == Here.to[pos.k]
  <1>1. /\ pc = "subs" /\ pc \in Running /\ UNCHANGED <<file, make, model, list>>
    BY DEF CallSubIfd, Running, globals
  <1>2. Top \in Frame
    BY <1>1, TopFacts
  <1>3. /\ Top.i <= Len(F.entries[Top.dir]) /\ Current(Top).kind = "subIfds"
        /\ Top.k + 1 <= Len(Current(Top).to) /\ pos = At(Top.dir, Top.i, Top.k + 1)
    BY <1>1 DEF StepInv, SubsInv, PositionRestored
  <1>4. temp = At(Top.dir, Top.i, Top.k + 2) /\ temp \in Position
    BY <1>2, <1>3 DEF Frame, At, Position
  <1>5. d = Current(Top).to[Top.k + 1]
    BY <1>3 DEF Here, At, Current
  <1>6. Call(Top.old, temp, d, Zero) /\ Top.old \in Position
    BY <1>2 DEF CallSubIfd, Frame
  <1>7. d \in Dir
    <2>1. Current(Top) \in Entry
      BY <1>2, <1>3, EntryFacts DEF Current, Frame, StepInv, TypeOK
    <2>2. Current(Top).to \in Seq(Dir) /\ Top.k \in Nat
      BY <1>2, <2>1 DEF Entry, Frame
    <2> QED
      BY <1>3, <1>5, <2>2
  <1> HIDE DEF temp, d
  <1>8. Called(Top.old, temp, d, Zero)
    BY <1>1, <1>4, <1>6, <1>7, CallShape
  <1>9. PICK x \in Frame : /\ PushOf(stack', stack, x, d) /\ pc' = "enter"
                          /\ x.dir = Top.dir /\ x.i = Top.i /\ x.k = Top.k
    BY <1>1, <1>4, <1>6, <1>7, <1>8, CalledPush
  <1>10. F.entries[x.dir][x.i] = Current(Top)
    BY <1>9 DEF Current
  <1>11. Walked(F, x) = Top.k
    BY <1>3, <1>9, <1>10 DEF Walked
  <1>12. Goes(F, Top, make, model)
    BY <1>1 DEF ListInv
  <1>13. Leads(F, x, make, model)
    BY <1>3, <1>9, <1>10, <1>11, <1>12 DEF Leads, Goes, Current
  <1>14. d = F.entries[x.dir][x.i].to[Walked(F, x) + 1]
    BY <1>5, <1>10, <1>11
  <1>15. Reached(pc, F, Top, make, model) = Place(F, x, make, model, Walked(F, x))
    BY <1>1, <1>9, <1>11 DEF Reached, Place
  <1> QED
    BY <1>1, <1>9, <1>13, <1>14, <1>15, ListCall

\* A suspended call waits for a directory that its entry leads to.
LEMMA SuspendedLeads ==
  ASSUME StepInv, NEW fr \in Frame, Suspended(fr), Goes(F, fr, make, model)
  PROVE  /\ Leads(F, fr, make, model)
         /\ Child(fr) = F.entries[fr.dir][fr.i].to[Walked(F, fr) + 1]
         /\ fr.i <= Len(F.entries[fr.dir]) /\ Current(fr) \in Entry
         /\ Current(fr).kind # "subIfds" => Len(Current(fr).to) = 1
  <1>1. file \in Files /\ fr.dir \in Dir /\ fr.i \in Nat \ {0} /\ fr.k \in Nat
    BY DEF StepInv, TypeOK, Frame
  <1>2. /\ fr.i <= Len(F.entries[fr.dir])
        /\ Current(fr).kind \in {"subIfds", "exif", "makerNote", "thumbIfd"}
        /\ Current(fr).kind = "subIfds" => fr.k + 1 <= Len(Current(fr).to)
    BY DEF Suspended
  <1>3. /\ Current(fr) \in Entry
        /\ Current(fr).kind # "subIfds" => Len(Current(fr).to) = 1
    BY <1>1, <1>2, EntryFacts DEF Current
  <1>4. Walked(F, fr) = IF Current(fr).kind = "subIfds" THEN fr.k ELSE 0
    BY DEF Walked, Current
  <1>5. Walked(F, fr) + 1 <= Len(Current(fr).to)
    <2>1. Len(Current(fr).to) \in Nat
      BY <1>3 DEF Entry
    <2>2. CASE Current(fr).kind = "subIfds"
      BY <1>2, <1>4, <2>2
    <2>3. CASE Current(fr).kind # "subIfds"
      <3>1. Walked(F, fr) = 0 /\ Len(Current(fr).to) = 1
        BY <1>3, <1>4, <2>3
      <3> QED
        BY <3>1
    <2> QED
      BY <2>2, <2>3
  <1>6. Child(fr) = Current(fr).to[Walked(F, fr) + 1]
    BY <1>4 DEF Child
  <1> QED
    BY <1>2, <1>3, <1>5, <1>6 DEF Leads, Goes, Current

\* A call returns with its whole tree listed; its caller stands one directory further.
LEMMA ListReturn ==
  ASSUME StepInv, Tree, ListInv, Return
  PROVE  ListInv'
  <1>1. /\ pc = "entry" /\ pc \in Running /\ Top.i > Len(F.entries[Top.dir])
        /\ stack' = SubSeq(stack, 1, Len(stack) - 1)
        /\ pc' = IF Len(stack) = 1 THEN "done" ELSE "resume"
        /\ UNCHANGED <<file, make, model, list>>
    BY DEF Return, Below, Running, globals
  <1>2. /\ stack \in Seq(Frame) /\ stack # <<>> /\ Len(stack) \in Nat /\ Len(stack) >= 1
        /\ Top \in Frame /\ F.entries[Top.dir] \in Seq(Entry)
    BY <1>1, TopFacts
  <1>3. F' = F /\ Preorder' = Preorder /\ make' = make /\ model' = model
    BY <1>1, PreorderKept
  <1>4. PICK a : Standing(a)
    BY DEF ListInv
  <1> DEFINE p == Preorders(F, make, model)[Top.dir]
  <1>5. /\ a[Len(stack)] \in Nat
        /\ Len(list) = a[Len(stack)] + Reached(pc, F, Top, make, model)
        /\ Len(p) \in Nat
        /\ Off(F, Top.dir, make, model, Len(F.entries[Top.dir]) + 1, 0) = Len(p)
    BY <1>1, <1>4, StandingTop
  <1>6. Top.i = Len(F.entries[Top.dir]) + 1
    <2>1. Top.i <= Len(F.entries[Top.dir]) + 1 /\ Top.i \in Nat
      BY <1>1, <1>2 DEF ListInv, Frame
    <2>2. Len(F.entries[Top.dir]) \in Nat
      BY <1>2
    <2> QED
      BY <1>1, <2>1, <2>2
  <1>7. Reached(pc, F, Top, make, model) = Len(p)
    BY <1>1, <1>5, <1>6, Zenon DEF Reached, Place
  <1>8. Len(list) = a[Len(stack)] + Len(p)
    BY <1>5, <1>7
  <1>9. /\ stack' \in Seq(Frame) /\ Len(stack') = Len(stack) - 1
        /\ \A n \in 1..Len(stack) : n < Len(stack) => stack'[n] = stack[n]
        /\ stack' = <<>> <=> Len(stack) = 1
    BY <1>1, <1>2, PopTop
  <1>10. Placed(a, stack, F, make, model)
    BY <1>4 DEF Standing
  <1>11. CASE Len(stack) = 1
    <2>1. a[1] = 0 /\ stack[1].dir = F.root
      BY <1>2, <1>10, <1>11 DEF Placed, CallPlaced
    <2>2. p = Preorder
      BY <1>11, <2>1 DEF Top, Preorder
    <2>3. Len(list) = Len(Preorder)
      BY <1>5, <1>8, <1>11, <2>1, <2>2
    <2>4. Prefixed'
      BY <1>1, <1>3, <1>11, <2>3 DEF ListInv, Prefixed
    <2>5. Placed(<<>>, <<>>, F', make', model')
      BY PlacedNone
    <2>6. Standing(<<>>)'
      BY <1>1, <1>9, <1>11, <2>5 DEF Standing, Running
    <2>7. \E b : Standing(b)'
      BY <2>6
    <2> QED
      BY <1>1, <1>11, <2>4, <2>7 DEF ListInv
  <1>12. CASE Len(stack) # 1
    <2>1. PICK m : m = Len(stack) - 1
      OBVIOUS
    <2>2. /\ m \in Nat /\ m >= 1 /\ m \in 1..Len(stack) /\ m < Len(stack)
          /\ m + 1 = Len(stack) /\ Len(stack') = m
      BY <1>2, <1>9, <1>12, <2>1
    <2>3. PICK fr : fr = stack[m]
      OBVIOUS
    <2>4. fr \in Frame /\ Top' = fr
      BY <1>2, <1>9, <2>2, <2>3 DEF Top
    <2>5. Suspended(fr) /\ Top.dir = Child(fr)
      BY <2>2, <2>3 DEF StepInv, StackInv, Top
    <2>6. /\ Goes(F, fr, make, model)
          /\ a[Len(stack)] = a[m] + Place(F, fr, make, model, Walked(F, fr))
          /\ a[m] \in Nat
      BY <1>2, <1>10, <2>2, <2>3 DEF Placed, CallPlaced
    <2>7. /\ Leads(F, fr, make, model)
          /\ Top.dir = F.entries[fr.dir][fr.i].to[Walked(F, fr) + 1]
      BY <2>4, <2>5, <2>6, SuspendedLeads
    <2>8. /\ Place(F, fr, make, model, Walked(F, fr)) \in Nat
          /\ Place(F, fr, make, model, Walked(F, fr) + 1)
               = Place(F, fr, make, model, Walked(F, fr)) + Len(p)
      BY <2>7, RootTree, LeadsTo
    <2> HIDE DEF p
    <2>9. Len(list) = a[m] + Place(F, fr, make, model, Walked(F, fr) + 1)
      BY <1>5, <1>8, <2>6, <2>8
    <2>10. PICK b : Placed(b, stack', F, make, model) /\ Agree(b, a, Len(stack))
      <3>1. PICK st, st2 : st = stack /\ st2 = stack'
        OBVIOUS
      <3>2. PICK f, mk, md : f = F /\ mk = make /\ md = model
        OBVIOUS
      <3>3. /\ st \in Seq(Frame) /\ st # <<>> /\ Placed(a, st, f, mk, md)
            /\ PopOf(st2, st)
        BY <1>2, <1>9, <1>10, <3>1, <3>2 DEF PopOf, Agree
      <3>4. \E b : Placed(b, st2, f, mk, md) /\ Agree(b, a, Len(st))
        BY ONLY <3>3, PlacedPop, Zenon
      <3> QED
        BY <3>1, <3>2, <3>4
    <2>11. b[Len(stack')] = a[m]
      BY <2>2, <2>10 DEF Agree
    <2>12. pc' = "resume"
      BY <1>1, <1>12
    <2>13. Reached(pc', F, fr, make, model) = Place(F, fr, make, model, Walked(F, fr) + 1)
      BY <2>12 DEF Reached
    <2>14. Standing(b)'
      BY <1>1, <1>3, <2>4, <2>9, <2>10, <2>11, <2>13 DEF Standing
    <2>15. \E h : Standing(h)'
      BY <2>14
    <2>16. Prefixed'
      BY <1>1, <2>12, PrefixedKept DEF ListInv
    <2> QED
      BY <1>3, <2>4, <2>6, <2>12, <2>15, <2>16 DEF ListInv
  <1> QED
    BY <1>11, <1>12

\* The next SubIFD of the array.
LEMMA ListNextSubIfd ==
  ASSUME StepInv, Tree, ListInv, NextSubIfd
  PROVE  ListInv'
  <1> DEFINE x == [Top EXCEPT !.k = @ + 1]
  <1>1. /\ pc \in Running /\ pc = "resume" /\ pc' = "subs"
        /\ UNCHANGED <<file, make, model, list>>
    BY DEF NextSubIfd, Running, globals
  <1>2. Top \in Frame
    BY <1>1, TopFacts
  <1>3. x \in Frame /\ x.dir = Top.dir /\ x.i = Top.i /\ x.k = Top.k + 1
    BY <1>2 DEF Frame
  <1>4. stack' = [stack EXCEPT ![Len(stack)] = x]
    BY DEF NextSubIfd, Top
  <1> HIDE DEF x
  <1>5. Current(Top).kind = "subIfds" /\ Goes(F, Top, make, model)
    BY <1>1 DEF NextSubIfd, ListInv
  <1>6. Walked(F, Top) = Top.k
    BY <1>5 DEF Walked, Current
  <1>7. Reached(pc', F, x, make, model) = Reached(pc, F, Top, make, model)
    BY <1>1, <1>3, <1>6 DEF Reached, Place
  <1>8. Goes(F, x, make, model)
    BY <1>3, <1>5 DEF Goes
  <1>9. pc' # "entry"
    BY <1>1
  <1> QED
    BY <1>1, <1>3, <1>4, <1>7, <1>8, <1>9, ListTop

\* The last directory of an entry is listed: the call goes on with its next entry.
LEMMA ListResume ==
  ASSUME StepInv, Tree, ListInv, ResumeEntry
  PROVE  ListInv'
  <1> DEFINE y == [Top EXCEPT !.i = @ + 1]
             x == [y EXCEPT !.k = 0]
             e == Current(Top)
  <1>1. /\ pc \in Running /\ pc = "resume" /\ pc' = "entry"
        /\ UNCHANGED <<file, make, model, list>>
    BY DEF ResumeEntry, Running, globals
  <1>2. Top \in Frame /\ Suspended(Top) /\ Goes(F, Top, make, model)
        /\ F.entries[Top.dir] \in Seq(Entry)
    BY <1>1, TopFacts, ResumeFacts DEF ListInv
  <1>3. /\ x \in Frame /\ x.dir = Top.dir /\ x.i = Top.i + 1
        /\ Top.dir \in Dir /\ Top.i \in Nat \ {0} /\ Top.k \in Nat
    <2>1. y \in Frame /\ y.dir = Top.dir /\ y.i = Top.i + 1
      BY <1>2 DEF Frame
    <2>2. /\ [y EXCEPT !.k = 0] \in Frame /\ [y EXCEPT !.k = 0].dir = y.dir
          /\ [y EXCEPT !.k = 0].i = y.i
      <3> HIDE DEF y
      <3> QED
        BY <2>1 DEF Frame
    <2> QED
      BY <1>2, <2>1, <2>2 DEF Frame
  <1>4. stack' = [stack EXCEPT ![Len(stack)] = x]
    BY DEF ResumeEntry, Top
  <1> HIDE DEF x
  <1>5. /\ Top.i <= Len(F.entries[Top.dir]) /\ e \in Entry
        /\ e.kind # "subIfds" => Len(e.to) = 1
    BY <1>2, SuspendedLeads
  <1>6. e.kind = "subIfds" => Top.k + 1 <= Len(e.to) /\ ~(Top.k + 1 < Len(e.to))
    BY <1>2 DEF ResumeEntry, MoreSubIfds, Suspended
  <1>7. Walked(F, Top) = IF e.kind = "subIfds" THEN Top.k ELSE 0
    BY DEF Walked, Current
  <1>8. e.to \in Seq(Dir) /\ Followed(e, make, model) = e.to
    BY <1>2, <1>5 DEF Entry, Goes, Current
  <1> HIDE DEF e
  <1>9. Walked(F, Top) + 1 = Len(e.to)
    <2>1. Len(e.to) \in Nat
      BY <1>8
    <2>2. CASE e.kind = "subIfds"
      BY <1>3, <1>6, <1>7, <2>1, <2>2
    <2>3. CASE e.kind # "subIfds"
      <3>1. Walked(F, Top) = 0 /\ Len(e.to) = 1
        BY <1>5, <1>7, <2>3
      <3> QED
        BY <3>1
    <2> QED
      BY <2>2, <2>3
  <1>10. Off(F, Top.dir, make, model, Top.i + 1, 0)
           = Off(F, Top.dir, make, model, Top.i, Len(Followed(F.entries[Top.dir][Top.i], make, model)))
    BY <1>3, <1>5, RootTree, EntryOff
  <1>11. Len(Followed(F.entries[Top.dir][Top.i], make, model)) = Walked(F, Top) + 1
    BY <1>8, <1>9 DEF e, Current
  <1>12. Reached(pc', F, x, make, model) = Off(F, Top.dir, make, model, Top.i + 1, 0)
    BY <1>1, <1>3 DEF Reached, Place
  <1>13. Reached(pc, F, Top, make, model) = Off(F, Top.dir, make, model, Top.i, Walked(F, Top) + 1)
    BY <1>1 DEF Reached, Place
  <1>14. x.i <= Len(F.entries[x.dir]) + 1
    BY <1>2, <1>3, <1>5
  <1>15. Reached(pc', F, x, make, model) = Reached(pc, F, Top, make, model)
    BY <1>10, <1>11, <1>12, <1>13
  <1>16. pc' # "subs"
    BY <1>1
  <1> QED
    BY <1>1, <1>3, <1>4, <1>14, <1>15, <1>16, ListTop

\* No directory is entered inside the root: the root is the outermost call only.
LEMMA RootOnce ==
  ASSUME StepInv, Tree, pc \in Running, NEW a, Standing(a), Top.dir = F.root
  PROVE  Len(stack) = 1 /\ stack[1].dir = F.root
  <1>1. /\ stack \in Seq(Frame) /\ Len(stack) \in Nat /\ Len(stack) >= 1
    BY TopFacts
  <1>2. stack[1].dir = F.root
    BY <1>1 DEF Standing, Placed, CallPlaced
  <1>3. ASSUME Len(stack) # 1 PROVE FALSE
    <2> DEFINE S == {stack[n].dir : n \in 1..Len(stack)}
    <2>1. S \in (SUBSET Dir) \ {{}}
      <3>1. \A n \in 1..Len(stack) : stack[n].dir \in Dir
        <4>1. \A n \in 1..Len(stack) : stack[n] \in Frame
          BY <1>1
        <4> QED
          BY <4>1 DEF Frame
      <3>2. stack[1].dir \in S
        BY <1>1
      <3> QED
        BY <3>1, <3>2
    <2>2. PICK d \in S : \A i \in DOMAIN F.entries[d] :
                           F.entries[d][i].kind \in Links =>
                             \A k \in DOMAIN F.entries[d][i].to : F.entries[d][i].to[k] \notin S
      <3> HIDE DEF S
      <3> QED
        BY <2>1, RootTree DEF NoCycle
    <2>3. PICK n \in 1..Len(stack) : n < Len(stack) /\ stack[n].dir = d
      <3>1. PICK m \in 1..Len(stack) : stack[m].dir = d
        BY <2>2
      <3>2. CASE m < Len(stack)
        BY <3>1, <3>2
      <3>3. CASE ~(m < Len(stack))
        <4>1. m = Len(stack) /\ 1 \in 1..Len(stack) /\ 1 < Len(stack)
          <5>1. PICK l : l = Len(stack)
            OBVIOUS
          <5>2. l \in Nat /\ l >= 1 /\ l # 1 /\ m \in 1..l /\ ~(m < l)
            BY <1>1, <1>3, <3>3, <5>1
          <5>3. m = l /\ 1 \in 1..l /\ 1 < l
            BY ONLY <5>2
          <5> QED
            BY <5>1, <5>3
        <4>2. d = stack[1].dir
          BY <1>2, <3>1, <4>1 DEF Top
        <4> QED
          BY <4>1, <4>2
      <3> QED
        BY <3>2, <3>3
    <2>4. PICK fr : fr = stack[n]
      OBVIOUS
    <2>5. /\ fr \in Frame /\ Suspended(fr) /\ Goes(F, fr, make, model) /\ fr.dir = d
          /\ stack[n + 1].dir = Child(fr) /\ n + 1 \in 1..Len(stack)
      <3>1. n \in 1..Len(stack) /\ n < Len(stack) /\ fr = stack[n] /\ n + 1 \in 1..Len(stack)
        BY <1>1, <2>3, <2>4
      <3>2. Suspended(fr) /\ stack[n + 1].dir = Child(fr)
        BY <3>1, Zenon DEF StepInv, StackInv
      <3>3. Goes(F, fr, make, model)
        BY <3>1, Zenon DEF Standing, Placed, CallPlaced
      <3>4. fr \in Frame
        BY <1>1, <3>1
      <3> QED
        BY <2>3, <3>1, <3>2, <3>3, <3>4, Zenon
    <2>6. PICK w : w = Walked(F, fr)
      OBVIOUS
    <2>7. /\ fr.i <= Len(F.entries[d]) /\ Current(fr) \in Entry
          /\ w + 1 <= Len(Current(fr).to)
          /\ Child(fr) = Current(fr).to[w + 1] /\ Current(fr) = F.entries[d][fr.i]
      BY <2>5, <2>6, SuspendedLeads DEF Leads, Current
    <2>8. Current(fr).kind \in Links
      BY <2>5 DEF Suspended, Links
    <2>9. w \in Nat
      BY <2>5, <2>6 DEF Walked, Frame
    <2>10. w + 1 \in DOMAIN Current(fr).to
      <3>1. Current(fr).to \in Seq(Dir)
        BY <2>7 DEF Entry
      <3>2. PICK t : t = Current(fr).to
        OBVIOUS
      <3>3. t \in Seq(Dir) /\ w \in Nat /\ w + 1 <= Len(t)
        BY <2>7, <2>9, <3>1, <3>2
      <3>4. w + 1 \in DOMAIN t
        BY ONLY <3>3
      <3> QED
        BY <3>2, <3>4
    <2>11. fr.i \in DOMAIN F.entries[d]
      <3>1. F.entries[d] \in Seq(Entry) /\ fr.i \in Nat \ {0}
        BY <2>1, <2>2, <2>5, RootTree DEF File, Frame
      <3> QED
        BY <2>7, <3>1
    <2>12. Child(fr) \notin S
      <3> HIDE DEF S
      <3> QED
        BY <2>2, <2>7, <2>8, <2>10, <2>11
    <2>13. Child(fr) \in S
      BY <2>5
    <2> QED
      BY <2>12, <2>13
  <1> QED
    BY <1>2, <1>3

\* Make and Model come before every entry that leads to another directory.
LEMMA ListSetText ==
  ASSUME StepInv, Tree, ListInv, SetMake \/ SetModel
  PROVE  ListInv'
  <1> DEFINE x == [Top EXCEPT !.i = @ + 1]
  <1>1. /\ Reading /\ FinishEntry /\ Here.kind \in {"make", "model"}
    BY DEF SetMake, SetModel
  <1>2. /\ pc \in Running /\ pc = "entry" /\ pc' = "entry" /\ Top.i <= Len(F.entries[Top.dir])
        /\ UNCHANGED <<file, list>>
    BY <1>1 DEF Reading, FinishEntry, Running
  <1>3. /\ stack \in Seq(Frame) /\ Top \in Frame /\ F.entries[Top.dir] \in Seq(Entry)
    BY <1>2, TopFacts
  <1>4. /\ x \in Frame /\ x.dir = Top.dir /\ x.i = Top.i + 1
        /\ Top.dir \in Dir /\ Top.i \in Nat \ {0}
    <2>1. Top \in Frame
      BY <1>3
    <2> QED
      BY <2>1 DEF Frame
  <1>5. stack' = [stack EXCEPT ![Len(stack)] = x]
    BY <1>1 DEF FinishEntry, Top
  <1> HIDE DEF x
  <1>6. F.entries[Top.dir][Top.i] = Here /\ Top.i \in DOMAIN F.entries[Top.dir]
    BY <1>1, <1>2, <1>3, <1>4, ReadingFacts DEF Current
  <1>7. /\ Top.dir = F.root
        /\ \A j \in 1..Top.i : F.entries[F.root][j].kind \notin Links
    BY <1>1, <1>4, <1>6 DEF Tree, CameraFirst
  <1>8. PICK a : Standing(a)
    BY DEF ListInv
  <1>9. Len(stack) = 1 /\ stack[1].dir = F.root
    BY <1>2, <1>7, <1>8, RootOnce
  <1>10. F \in File /\ NoCycle(F) /\ F.root \in Dir /\ Preorder[1] = F.root
    BY RootTree
  <1>11. ASSUME NEW mk, NEW md
         PROVE  /\ Off(F, F.root, mk, md, Top.i, 0) = 1
                /\ Off(F, F.root, mk, md, Top.i + 1, 0) = 1
    <2>1. PICK f, d, m : f = F /\ d = F.root /\ m = Top.i
      OBVIOUS
    <2>2. /\ f \in File /\ NoCycle(f) /\ d \in Dir /\ m \in Nat \ {0} /\ m <= Len(f.entries[d])
          /\ \A j \in 1..m : f.entries[d][j].kind \notin Links
      BY <1>2, <1>4, <1>7, <1>10, <2>1
    <2>3. \A i \in Nat \ {0} : i <= m + 1 => Off(f, d, mk, md, i, 0) = 1
      BY ONLY <2>2, NoLinksOff
    <2>4. m <= m + 1 /\ m + 1 \in Nat \ {0} /\ m + 1 <= m + 1
      BY ONLY <2>2
    <2>5. Off(f, d, mk, md, m, 0) = 1 /\ Off(f, d, mk, md, m + 1, 0) = 1
      BY <2>2, <2>3, <2>4, Zenon
    <2> QED
      BY <2>1, <2>5
  <1>12. Len(list) = 1
    <2>1. a[1] = 0 /\ Len(list) = a[Len(stack)] + Reached(pc, F, Top, make, model)
      BY <1>2, <1>8, <1>9 DEF Standing, Placed, CallPlaced
    <2>2. Reached(pc, F, Top, make, model) = 1
      BY <1>2, <1>7, <1>11 DEF Reached, Place
    <2> QED
      BY <1>9, <2>1, <2>2
  <1>13. list[1].dir = F.root
    BY <1>10, <1>12 DEF ListInv, Prefixed
  <1>14. F' = F /\ list' = list
    BY <1>2 DEF F
  <1>15. PICK mk, md : mk = make' /\ md = model'
    OBVIOUS
  <1> DEFINE q == Preorders(F, mk, md)[F.root]
             b == <<0>>
  <1>16. q \in Seq(Dir) /\ Len(q) \in Nat /\ Len(q) >= 1 /\ q[1] = F.root
    BY <1>10, TreeFacts
  <1>17. Preorder' = q
    BY <1>14, <1>15 DEF Preorder
  <1> HIDE DEF q
  <1>18. /\ stack' \in Seq(Frame) /\ Len(stack') = 1 /\ Top' = x /\ stack'[1] = x
    <2>1. stack' \in Seq(Frame) /\ Top' = x /\ Len(stack') = Len(stack)
      BY <1>2, <1>4, <1>5, NewTop
    <2> QED
      BY <1>9, <2>1 DEF Top
  <1>19. Placed(b, stack', F, mk, md)
    <2>1. Part(q, 0, q)
      BY <1>16 DEF Part
    <2>2. Part(Preorders(F, mk, md)[F.root], 0, Preorders(F, mk, md)[stack'[1].dir])
      BY <1>4, <1>7, <1>18, <2>1 DEF q
    <2>3. Len(b) = 1 /\ b \in Seq(Nat) /\ b[1] = 0
      OBVIOUS
    <2> HIDE DEF b
    <2> QED
      BY <1>4, <1>7, <1>18, <2>2, <2>3 DEF Placed, CallPlaced
  <1>20. Reached(pc', F, x, mk, md) = 1
    BY <1>2, <1>4, <1>7, <1>11 DEF Reached, Place
  <1>21. Standing(b)'
    <2>1. b[1] = 0
      OBVIOUS
    <2> HIDE DEF b
    <2> QED
      BY <1>12, <1>14, <1>15, <1>18, <1>19, <1>20, <2>1 DEF Standing
  <1>22. \E h : Standing(h)'
    BY <1>21
  <1>23. Prefixed'
    BY <1>2, <1>12, <1>13, <1>14, <1>16, <1>17 DEF Prefixed
  <1>24. x.i <= Len(F.entries[x.dir]) + 1
    BY <1>2, <1>3, <1>4
  <1> QED
    BY <1>2, <1>14, <1>18, <1>22, <1>23, <1>24 DEF ListInv

\* ListInv is inductive relative to StepInv.
LEMMA ListStep ==
  ASSUME StepInv, Tree, ListInv, [Next]_vars
  PROVE  ListInv'
  BY ListEnter, ListEmpty, ListPlain, ListSetText, ListBeginSubIfds, ListCallSubIfd, ListCallLink,
     ListEnd, ListReturn, ListNextSubIfd, ListResume, ListStutter
     DEF Next, Stopped

\* ListInv gives the property.
LEMMA ListedFacts ==
  ASSUME StepInv, Tree, ListInv
  PROVE  ListedInPreorder
  <1>1. /\ Preorder \in Seq(Dir) /\ Len(Preorder) \in Nat
        /\ list \in Seq([dir : Dir, base : Dir \cup {NoDir, Zero}, order : ByteOrder])
        /\ Len(list) \in Nat
    BY RootTree
  <1>2. /\ Len(Listed) = Len(list) /\ Listed \in Seq(Dir)
        /\ \A n \in 1..Len(list) : Listed[n] = list[n].dir
    <2>1. PICK l : l = Len(list) /\ l \in Nat
      BY <1>1
    <2>2. \A n \in 1..l : list[n].dir \in Dir
      <3> DEFINE S == [dir : Dir, base : Dir \cup {NoDir, Zero}, order : ByteOrder]
      <3>1. list \in Seq(S)
        BY <1>1
      <3> HIDE DEF S
      <3>2. \A n \in 1..l : list[n] \in S
        BY <2>1, <3>1
      <3> QED
        BY <3>2 DEF S
    <2>3. Listed = [n \in 1..l |-> list[n].dir]
      BY <2>1 DEF Listed
    <2> QED
      BY <2>1, <2>2, <2>3
  <1>3. /\ Len(list) <= Len(Preorder) /\ \A n \in 1..Len(list) : Listed[n] = Preorder[n]
        /\ pc = "done" => Len(list) = Len(Preorder)
        /\ pc = "empty" => /\ Len(list) < Len(Preorder)
                           /\ F.entries[Preorder[Len(list) + 1]] = <<>>
    BY <1>2 DEF ListInv, Prefixed
  <1>4. IsPrefix(Listed, Preorder)
    <2>1. /\ SubSeq(Preorder, 1, Len(list)) \in Seq(Dir)
          /\ Len(SubSeq(Preorder, 1, Len(list))) = Len(list)
          /\ \A n \in 1..Len(list) : SubSeq(Preorder, 1, Len(list))[n] = Preorder[n]
      BY <1>1, <1>3, PrefixOfSeq
    <2>2. SubSeq(Preorder, 1, Len(list)) = Listed
      <3>1. PICK s : s = SubSeq(Preorder, 1, Len(list))
        OBVIOUS
      <3>2. s = Listed
        BY <1>2, <1>3, <2>1, <3>1, SeqEqual
      <3> QED
        BY <3>1, <3>2
    <2> QED
      BY <1>2, <1>3, <2>2 DEF IsPrefix
  <1>5. pc = "done" => Listed = Preorder
    BY <1>1, <1>2, <1>3, SeqEqual
  <1> QED
    BY <1>2, <1>3, <1>4, <1>5 DEF ListedInPreorder

-----------------------------------------------------------------------------
(* The theorems. *)

\* The directory of the thumbnail of a D100 or D2H is located from the header of the
\* maker note that holds its tag: whatever maker notes the file has, one after the
\* other, the global holds the base of the right one.
THEOREM BaseCorrect == Spec => []ThumbnailBase
  <1>1. Init => BaseInv
    BY BaseInit
  <1>2. StepInv /\ BaseInv /\ [Next]_vars => BaseInv'
    BY BaseStep
  <1>3. StepInv /\ BaseInv => ThumbnailBase
    BY BaseRight
  <1> QED
    BY <1>1, <1>2, <1>3, StepInvariant, PTL DEF Spec

\* What one directory leaves in a global and another one uses is right, when the
\* files have their tags in order and no earlier file left a Nikon make: the base of
\* the maker note, the two halves of the thumbnail's range, and the make.
THEOREM SharedGlobalsCorrect ==
  ASSUME \A n \in Files : TagsInOrder(Layout[n]), StartTexts \cap NikonMakes = {}
  PROVE  Spec => []SharedGlobalsRight
  <1> DEFINE Inv == BaseInv /\ PairInv /\ CameraInv
  <1>1. StepInv => TagsInOrder(F)
    BY DEF StepInv, TypeOK, F
  <1>2. Init => Inv
    BY BaseInit, PairInit, CameraInit
  <1>3. StepInv /\ Inv /\ [Next]_vars => Inv'
    BY <1>1, BaseStep, PairStep, CameraStep
  <1>4. StepInv /\ Inv => SharedGlobalsRight
    BY BaseRight, CameraRight DEF SharedGlobalsRight, PairInv, Halfway, Reading, ThumbnailPair
  <1> HIDE DEF Inv
  <1> QED
    BY <1>2, <1>3, <1>4, StepInvariant, PTL DEF Spec

\* The list of directories that display_data goes through is at every moment the
\* beginning of the preorder of the tree of directories, all of it when the walk is
\* done: for every file whose directories form a tree and whose Make and Model come
\* before its links, however deep the tree and however many entries lead on.
THEOREM PreorderCorrect ==
  ASSUME \A n \in Files : NoCycle(Layout[n]) /\ CameraFirst(Layout[n])
  PROVE  Spec => []ListedInPreorder
  <1>1. StepInv => Tree
    BY DEF StepInv, TypeOK, Tree, F
  <1>2. Init => StepInv /\ ListInv
    BY <1>1, InitStep, ListInit
  <1>3. StepInv /\ ListInv /\ [Next]_vars => (StepInv /\ ListInv)'
    BY <1>1, StepInvStep, ListStep
  <1>4. StepInv /\ ListInv => ListedInPreorder
    BY <1>1, ListedFacts
  <1> QED
    BY <1>2, <1>3, <1>4, PTL DEF Spec
=============================================================================
