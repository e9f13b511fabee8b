------------------------------ MODULE IfdWalk ------------------------------
(***************************************************************************)
(* The walk over the image file directories (IFDs) of one NEF or JPG file: *)
(* dump_image_file_directory of d70reader.c, which calls itself for        *)
(* SubIFDs, the EXIF directory, the Nikon maker note and the thumbnail     *)
(* directory of a D100 or a D2H.  The C call stack is the variable stack,  *)
(* one frame per active call; what the calls share through globals (the    *)
(* byte order, its saved copy, make, model, the maker-note base) and the   *)
(* position of the one FILE they all read are variables of their own.      *)
(*                                                                         *)
(* A file is abstract: a directory is a name, an entry is its kind and the *)
(* directories it points to.  Values that the walk only formats for        *)
(* display are entries of kind "plain".                                    *)
(***************************************************************************)
EXTENDS Naturals, Sequences, SequencesExt

CONSTANTS
  Dir,          \* the directories a file can hold
  NoDir,        \* stands for the TIFF header: jpg_type_offset() as a base
  Zero,         \* the literal base 0 that SubIFDs are read with
  Text,         \* the strings a Make or a Model entry can hold
  NoText,       \* a NULL make_ptr or model_ptr
  NikonMakes,   \* the makes whose upper case begins with NIKON
  ThumbModels,  \* the models that begin with NIKON D100 or NIKON D2H
  Files,        \* the names of the files the walk may meet
  Layout,       \* what each of them holds
  StartTexts    \* what an earlier file may have left in make_ptr, model_ptr

ByteOrder == {"II", "MM"}

Kinds == {"plain", "make", "shortMake", "model", "thumbOffset", "thumbLength",
          "subIfds", "exif", "makerNote", "thumbIfd"}

Entry == [kind : Kinds, to : Seq(Dir), text : Text, header : ByteOrder \cup {"bad"}]

\* home[d] names the maker note whose private header governs d, or NoDir when
\* d is governed by the TIFF header; order[h] is the byte order that header
\* declares, and so the byte order d was really written in.
File == [root : Dir,
         entries : [Dir -> Seq(Entry)],
         home : [Dir -> Dir \cup {NoDir}],
         order : [Dir \cup {NoDir} -> ByteOrder]]

\* The order directory d of file f was written in.
OrderOf(f, d) == f.order[f.home[d]]

\* What cameras write: a link stays under the header of its own directory,
\* except that a maker note (never nested in another one) starts a new header,
\* and the thumbnail directory tag exists in maker notes only.
LinkOK(f, d, e, t) ==
  IF e.kind = "makerNote"
    THEN /\ f.home[d] = NoDir
         /\ f.home[t] = t
         /\ e.header # "bad" => e.header = f.order[t]
    ELSE f.home[t] = f.home[d]

WellFormed(f) ==
  /\ f.home[f.root] = NoDir
  /\ \A d \in Dir : \A i \in DOMAIN f.entries[d] :
       LET e == f.entries[d][i]
       IN  /\ \A k \in DOMAIN e.to : LinkOK(f, d, e, e.to[k])
           /\ e.kind \in {"exif", "makerNote", "thumbIfd"} => Len(e.to) = 1
           /\ e.kind = "thumbIfd" => f.home[d] # NoDir

\* Tags are in ascending order, as TIFF asks, so that the offset of a thumbnail
\* (0x0201) is followed by its length (0x0202); and a Make stands in IFD0 only.
\* The walk relies on neither; what it leaves in its globals does.
TagsInOrder(f) ==
  \A d \in Dir : \A i \in DOMAIN f.entries[d] :
    LET Has(j, kind) == j \in DOMAIN f.entries[d] /\ f.entries[d][j].kind = kind
    IN  /\ Has(i, "thumbOffset") => Has(i + 1, "thumbLength")
        /\ Has(i, "thumbLength") => i > 1 /\ Has(i - 1, "thumbOffset")
        /\ Has(i, "make") => d = f.root

\* The kinds of entries that may lead to other directories.
Links == {"subIfds", "exif", "makerNote", "thumbIfd"}

\* Make and Model (tags 0x010f and 0x0110) come before every link of IFD0 (0x014a
\* and up) and stand in no other directory: one camera wrote the whole file.
CameraFirst(f) ==
  \A d \in Dir : \A i \in DOMAIN f.entries[d] :
    f.entries[d][i].kind \in {"make", "model"} =>
      d = f.root /\ \A j \in 1..i : f.entries[d][j].kind \notin Links

\* No directory leads back to itself: every set of directories has one that leads
\* out of the set or nowhere.
NoCycle(f) ==
  \A S \in (SUBSET Dir) \ {{}} : \E d \in S : \A i \in DOMAIN f.entries[d] :
    LET e == f.entries[d][i]
    IN  e.kind \in Links => \A k \in DOMAIN e.to : e.to[k] \notin S

ASSUME DirAssumption == NoDir \notin Dir /\ Zero \notin Dir
ASSUME TextAssumption == /\ NoText \notin Text
                         /\ NikonMakes \subseteq Text
                         /\ ThumbModels \subseteq Text
                         /\ StartTexts \subseteq Text \cup {NoText}
ASSUME FilesAssumption ==
  \A n \in Files : Layout[n] \in File /\ WellFormed(Layout[n])

-----------------------------------------------------------------------------
VARIABLES
  file,      \* the file being read; never changes
  stack,     \* the active calls, the innermost last
  pos,       \* where the shared FILE stands
  pc,        \* what the innermost call does next, or how the walk ended
  motorola,  \* MotorolaOrder
  oldOrder,  \* old_byte_order, one global for every maker note
  make,      \* make_ptr
  model,     \* model_ptr
  calc,      \* calc_maker_note_header_offset: the maker note whose header it is
             \* (NoDir: of none in this file, a value left by an earlier one)
  thumbOff,  \* the directory lThumbnailOffset was taken from
  thumbLen,  \* the directory lThumbnailLength was taken from
  list       \* the list that starts at main_header_start_ptr

globals == <<make, model, calc, thumbOff, thumbLen>>
vars == <<file, stack, pos, pc, motorola, oldOrder, make, model, calc,
          thumbOff, thumbLen, list>>

\* A position is before entry i of a directory (k = 0) or before element k of
\* the array that entry i points to.
Position == [dir : Dir, i : Nat \ {0}, k : Nat]
At(d, i, k) == [dir |-> d, i |-> i, k |-> k]

\* One call: its directory and base, ctr1 and ctr3 counted from 1 and 0, and
\* the two positions it saves in locals.
Frame == [dir : Dir, base : Dir \cup {NoDir, Zero}, i : Nat \ {0}, k : Nat,
          old : Position, temp : Position]
NewFrame(d, b) ==
  [dir |-> d, base |-> b, i |-> 1, k |-> 0, old |-> At(d, 1, 0), temp |-> At(d, 1, 0)]

Running == {"enter", "entry", "subs", "resume"}
Ended == {"done", "empty", "exit", "crash"}

F == Layout[file]
Top == stack[Len(stack)]
Below == SubSeq(stack, 1, Len(stack) - 1)
Current(fr) == F.entries[fr.dir][fr.i]

\* What fread returns: the entry where the FILE stands.
Here == F.entries[pos.dir][pos.i]
AfterEntry == At(pos.dir, pos.i + 1, 0)
Reading == pc = "entry" /\ Top.i <= Len(F.entries[Top.dir])

Init ==
  /\ file \in Files
  /\ stack = <<NewFrame(F.root, NoDir)>>
  /\ pos = At(F.root, 1, 0)
  /\ pc = "enter"
  /\ motorola = F.order[NoDir]
  /\ oldOrder \in ByteOrder
  /\ make \in StartTexts
  /\ model \in StartTexts
  /\ calc = NoDir
  /\ thumbOff = NoDir
  /\ thumbLen = NoDir
  /\ list = <<>>

-----------------------------------------------------------------------------
(* Entering a directory. *)

\* Seek to the directory, read a count that is not zero, and append a node to
\* the list of directories.
Enter ==
  /\ pc = "enter"
  /\ F.entries[Top.dir] # <<>>
  /\ list' = Append(list, [dir |-> Top.dir, base |-> Top.base, order |-> motorola])
  /\ pos' = At(Top.dir, 1, 0)
  /\ pc' = "entry"
  /\ UNCHANGED <<file, stack, motorola, oldOrder, globals>>

\* Mutant: only the innermost call returns.
EmptyIfdReturnsOnce ==
  /\ pc = "enter"
  /\ F.entries[Top.dir] = <<>>
  /\ stack' = Below
  /\ pc' = "empty"
  /\ UNCHANGED <<file, pos, motorola, oldOrder, globals, list>>

\* A count of zero: this call returns 1, and so does every caller, at once.
EmptyIfd ==
  /\ pc = "enter"
  /\ F.entries[Top.dir] = <<>>
  /\ stack' = <<>>
  /\ pc' = "empty"
  /\ UNCHANGED <<file, pos, motorola, oldOrder, globals, list>>

-----------------------------------------------------------------------------
(* Entries handled without another call.  Each one fetches its value         *)
(* somewhere in the file and then seeks back to the end of the entry.        *)

\* Mutant: an entry is not left once it is read.
StuckEntry ==
  UNCHANGED <<stack, pos, file, pc, motorola, oldOrder, calc, list>>

FinishEntry ==
  /\ stack' = [stack EXCEPT ![Len(stack)].i = @ + 1]
  /\ pos' = AfterEntry
  /\ UNCHANGED <<file, pc, motorola, oldOrder, calc, list>>

IsNikon == make \in NikonMakes

\* A maker note of another camera, a thumbnail directory of another model and
\* a SubIFD entry with a single pointer are only formatted.
NotFollowed(e) ==
  \/ e.kind \in {"plain", "shortMake"}
  \/ e.kind = "subIfds" /\ Len(e.to) < 2
  \/ e.kind = "makerNote" /\ make # NoText /\ ~IsNikon
  \/ e.kind = "thumbIfd" /\ model \notin ThumbModels \cup {NoText}

PlainEntry ==
  /\ Reading
  /\ NotFollowed(Here)
  /\ FinishEntry
  /\ UNCHANGED <<make, model, thumbOff, thumbLen>>

\* Make and Model are kept only when the string is longer than four bytes.
SetMake ==
  /\ Reading
  /\ Here.kind = "make"
  /\ make' = Here.text
  /\ FinishEntry
  /\ UNCHANGED <<model, thumbOff, thumbLen>>

SetModel ==
  /\ Reading
  /\ Here.kind = "model"
  /\ model' = Here.text
  /\ FinishEntry
  /\ UNCHANGED <<make, thumbOff, thumbLen>>

SetThumbnailOffset ==
  /\ Reading
  /\ Here.kind = "thumbOffset"
  /\ thumbOff' = Top.dir
  /\ FinishEntry
  /\ UNCHANGED <<make, model, thumbLen>>

\* Mutant: the first length is kept, the last offset.
FirstLengthWins ==
  /\ Reading
  /\ Here.kind = "thumbLength"
  /\ thumbLen' = IF thumbLen = NoDir THEN Top.dir ELSE thumbLen
  /\ FinishEntry
  /\ UNCHANGED <<make, model, thumbOff>>

SetThumbnailLength ==
  /\ Reading
  /\ Here.kind = "thumbLength"
  /\ thumbLen' = Top.dir
  /\ FinishEntry
  /\ UNCHANGED <<make, model, thumbOff>>

-----------------------------------------------------------------------------
(* Entries that lead to another directory. *)

\* Save the positions to return to, and call with directory d and base b.
Call(old, temp, d, b) ==
  /\ stack' = Append([stack EXCEPT ![Len(stack)].old = old, ![Len(stack)].temp = temp],
                     NewFrame(d, b))
  /\ pos' = temp
  /\ pc' = "enter"

BeginSubIfds ==
  /\ Reading
  /\ Here.kind = "subIfds"
  /\ Len(Here.to) >= 2
  /\ stack' = [stack EXCEPT ![Len(stack)].old = AfterEntry, ![Len(stack)].k = 0]
  /\ pos' = At(pos.dir, pos.i, 1)
  /\ pc' = "subs"
  /\ UNCHANGED <<file, motorola, oldOrder, globals, list>>

CallSubIfd ==
  /\ pc = "subs"
  /\ Call(Top.old, [pos EXCEPT !.k = @ + 1], Here.to[pos.k], Zero)
  /\ UNCHANGED <<file, motorola, oldOrder, globals, list>>

CallExif ==
  /\ Reading
  /\ Here.kind = "exif"
  /\ Call(AfterEntry, AfterEntry, Here.to[1], NoDir)
  /\ UNCHANGED <<file, motorola, oldOrder, globals, list>>

MakerNoteBase == Here.to[1]

\* The byte order goes to the one saved copy, and the header of the maker note
\* sets its own.
CallMakerNote ==
  /\ Reading
  /\ Here.kind = "makerNote"
  /\ IsNikon
  /\ Here.header # "bad"
  /\ oldOrder' = motorola
  /\ calc' = MakerNoteBase
  /\ motorola' = Here.header
  /\ Call(AfterEntry, AfterEntry, Here.to[1], Here.to[1])
  /\ UNCHANGED <<file, make, model, thumbOff, thumbLen, list>>

\* A header that is not a TIFF header ends the program.
BadMakerHeader ==
  /\ Reading
  /\ Here.kind = "makerNote"
  /\ IsNikon
  /\ Here.header = "bad"
  /\ oldOrder' = motorola
  /\ calc' = MakerNoteBase
  /\ stack' = <<>>
  /\ pc' = "exit"
  /\ UNCHANGED <<file, pos, motorola, make, model, thumbOff, thumbLen, list>>

CallThumbIfd ==
  /\ Reading
  /\ Here.kind = "thumbIfd"
  /\ model \in ThumbModels
  /\ Call(AfterEntry, AfterEntry, Here.to[1], calc)
  /\ UNCHANGED <<file, motorola, oldOrder, globals, list>>

\* upper_case(NULL): a maker note before any Make, or a thumbnail directory
\* before any Model.
NullText ==
  /\ Reading
  /\ \/ Here.kind = "makerNote" /\ make = NoText
     \/ Here.kind = "thumbIfd" /\ model = NoText
  /\ stack' = <<>>
  /\ pc' = "crash"
  /\ UNCHANGED <<file, pos, motorola, oldOrder, globals, list>>

-----------------------------------------------------------------------------
(* Returning.  The caller restores what it saved for this kind of entry.     *)

Return ==
  /\ pc = "entry"
  /\ Top.i > Len(F.entries[Top.dir])
  /\ stack' = Below
  /\ pc' = IF Len(stack) = 1 THEN "done" ELSE "resume"
  /\ UNCHANGED <<file, pos, motorola, oldOrder, globals, list>>

\* Mutant: the last SubIFD is left out.
AllButLast == Top.k + 2 < Len(Current(Top).to)

MoreSubIfds == Top.k + 1 < Len(Current(Top).to)

\* Between two SubIFDs the array position is restored.
NextSubIfd ==
  /\ pc = "resume"
  /\ Current(Top).kind = "subIfds"
  /\ MoreSubIfds
  /\ stack' = [stack EXCEPT ![Len(stack)].k = @ + 1]
  /\ pos' = Top.temp
  /\ pc' = "subs"
  /\ UNCHANGED <<file, motorola, oldOrder, globals, list>>

\* Mutant: the byte order of the maker note stays.
KeepOrder == motorola

\* After a maker note the saved byte order is restored.
RestoredOrder == IF Current(Top).kind = "makerNote" THEN oldOrder ELSE motorola

\* Mutant: the FILE stays where the nested directory left it.
StayPut == pos

RestoredPosition == Top.old

\* After the last call of an entry, the position after the entry is restored.
ResumeEntry ==
  /\ pc = "resume"
  /\ Current(Top).kind = "subIfds" => ~MoreSubIfds
  /\ motorola' = RestoredOrder
  /\ stack' = [stack EXCEPT ![Len(stack)].i = @ + 1, ![Len(stack)].k = 0]
  /\ pos' = RestoredPosition
  /\ pc' = "entry"
  /\ UNCHANGED <<file, oldOrder, globals, list>>

\* The walk has ended and nothing further happens to this file.
Stopped == pc \in Ended /\ UNCHANGED vars

Next ==
  \/ Enter \/ EmptyIfd
  \/ PlainEntry \/ SetMake \/ SetModel \/ SetThumbnailOffset \/ SetThumbnailLength
  \/ BeginSubIfds \/ CallSubIfd \/ CallExif
  \/ CallMakerNote \/ BadMakerHeader \/ CallThumbIfd \/ NullText
  \/ Return \/ NextSubIfd \/ ResumeEntry
  \/ Stopped

\* The program is sequential: the walk keeps running until it ends.
Spec == Init /\ [][Next]_vars /\ WF_vars(Next)

-----------------------------------------------------------------------------
(* Properties *)

\* Every variable has its type; a running walk has a frame and an ended one
\* has none.
TypeOK ==
  /\ file \in Files
  /\ stack \in Seq(Frame)
  /\ pos \in Position
  /\ pc \in Running \cup Ended
  /\ (pc \in Running) <=> (stack # <<>>)
  /\ motorola \in ByteOrder
  /\ oldOrder \in ByteOrder
  /\ make \in Text \cup {NoText}
  /\ model \in Text \cup {NoText}
  /\ {calc, thumbOff, thumbLen} \subseteq Dir \cup {NoDir}
  /\ list \in Seq([dir : Dir, base : Dir \cup {NoDir, Zero}, order : ByteOrder])

\* Whatever a value or a nested directory made the walk read elsewhere, the
\* next entry, and the next SubIFD pointer, is read from its own place in the
\* directory of the innermost call.
PositionRestored ==
  /\ pc = "entry" => pos = At(Top.dir, Top.i, 0)
  /\ pc = "subs" => pos = At(Top.dir, Top.i, Top.k + 1)

\* Every directory, and every entry after a nested directory, is decoded in
\* the byte order it was written in.
ByteOrderRight ==
  /\ pc \in {"enter", "entry", "subs"} => motorola = OrderOf(F, Top.dir)
  /\ \A n \in 1..Len(list) : list[n].order = OrderOf(F, list[n].dir)

\* The thumbnail directory of a D100 or a D2H is located from the header of
\* the maker note that holds its tag, although that header comes from a global.
ThumbnailBase ==
  pc = "entry" /\ Top.i <= Len(F.entries[Top.dir]) /\ Current(Top).kind = "thumbIfd"
    => calc = F.home[Top.dir]

\* When the walk succeeds, the thumbnail's offset and its length, two globals
\* that every directory may overwrite, describe the same thumbnail.
ThumbnailPair == pc = "done" => thumbOff = thumbLen

\* Only Nikon maker notes are followed (the note of version 0.16 in
\* d70reader.c: "Only process MakerNotes for Nikon cameras").
FileMakes ==
  {e.text : e \in {F.entries[F.root][i] : i \in
     {j \in DOMAIN F.entries[F.root] :
        F.entries[F.root][j].kind \in {"make", "shortMake"}}}}
OnlyNikonMakerNotes ==
  (\E n \in 1..Len(list) : list[n].base = list[n].dir) => FileMakes \cap NikonMakes # {}

\* What one directory leaves in a global and another one uses is right: the base of
\* the maker note, the two halves of the thumbnail's range, and the make.
SharedGlobalsRight == ThumbnailBase /\ ThumbnailPair /\ OnlyNikonMakerNotes

\* What entry e leads to for a camera of make mk and model md.
Followed(e, mk, md) ==
  CASE e.kind = "exif" -> e.to
    [] e.kind = "subIfds" -> IF Len(e.to) > 1 THEN e.to ELSE <<>>
    [] e.kind = "makerNote" -> IF mk \in NikonMakes THEN e.to ELSE <<>>
    [] e.kind = "thumbIfd" -> IF md \in ThumbModels THEN e.to ELSE <<>>
    [] OTHER -> <<>>

\* The directories that directory d of file f leads to, in the order of its entries.
Targets(f, d, mk, md) ==
  FlattenSeq([i \in 1..Len(f.entries[d]) |-> Followed(f.entries[d][i], mk, md)])

\* The preorder of the tree below each directory: the directory itself, then the
\* trees below those it leads to.
Preorders(f, mk, md) ==
  LET pre[d \in Dir] ==
        LET t == Targets(f, d, mk, md)
        IN  <<d>> \o FlattenSeq([j \in 1..Len(t) |-> pre[t[j]]])
  IN  pre

Preorder == Preorders(F, make, model)[F.root]
Listed == [n \in 1..Len(list) |-> list[n].dir]

\* The list of directories that display_data later goes through, where the
\* first directory with a tag wins, is at every moment the beginning of the
\* preorder of the tree of directories: all of it once the walk is done, and the
\* part before the empty directory when it stopped there.
ListedInPreorder ==
  /\ IsPrefix(Listed, Preorder)
  /\ pc = "done" => Listed = Preorder
  /\ pc = "empty" => /\ Len(Listed) < Len(Preorder)
                     /\ F.entries[Preorder[Len(Listed) + 1]] = <<>>

\* The walk of a file without a cycle of directories ends.
WalkEnds == <>(pc \in Ended)

=============================================================================
