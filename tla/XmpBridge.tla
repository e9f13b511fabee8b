----------------------------- MODULE XmpBridge -----------------------------
(***************************************************************************)
(* From an XMP packet to rows: xmp_display (XAPDumper.cpp) parses every    *)
(* packet that the scanner of the XMP SDK found in the APP1 segment,       *)
(* FancyDumpMetaXAP and DumpSubtree (XMPGizmos.cpp) put its properties in  *)
(* a linked list, a second list is made of those that have a tag, and      *)
(* ProcessFile prints that.                                                *)
(*                                                                         *)
(* A packet is the sequence of its properties in document order; the depth *)
(* says whose child a property is.  An element of a list is known by the   *)
(* property it was made for; pointers are indexes of `heap', 0 is NULL.    *)
(***************************************************************************)
EXTENDS Integers, Sequences

CONSTANT Files    \* what the scanner may find in a file: sequences of snips

TopNames == {"WhiteBalance", "Lens", "DateTimeOriginal", "ColorSpace"}
SubNames == {"Function", "Fired"}

\* "none" is a property without a value of its own: a structure or an array; "date" is
\* a date without a time.  What other texts are changed to is left out.
Texts == {"date", "date time", "other", "none"}
Property == [name : TopNames \cup SubNames \cup {"Other"}, text : Texts, depth : Nat \ {0}]

\* A snip is a packet or what lies between packets; the SDK may not parse it.
Snip == [packet : BOOLEAN, parses : BOOLEAN, props : Seq(Property)]

\* A property is one step deeper than its parent.
IsTree(props) ==
  \A i \in DOMAIN props :
    props[i].depth <= IF i = 1 THEN 1 ELSE props[i - 1].depth + 1

ASSUME FilesAssumption ==
  \A f \in Files : f \in Seq(Snip) /\ f # <<>> /\ \A s \in DOMAIN f : IsTree(f[s].props)

-----------------------------------------------------------------------------
VARIABLES
  file,    \* the snips; never changes
  snip,    \* the one at hand
  pc,      \* what happens next
  at,      \* the property that the enumerations come to
  heap,    \* the list elements made for this packet
  calls,   \* for each call, outermost first: the head and the end of its list
  from,    \* the element that the loop over the tagged elements comes to
  rows,    \* the properties of the tagged elements so far
  result   \* what xmp_display returns: the snip and the properties; none is NULL

vars == <<file, snip, pc, at, heap, calls, from, rows, result>>

Null == [of |-> 0, rows |-> <<>>]
Props == file[snip].props
Top == calls[Len(calls)]

Init ==
  /\ file \in Files
  /\ snip = 1
  /\ pc = "snips"
  /\ at = 1
  /\ heap = <<>>
  /\ calls = <<>>
  /\ from = 0
  /\ rows = <<>>
  /\ result = Null

-----------------------------------------------------------------------------
(* xmp_display. *)

\* One snip is the whole text: there is no packet.
NoPackets ==
  /\ pc = "snips" /\ Len(file) = 1
  /\ pc' = "print"
  /\ UNCHANGED <<file, snip, at, heap, calls, from, rows, result>>

MoreSnips == pc = "snips" /\ Len(file) > 1 /\ snip <= Len(file)

NotAPacket ==
  /\ MoreSnips /\ ~file[snip].packet
  /\ snip' = snip + 1
  /\ UNCHANGED <<file, pc, at, heap, calls, from, rows, result>>

\* ParseSubstring returns NULL, and that is the result.
\* Mutant: the result of the packet before stays.
KeepsResult == result
NoMetaXAP == Null
NotParsed ==
  /\ MoreSnips /\ file[snip].packet /\ ~file[snip].parses
  /\ snip' = snip + 1
  /\ result' = NoMetaXAP
  /\ UNCHANGED <<file, pc, at, heap, calls, from, rows>>

\* The pointers of a call are its own.
\* Mutant: the one of the call before is used, whose list is gone.
KeptPointer == from
NewPointer == 0
BeginDump ==
  /\ MoreSnips /\ file[snip].packet /\ file[snip].parses
  /\ pc' = "dump"
  /\ at' = 1
  /\ heap' = <<>>
  /\ calls' = <<[head |-> 0, last |-> 0]>>
  /\ from' = NewPointer
  /\ rows' = <<>>
  /\ UNCHANGED <<file, snip, result>>

AllSnips ==
  /\ pc = "snips" /\ Len(file) > 1 /\ snip > Len(file)
  /\ pc' = "print"
  /\ UNCHANGED <<file, snip, at, heap, calls, from, rows, result>>

-----------------------------------------------------------------------------
(* The tags that ProcessFile will print. *)

Tag(p) ==
  CASE p.depth = 1 /\ p.name = "WhiteBalance" -> 5
    [] p.depth = 1 /\ p.name = "Lens" -> 132
    [] p.depth = 1 /\ p.name = "DateTimeOriginal" /\ p.text # "none" -> 36868
    [] p.depth = 1 /\ p.name = "ColorSpace" /\ p.text # "none" -> 141
    [] p.depth > 1 /\ p.name = "Function" /\ p.text # "none" -> 8
    [] p.depth > 1 /\ p.name = "Fired" /\ p.text # "none" -> 9
    [] OTHER -> 0

\* A date without a time has no "T" to be replaced: replace throws an exception.
Throws(p) == p.depth = 1 /\ p.name = "DateTimeOriginal" /\ p.text \notin {"none", "date time"}

-----------------------------------------------------------------------------
(* FancyDumpMetaXAP, the outermost call, and DumpSubtree, the others. *)

\* The call that enumerates the properties of this depth is the last one.
HasMorePaths == at <= Len(Props) /\ Props[at].depth = Len(calls)

New == Len(heap) + 1
Linked(e, next) == [heap EXCEPT ![e].next = next]

\* An element for the next property, at the end of the list of its call, and the
\* call for its children.
Visit ==
  /\ pc = "dump" /\ HasMorePaths /\ ~Throws(Props[at])
  /\ LET made == [prop |-> at, next |-> 0]
     IN  /\ heap' = Append(IF Top.last = 0 THEN heap ELSE Linked(Top.last, New), made)
         /\ calls' = Append([calls EXCEPT ![Len(calls)] =
                               [head |-> IF Top.last = 0 THEN New ELSE @.head, last |-> New]],
                            [head |-> 0, last |-> 0])
  /\ at' = at + 1
  /\ UNCHANGED <<file, snip, pc, from, rows, result>>

\* The exception is caught in xmp_display, which leaves its loop.
Throw ==
  /\ pc = "dump" /\ HasMorePaths /\ Throws(Props[at])
  /\ pc' = "print"
  /\ calls' = <<>>
  /\ UNCHANGED <<file, snip, at, heap, from, rows, result>>

\* The end of the list that begins at e; an element is younger than the one before it.
LastOf(e) ==
  LET last[f \in DOMAIN heap] == IF heap[f].next = 0 THEN f ELSE last[heap[f].next]
  IN  last[e]

\* The end of the caller's list when a call returned the list that begins at sub.
\* DumpSubtree follows that list until its pointer is NULL.
\* Mutant: FancyDumpMetaXAP does so as well.
NoEnd(depth, sub) == 0
EndAfterSub(depth, sub) == IF depth = 1 THEN LastOf(sub) ELSE 0

Returns == pc = "dump" /\ ~HasMorePaths

Return ==
  /\ Returns /\ Len(calls) > 1
  /\ LET depth == Len(calls) - 1
         caller == calls[depth]
     IN  IF Top.head = 0
           THEN calls' = SubSeq(calls, 1, depth) /\ UNCHANGED heap
           ELSE /\ heap' = Linked(caller.last, Top.head)
                /\ calls' = [SubSeq(calls, 1, depth) EXCEPT ![depth].last = EndAfterSub(depth, Top.head)]
  /\ UNCHANGED <<file, snip, pc, at, from, rows, result>>

\* All properties are listed; an empty list is NULL.
EndDump ==
  /\ Returns /\ Len(calls) = 1
  /\ from' = Top.head
  /\ calls' = <<>>
  /\ IF Top.head = 0
       THEN pc' = "snips" /\ snip' = snip + 1 /\ result' = Null
       ELSE pc' = "tagged" /\ UNCHANGED <<snip, result>>
  /\ UNCHANGED <<file, at, heap, rows>>

-----------------------------------------------------------------------------
(* The second list. *)

WithTagged(e) == IF Tag(Props[heap[e].prop]) = 0 THEN rows ELSE Append(rows, heap[e].prop)

\* The element is copied if it has a tag; the loop ends at the last element, which
\* is not looked at.
Copy ==
  /\ pc = "tagged" /\ heap[from].next # 0
  /\ rows' = WithTagged(from)
  /\ from' = heap[from].next
  /\ IF heap[from'].next = 0
       THEN pc' = "snips" /\ snip' = snip + 1
            /\ result' = IF rows' = <<>> THEN Null ELSE [of |-> snip, rows |-> rows']
       ELSE UNCHANGED <<pc, snip, result>>
  /\ UNCHANGED <<file, at, heap, calls>>

\* Of a list of one element the end is passed: NULL is followed.
OnlyElement ==
  /\ pc = "tagged" /\ heap[from].next = 0
  /\ pc' = "crash"
  /\ UNCHANGED <<file, snip, at, heap, calls, from, rows, result>>

\* ProcessFile follows the result without a test.
NoResult ==
  /\ pc = "print" /\ result = Null
  /\ pc' = "crash"
  /\ UNCHANGED <<file, snip, at, heap, calls, from, rows, result>>

PrintRows ==
  /\ pc = "print" /\ result # Null
  /\ pc' = "printed"
  /\ UNCHANGED <<file, snip, at, heap, calls, from, rows, result>>

Stopped == pc \in {"printed", "crash"} /\ UNCHANGED vars

Next ==
  \/ NoPackets \/ NotAPacket \/ NotParsed \/ BeginDump \/ AllSnips
  \/ Visit \/ Throw \/ Return \/ EndDump
  \/ Copy \/ OnlyElement
  \/ NoResult \/ PrintRows
  \/ Stopped

Spec == Init /\ [][Next]_vars

-----------------------------------------------------------------------------
(* Properties. *)

\* Pointers point to elements, and an element to a property of the packet at hand.
TypeOK ==
  /\ snip \in 1..(Len(file) + 1)
  /\ pc \in {"snips", "dump", "tagged", "print", "printed", "crash"}
  /\ at \in Nat \ {0}
  /\ heap \in Seq([prop : Nat \ {0}, next : 0..Len(heap)])
  /\ calls \in Seq([head : 0..Len(heap), last : 0..Len(heap)])
  /\ from \in 0..Len(heap)
  /\ rows \in Seq(Nat \ {0})
  /\ result \in [of : 0..Len(file), rows : Seq(Nat \ {0})]

\* A property is lost when DumpSubtree comes to a property j that has the same
\* parent, or an ancestor of it has, and j's elder sibling had children: the
\* pointer to the list was left at NULL, and the list begins again with j.
Lost(props, i) ==
  \E j \in (i + 1)..Len(props) :
    /\ props[j].depth > 1 /\ props[j - 1].depth > props[j].depth
    /\ \A k \in i..j : props[k].depth >= props[j].depth

\* What FancyDumpMetaXAP returns: the tagged properties in document order, each
\* once, but those lost and the last one of the packet.
Shown(props) ==
  {i \in 1..(Len(props) - 1) : Tag(props[i]) # 0 /\ ~Lost(props, i)}

Increasing(s) == \A i, j \in DOMAIN s : i < j => s[i] < s[j]

\* However deep the packet is, the result lists exactly these properties.
RowsAsShown ==
  result # Null =>
    /\ Increasing(result.rows)
    /\ {result.rows[i] : i \in DOMAIN result.rows} = Shown(file[result.of].props)

\* Of several packets the last one is shown, unless the SDK cannot parse it, or an
\* exception ends the loop: then it is the last one before that packet.
Dumpable(s) == file[s].packet /\ file[s].parses
HasDate(s) == \E i \in DOMAIN file[s].props : Throws(file[s].props[i])
LastPacketShown ==
  pc = "printed" =>
    \A s \in DOMAIN file :
      s > result.of /\ file[s].packet =>
        \E t \in (result.of + 1)..s : Dumpable(t) /\ HasDate(t)

\* "Added the Adobe XMP SDK logic to capture more EXIF data for Adobe modified
\* files" (d70reader.c:80): every property that has a tag is among the rows.
AllTaggedShown ==
  pc = "printed" =>
    \A i \in DOMAIN file[result.of].props :
      Tag(file[result.of].props[i]) # 0 => \E r \in DOMAIN result.rows : result.rows[r] = i
=============================================================================
