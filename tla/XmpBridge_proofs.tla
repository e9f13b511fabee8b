-------------------------- MODULE XmpBridge_proofs --------------------------
(***************************************************************************)
(* Theorems about XmpBridge, for every file: which packet is shown, which  *)
(* of its properties the rows are of and in which order, and that no       *)
(* pointer leaves the elements made for the packet.                        *)
(***************************************************************************)
EXTENDS XmpBridge, SequenceTheorems, WellFoundedInduction, TLAPS

-----------------------------------------------------------------------------
(* Which packet is shown. *)

\* Behind the packet of the result the loop has met no other one.
NoneBetween ==
  \A s \in DOMAIN file : result.of < s /\ s < snip => ~file[s].packet

\* Behind it there is one only if an exception ended the loop there or before.
EndedByDate ==
  \A s \in DOMAIN file :
    s > result.of /\ file[s].packet =>
      \E t \in (result.of + 1)..s : Dumpable(t) /\ HasDate(t)

AtPacket == Len(file) > 1 /\ snip \in DOMAIN file /\ Dumpable(snip)

\* The packet that is dumped is one that parses; a result needs two snips at
\* least and is of a packet before the one at hand.
PacketInv ==
  /\ file \in Seq(Snip)
  /\ snip \in Nat \ {0} /\ at \in Nat \ {0}
  /\ result.of \in Nat
  /\ pc \in {"dump", "tagged"} => AtPacket
  /\ result # Null => Len(file) > 1 /\ result.of < snip
  /\ pc \in {"snips", "dump", "tagged"} /\ result # Null => NoneBetween
  /\ pc = "print" /\ result # Null => EndedByDate
  /\ pc = "printed" => EndedByDate

LEMMA PacketInit == Init => PacketInv
  BY FilesAssumption DEF Init, PacketInv, Null

\* A property whose date throws is one of the packet at hand.
LEMMA ThrownByDate ==
  ASSUME PacketInv, Throw
  PROVE  Dumpable(snip) /\ HasDate(snip)
<1>1. pc = "dump" /\ at <= Len(Props) /\ Throws(Props[at])
  BY DEF Throw, HasMorePaths
<1>2. snip \in DOMAIN file /\ Dumpable(snip) /\ at \in Nat \ {0}
  BY <1>1 DEF PacketInv, AtPacket
<1>3. Props \in Seq(Property)
  <2>1. file[snip] \in Snip
    BY <1>2, ElementOfSeq DEF PacketInv
  <2> QED  BY <2>1 DEF Props, Snip
<1>4. at \in DOMAIN Props
  BY <1>1, <1>2, <1>3
<1> QED  BY <1>1, <1>2, <1>4 DEF HasDate, Props

\* The steps that leave the snip and the result alone, and stay in the loop.
LEMMA SameSnip ==
  ASSUME PacketInv, UNCHANGED <<file, snip, result>>,
         pc \in {"snips", "dump", "tagged"}, pc' \in {"dump", "tagged", "crash"},
         pc' \in {"dump", "tagged"} => AtPacket,
         at' \in Nat \ {0}
  PROVE  PacketInv'
  BY DEF PacketInv, NoneBetween, AtPacket, Dumpable

LEMMA PacketStep == PacketInv /\ [Next]_vars => PacketInv'
<1> SUFFICES ASSUME PacketInv, [Next]_vars PROVE PacketInv'
  OBVIOUS
<1>1. CASE NoPackets
  BY <1>1 DEF NoPackets, PacketInv
<1>2. CASE NotAPacket
  BY <1>2 DEF NotAPacket, MoreSnips, PacketInv, NoneBetween
<1>3. CASE NotParsed
  BY <1>3 DEF NotParsed, MoreSnips, PacketInv, NoMetaXAP, Null
<1>4. CASE BeginDump
  BY <1>4, SameSnip DEF BeginDump, MoreSnips, PacketInv, AtPacket, Dumpable
<1>5. CASE AllSnips
  BY <1>5 DEF AllSnips, PacketInv, NoneBetween, EndedByDate
<1>6. CASE Visit
  BY <1>6, SameSnip DEF Visit, PacketInv
<1>7. CASE Throw
  <2>1. Dumpable(snip) /\ HasDate(snip) /\ snip \in DOMAIN file
    BY <1>7, ThrownByDate DEF PacketInv, AtPacket, Throw
  <2>2. result # Null => EndedByDate
    BY <1>7, <2>1 DEF Throw, PacketInv, NoneBetween, EndedByDate
  <2>3. UNCHANGED <<file, snip, at, result>> /\ pc' = "print"
    BY <1>7 DEF Throw
  <2> QED  BY <2>2, <2>3 DEF PacketInv, AtPacket, EndedByDate, Dumpable, HasDate
<1>8. CASE Return
  BY <1>8, SameSnip DEF Return, Returns, PacketInv
<1>9. CASE EndDump
  <2>1. CASE Top.head = 0
    BY <1>9, <2>1 DEF EndDump, Returns, PacketInv, Null
  <2>2. CASE Top.head # 0
    BY <1>9, <2>2, SameSnip DEF EndDump, Returns, PacketInv
  <2> QED  BY <2>1, <2>2
<1>10. CASE Copy
  <2>1. CASE heap[from'].next = 0
    <3>1. pc' = "snips" /\ snip' = snip + 1 /\ UNCHANGED <<file, at>> /\ AtPacket
      BY <1>10, <2>1 DEF Copy, PacketInv
    <3>2. result' = Null \/ result'.of = snip
      BY <1>10, <2>1 DEF Copy
    <3>3. Null.of = 0
      BY DEF Null
    <3> QED  BY <3>1, <3>2, <3>3 DEF PacketInv, AtPacket, NoneBetween
  <2>2. CASE heap[from'].next # 0
    BY <1>10, <2>2, SameSnip DEF Copy, PacketInv
  <2> QED  BY <2>1, <2>2
<1>11. CASE OnlyElement
  BY <1>11, SameSnip DEF OnlyElement, PacketInv
<1>12. CASE NoResult
  BY <1>12 DEF NoResult, PacketInv, Null
<1>13. CASE PrintRows
  BY <1>13 DEF PrintRows, PacketInv, EndedByDate, Dumpable, HasDate
<1>14. CASE UNCHANGED vars
  BY <1>14 DEF vars, PacketInv, AtPacket, NoneBetween, EndedByDate, Dumpable, HasDate
<1> QED
  BY <1>1, <1>2, <1>3, <1>4, <1>5, <1>6, <1>7, <1>8, <1>9, <1>10, <1>11, <1>12, <1>13, <1>14
     DEF Next, Stopped

\* The packet that is shown is the last one of the file, or the last before one
\* whose date ends the loop (xmp_display).
THEOREM LastPacketCorrect == Spec => []LastPacketShown
<1>1. PacketInv => LastPacketShown
  BY DEF PacketInv, EndedByDate, LastPacketShown
<1> QED  BY <1>1, PacketInit, PacketStep, PTL DEF Spec

-----------------------------------------------------------------------------
(* The order of the rows. *)

Call(S) == [head : Nat, last : S]
Element == [prop : Nat \ {0}, next : Nat]

\* An element points to a younger one, and was made for a later property than the
\* elements before it.
HeapInv ==
  /\ at \in Nat \ {0}
  /\ heap \in Seq(Element)
  /\ \A e \in DOMAIN heap : heap[e].next # 0 => e < heap[e].next /\ heap[e].next <= Len(heap)
  /\ \A e \in DOMAIN heap : heap[e].prop < at
  /\ \A e, f \in DOMAIN heap : e < f => heap[e].prop < heap[f].prop

\* A call that waits for another one is at the element it has made last, which is
\* older than all elements of that call.  What the end of a list is that was followed
\* does not matter here.
CallsInv ==
  /\ \E S : calls \in Seq(Call(S))
  /\ \A k \in DOMAIN calls : calls[k].head <= Len(heap)
  /\ \A k \in 2..Len(calls) :
       /\ calls[k - 1].last \in DOMAIN heap
       /\ calls[k].head # 0 => calls[k - 1].last < calls[k].head

\* The rows so far are of properties before that of the element at hand.
RowsInv ==
  /\ pc = "dump" => calls # <<>> /\ rows = <<>>
  /\ rows \in Seq(Nat \ {0})
  /\ pc = "tagged" => /\ from \in DOMAIN heap
                      /\ Increasing(rows)
                      /\ \A i \in DOMAIN rows : rows[i] < heap[from].prop
  /\ Increasing(result.rows)

OrderInv == HeapInv /\ CallsInv /\ RowsInv

LEMMA OrderInit == Init => OrderInv
<1> SUFFICES ASSUME Init PROVE OrderInv
  OBVIOUS
<1>1. calls \in Seq(Call({0}))
  BY EmptySeq DEF Init
<1> QED  BY <1>1 DEF Init, OrderInv, HeapInv, CallsInv, RowsInv, Increasing, Null

\* To link an element changes its pointer and nothing else.
LEMMA LinkedElement ==
  ASSUME HeapInv, NEW x, NEW y \in Nat
  PROVE  /\ Linked(x, y) \in Seq(Element)
         /\ Len(Linked(x, y)) = Len(heap)
         /\ DOMAIN Linked(x, y) = DOMAIN heap
         /\ \A e \in DOMAIN heap :
              /\ Linked(x, y)[e].prop = heap[e].prop
              /\ Linked(x, y)[e].next = IF e = x THEN y ELSE heap[e].next
<1>1. heap \in Seq(Element)
  BY DEF HeapInv
<1>2. CASE x \in DOMAIN heap
  <2>1. heap[x] \in Element
    BY <1>1, <1>2, ElementOfSeq
  <2>2. Linked(x, y) = [heap EXCEPT ![x] = [heap[x] EXCEPT !.next = y]]
    BY DEF Linked
  <2>3. [heap[x] EXCEPT !.next = y] \in Element
    BY <2>1 DEF Element
  <2> QED  BY <1>1, <1>2, <2>1, <2>2, <2>3, ExceptSeq DEF Element
<1>3. CASE x \notin DOMAIN heap
  <2>1. Linked(x, y) = heap
    BY <1>1, <1>3 DEF Linked
  <2> QED  BY <1>1, <1>3, <2>1
<1> QED  BY <1>2, <1>3

\* The steps that leave the heap, the calls and the rows alone.
LEMMA SameLists ==
  ASSUME OrderInv, UNCHANGED <<at, heap, calls, rows>>, pc' \notin {"dump", "tagged"},
         result' \in {result, Null}
  PROVE  OrderInv'
<1>1. Increasing(Null.rows)
  BY DEF Increasing, Null
<1>2. HeapInv'
  BY DEF OrderInv, HeapInv
<1>3. CallsInv'
  BY DEF OrderInv, CallsInv
<1>4. RowsInv'
  BY <1>1 DEF OrderInv, RowsInv
<1> QED  BY <1>2, <1>3, <1>4 DEF OrderInv

LEMMA BeginDumpOrder == OrderInv /\ BeginDump => OrderInv'
<1> SUFFICES ASSUME OrderInv, BeginDump PROVE OrderInv'
  OBVIOUS
<1>1. calls' = <<[head |-> 0, last |-> 0]>> /\ heap' = <<>> /\ at' = 1 /\ rows' = <<>>
  BY DEF BeginDump
<1>2. calls' \in Seq(Call({0}))
  BY <1>1 DEF Call
<1>3. \E S : calls' \in Seq(Call(S))
  BY <1>2
<1>4. Len(calls') = 1 /\ DOMAIN calls' = {1} /\ calls'[1].head = 0 /\ Len(heap') = 0
  BY <1>1
<1>5. CallsInv'
  <2>1. \A k \in DOMAIN calls' : calls'[k].head <= Len(heap')
    BY <1>4
  <2>2. 2..Len(calls') = {}
    BY <1>4
  <2> QED  BY <1>3, <2>1, <2>2 DEF CallsInv
<1>6. HeapInv'
  BY <1>1 DEF HeapInv
<1>7. RowsInv'
  BY <1>1 DEF RowsInv, OrderInv, BeginDump
<1> QED  BY <1>5, <1>6, <1>7 DEF OrderInv

LEMMA ThrowOrder == OrderInv /\ Throw => OrderInv'
<1> SUFFICES ASSUME OrderInv, Throw PROVE OrderInv'
  OBVIOUS
<1>1. calls' = <<>> /\ calls' \in Seq(Call({0}))
  BY EmptySeq DEF Throw
<1>2. CallsInv'
  BY <1>1 DEF CallsInv
<1>3. HeapInv'
  BY DEF OrderInv, HeapInv, Throw
<1>4. RowsInv'
  BY DEF OrderInv, RowsInv, Throw
<1> QED  BY <1>2, <1>3, <1>4 DEF OrderInv

LEMMA EndDumpOrder == OrderInv /\ EndDump => OrderInv'
<1> SUFFICES ASSUME OrderInv, EndDump PROVE OrderInv'
  OBVIOUS
<1>1. calls' = <<>> /\ calls' \in Seq(Call({0}))
  BY EmptySeq DEF EndDump
<1>2. CallsInv'
  BY <1>1 DEF CallsInv
<1>3. HeapInv'
  BY DEF OrderInv, HeapInv, EndDump
<1>4. Increasing(Null.rows)
  BY DEF Increasing, Null
<1>5. from' \in 0..Len(heap)
  <2>1. PICK S : calls \in Seq(Call(S))
    BY DEF OrderInv, CallsInv
  <2>2. Len(calls) = 1 /\ 1 \in DOMAIN calls
    BY <2>1 DEF EndDump
  <2>3. calls[1] \in Call(S)
    BY <2>1, <2>2, ElementOfSeq
  <2>4. calls[1].head \in Nat
    BY <2>3 DEF Call
  <2> QED  BY <2>2, <2>4 DEF OrderInv, CallsInv, HeapInv, EndDump, Top
<1>6. from' # 0 => from' \in DOMAIN heap
  BY <1>5 DEF OrderInv, HeapInv
<1>7. rows' = <<>> /\ pc' # "dump" /\ (pc' = "tagged" => from' # 0) /\ heap' = heap
      /\ result' \in {result, Null}
  BY DEF OrderInv, RowsInv, EndDump, Returns
<1>8. RowsInv'
  BY <1>4, <1>6, <1>7 DEF OrderInv, RowsInv, Increasing
<1> QED  BY <1>2, <1>3, <1>8 DEF OrderInv

LEMMA CopyOrder == OrderInv /\ Copy => OrderInv'
<1> SUFFICES ASSUME OrderInv, Copy PROVE OrderInv'
  OBVIOUS
<1> DEFINE p == heap[from].prop
           e == heap[from].next
<1>1. HeapInv' /\ CallsInv'
  BY DEF OrderInv, HeapInv, CallsInv, Copy
<1>2. from \in DOMAIN heap /\ Increasing(rows) /\ \A i \in DOMAIN rows : rows[i] < p
  BY DEF OrderInv, RowsInv, Copy
<1>3. e \in DOMAIN heap /\ from < e /\ p \in Nat \ {0} /\ heap[e].prop \in Nat \ {0}
  <2>1. heap[from] \in Element
    BY <1>2, ElementOfSeq DEF OrderInv, HeapInv
  <2>2. e \in DOMAIN heap /\ from < e
    BY <1>2, <2>1 DEF OrderInv, HeapInv, Copy, Element
  <2>3. heap[e] \in Element
    BY <2>2, ElementOfSeq DEF OrderInv, HeapInv
  <2> QED  BY <2>1, <2>2, <2>3 DEF Element
<1>4. p < heap[e].prop
  BY <1>2, <1>3 DEF OrderInv, HeapInv
<1>5. rows' = rows \/ rows' = Append(rows, p)
  BY DEF Copy, WithTagged
<1>6. rows \in Seq(Nat \ {0})
  BY DEF OrderInv, RowsInv
<1>7. rows' \in Seq(Nat \ {0}) /\ Increasing(rows') /\ \A i \in DOMAIN rows' : rows'[i] < heap[e].prop
  <2>1. CASE rows' = rows
    BY <2>1, <1>2, <1>3, <1>4, <1>6, ElementOfSeq
  <2>2. CASE rows' = Append(rows, p)
    <3>1. /\ rows' \in Seq(Nat \ {0})
          /\ DOMAIN rows' = 1..(Len(rows) + 1)
          /\ \A i \in DOMAIN rows : rows'[i] = rows[i]
          /\ rows'[Len(rows) + 1] = p
          /\ Len(rows) \in Nat
          /\ DOMAIN rows = 1..Len(rows)
      BY <2>2, <1>3, <1>6, AppendProperties
    <3>2. \A i \in DOMAIN rows : rows[i] \in Nat
      BY <1>6, ElementOfSeq
    <3>3. \A i \in DOMAIN rows' : i \in DOMAIN rows \/ i = Len(rows) + 1
      BY <3>1
    <3>4. \A i \in DOMAIN rows' : rows'[i] < heap[e].prop
      BY <3>1, <3>2, <3>3, <1>2, <1>3, <1>4
    <3>5. Increasing(rows')
      BY <3>1, <3>3, <1>2 DEF Increasing
    <3> QED  BY <3>1, <3>4, <3>5
  <2> QED  BY <1>5, <2>1, <2>2
<1>8. RowsInv'
  <2>1. from' = e /\ heap' = heap /\ pc' \in {"tagged", "snips"}
        /\ (result' = result \/ result' = Null \/ result' = [of |-> snip, rows |-> rows'])
    BY DEF Copy
  <2>2. Increasing(Null.rows)
    BY DEF Increasing, Null
  <2>3. Increasing(result'.rows)
    BY <2>1, <2>2, <1>7 DEF OrderInv, RowsInv
  <2> QED  BY <2>1, <2>3, <1>3, <1>7 DEF RowsInv
<1> QED  BY <1>1, <1>8 DEF OrderInv

\* A call returns: its list is linked to the element of its caller, if it is not empty.
LEMMA ReturnOrder == OrderInv /\ Return => OrderInv'
<1> SUFFICES ASSUME OrderInv, Return PROVE OrderInv'
  OBVIOUS
<1> DEFINE depth == Len(calls) - 1
           caller == calls[depth]
           rest == SubSeq(calls, 1, depth)
<1>1. PICK S : calls \in Seq(Call(S))
  BY DEF OrderInv, CallsInv
<1>2. depth \in Nat \ {0} /\ depth < Len(calls) /\ DOMAIN calls = 1..Len(calls) /\ depth \in 1..Len(calls)
  BY <1>1 DEF Return
<1>3. /\ rest \in Seq(Call(S))
      /\ Len(rest) = depth /\ DOMAIN rest = 1..depth
      /\ \A k \in 1..depth : rest[k] = calls[k]
  BY <1>1, <1>2, SubSeqProperties
<1>4. Top \in Call(S) /\ Top.head \in Nat /\ Top.head <= Len(heap)
  <2>1. Len(calls) \in DOMAIN calls
    BY <1>2
  <2>2. Top \in Call(S)
    BY <1>1, <2>1, ElementOfSeq DEF Top
  <2> QED  BY <2>1, <2>2 DEF OrderInv, CallsInv, Top, Call
<1>5. caller.last \in DOMAIN heap /\ (Top.head # 0 => caller.last < Top.head)
  BY <1>2 DEF OrderInv, CallsInv, Top
<1>6. HeapInv'
  <2>1. CASE heap' = heap
    BY <2>1 DEF OrderInv, HeapInv, Return
  <2>2. CASE Top.head # 0 /\ heap' = Linked(caller.last, Top.head)
    <3>1. /\ heap' \in Seq(Element) /\ Len(heap') = Len(heap) /\ DOMAIN heap' = DOMAIN heap
          /\ \A e \in DOMAIN heap :
               /\ heap'[e].prop = heap[e].prop
               /\ heap'[e].next = IF e = caller.last THEN Top.head ELSE heap[e].next
      BY <2>2, <1>4, LinkedElement DEF OrderInv
    <3> QED  BY <2>2, <3>1, <1>4, <1>5 DEF OrderInv, HeapInv, Return
  <2> QED  BY <2>1, <2>2 DEF Return
<1>7. \E T : /\ calls' \in Seq(Call(T))
             /\ Len(calls') = depth /\ DOMAIN calls' = 1..depth
             /\ \A k \in 1..depth : calls'[k].head = calls[k].head
             /\ \A k \in 1..depth : k # depth => calls'[k].last = calls[k].last
  <2>1. CASE calls' = rest
    BY <2>1, <1>3
  <2>2. CASE calls' = [rest EXCEPT ![depth].last = EndAfterSub(depth, Top.head)]
    <3>0. PICK end : end = EndAfterSub(depth, Top.head)
      OBVIOUS
    <3>1. PICK T : S \subseteq T /\ end \in T
      <4>1. S \subseteq S \cup {end} /\ end \in S \cup {end}
        OBVIOUS
      <4> QED  BY <4>1
    <3>2. PICK call : call = [rest[depth] EXCEPT !.last = end]
      OBVIOUS
    <3>3. rest[depth] \in Call(S)
      BY <1>2, <1>3, ElementOfSeq
    <3>4. call \in Call(T) /\ call.head = rest[depth].head
      BY <3>1, <3>2, <3>3 DEF Call
    <3>5. calls' = [rest EXCEPT ![depth] = call]
      BY <2>2, <3>0, <3>2
    <3>6. Call(S) \subseteq Call(T)
      BY <3>1 DEF Call
    <3>7. rest \in Seq(Call(T))
      BY <1>3, <3>6, SeqMonotonic
    <3> HIDE DEF rest
    <3>8. depth \in 1..Len(rest)
      BY <1>2, <1>3
    <3> HIDE DEF depth
    <3>9. calls' \in Seq(Call(T)) /\ Len(calls') = Len(rest)
          /\ \A k \in 1..Len(rest) : calls'[k] = IF k = depth THEN call ELSE rest[k]
      BY <3>4, <3>5, <3>7, <3>8, ExceptSeq
    <3>10. Len(calls') = depth /\ DOMAIN calls' = 1..depth
      BY <3>9, <1>3
    <3>11. /\ \A k \in 1..depth : calls'[k].head = calls[k].head
           /\ \A k \in 1..depth : k # depth => calls'[k].last = calls[k].last
      BY <3>9, <3>4, <1>3
    <3> QED  BY <3>9, <3>10, <3>11
  <2> QED  BY <2>1, <2>2 DEF Return
<1>8. CallsInv'
  <2>1. Len(heap') = Len(heap) /\ DOMAIN heap' = DOMAIN heap
    BY <1>4, LinkedElement DEF OrderInv, Return
  <2>2. \E T : calls' \in Seq(Call(T))
    BY <1>7
  <2>3. \A k \in 1..depth : calls[k].head <= Len(heap)
    BY <1>2 DEF OrderInv, CallsInv
  <2>4. \A k \in DOMAIN calls' : calls'[k].head <= Len(heap')
    BY <1>7, <2>1, <2>3
  <2>5. ASSUME NEW k \in 2..Len(calls')
        PROVE  /\ calls'[k - 1].last \in DOMAIN heap'
               /\ calls'[k].head # 0 => calls'[k - 1].last < calls'[k].head
    <3>1. k \in 2..Len(calls) /\ k \in 1..depth /\ k - 1 \in 1..depth /\ k - 1 # depth
      <4>1. Len(calls') = depth /\ Len(calls) \in Nat
        BY <1>1, <1>7
      <4> QED  BY <4>1, <1>2
    <3>2. calls'[k].head = calls[k].head /\ calls'[k - 1].last = calls[k - 1].last
      BY <1>7, <3>1
    <3> QED  BY <2>1, <3>1, <3>2 DEF OrderInv, CallsInv
  <2> QED  BY <2>2, <2>4, <2>5 DEF CallsInv
<1>9. RowsInv'
  BY <1>7, <1>2 DEF OrderInv, RowsInv, Return, Returns
<1> QED  BY <1>6, <1>8, <1>9 DEF OrderInv

\* The next property: its element is the youngest, and is linked by an older one.
LEMMA VisitOrder == OrderInv /\ Visit => OrderInv'
<1> SUFFICES ASSUME OrderInv, Visit PROVE OrderInv'
  OBVIOUS
<1>1. PICK S : calls \in Seq(Call(S))
  BY DEF OrderInv, CallsInv
<1>2. heap \in Seq(Element) /\ at \in Nat \ {0} /\ New = Len(heap) + 1 /\ Len(heap) \in Nat
      /\ DOMAIN heap = 1..Len(heap)
  BY DEF OrderInv, HeapInv, New
<1>3. PICK made : made = [prop |-> at, next |-> 0]
  OBVIOUS
<1>4. made \in Element /\ made.prop = at /\ made.next = 0
  BY <1>2, <1>3 DEF Element
<1>5. PICK h : h = IF Top.last = 0 THEN heap ELSE Linked(Top.last, New)
  OBVIOUS
<1>6. /\ h \in Seq(Element) /\ Len(h) = Len(heap)
      /\ \A e \in 1..Len(heap) : h[e].prop = heap[e].prop
      /\ \A e \in 1..Len(heap) : h[e].next \in {heap[e].next, New}
  <2>1. CASE Top.last = 0
    BY <1>2, <1>5, <2>1
  <2>2. CASE Top.last # 0
    BY <1>2, <1>5, <2>2, LinkedElement DEF OrderInv
  <2> QED  BY <2>1, <2>2
<1>7. heap' = Append(h, made)
  BY <1>3, <1>5 DEF Visit
<1>8. /\ heap' \in Seq(Element) /\ Len(heap') = Len(heap) + 1 /\ DOMAIN heap' = 1..(Len(heap) + 1)
      /\ \A e \in 1..Len(heap) : heap'[e] = h[e]
      /\ heap'[Len(heap) + 1] = made
  <2>1. /\ heap' \in Seq(Element) /\ Len(heap') = Len(h) + 1
        /\ \A e \in 1..Len(h) : heap'[e] = h[e]
        /\ heap'[Len(h) + 1] = made
    BY <1>4, <1>6, <1>7, AppendProperties
  <2> QED  BY <2>1, <1>6
<1>9. HeapInv'
  <2>1. at' = at + 1 /\ at' \in Nat \ {0}
    BY <1>2 DEF Visit
  <2>2. PICK m : m = Len(heap) /\ m \in Nat
    BY <1>2
  <2>3. \A e \in 1..m : heap[e].next \in Nat /\ heap[e].prop \in Nat
    <3>1. \A e \in 1..m : heap[e] \in Element
      BY <1>2, <2>2, ElementOfSeq
    <3> QED  BY <3>1 DEF Element
  <2>4. DOMAIN heap' = 1..(m + 1) /\ Len(heap') = m + 1 /\ heap'[m + 1].next = 0
    BY <1>4, <1>8, <2>2
  <2>5. /\ \A e \in 1..m : heap[e].next # 0 => e < heap[e].next /\ heap[e].next <= m
        /\ \A e \in 1..m : heap[e].prop < at
        /\ \A e, f \in 1..m : e < f => heap[e].prop < heap[f].prop
    BY <1>2, <2>2 DEF OrderInv, HeapInv
  <2>6. ASSUME NEW e \in 1..m PROVE heap'[e].prop = heap[e].prop
    <3>1. heap'[e] = h[e]
      BY <1>8, <2>2
    <3>2. h[e].prop = heap[e].prop
      BY <1>6, <2>2
    <3> QED  BY <3>1, <3>2
  <2>7. \A e \in 1..m : heap'[e].next = heap[e].next \/ heap'[e].next = m + 1
    BY <1>2, <1>6, <1>8, <2>2
  <2>8. heap'[m + 1].prop = at
    BY <1>4, <1>8, <2>2
  <2>9. ASSUME NEW e \in 1..(m + 1)
        PROVE  /\ heap'[e].next # 0 => e < heap'[e].next /\ heap'[e].next <= m + 1
               /\ heap'[e].prop < at + 1
    <3>1. CASE e = m + 1
      BY <3>1, <2>2, <2>4, <2>8, <1>2
    <3>2. CASE e \in 1..m
      <4>1. heap'[e].prop = heap[e].prop /\ (heap'[e].next = heap[e].next \/ heap'[e].next = m + 1)
        BY <3>2, <2>6, <2>7
      <4>2. heap[e].next \in Nat /\ heap[e].prop \in Nat /\ heap[e].prop < at
        BY <3>2, <2>3, <2>5
      <4>3. heap[e].next # 0 => e < heap[e].next /\ heap[e].next <= m
        BY <3>2, <2>5
      <4> QED  BY <4>1, <4>2, <4>3, <3>2, <2>2, <1>2
    <3> QED  BY <3>1, <3>2, <2>2
  <2>10. ASSUME NEW e \in 1..(m + 1), NEW f \in 1..(m + 1), e < f
        PROVE  heap'[e].prop < heap'[f].prop
    <3>1. e \in 1..m
      BY <2>2, <2>10
    <3>2. CASE f = m + 1
      <4>1. heap'[e].prop = heap[e].prop /\ heap'[f].prop = at
        BY <3>1, <3>2, <2>6, <2>8
      <4> QED  BY <3>1, <4>1, <2>5
    <3>3. CASE f \in 1..m
      <4>1. heap'[e].prop = heap[e].prop /\ heap'[f].prop = heap[f].prop
        BY <3>1, <3>3, <2>6
      <4> QED  BY <3>1, <3>3, <4>1, <2>5, <2>10
    <3> QED  BY <3>2, <3>3, <2>2
  <2> QED  BY <1>8, <2>1, <2>4, <2>9, <2>10 DEF HeapInv
<1>10. Len(calls) \in Nat \ {0} /\ DOMAIN calls = 1..Len(calls) /\ Len(calls) \in 1..Len(calls)
  BY <1>1 DEF OrderInv, RowsInv, Visit
<1>11. Top \in Call(S) /\ Top.head \in Nat /\ Top.head <= Len(heap)
  <2>1. Top \in Call(S)
    BY <1>1, <1>10, ElementOfSeq DEF Top
  <2> QED  BY <2>1, <1>10 DEF OrderInv, CallsInv, Top, Call
<1>12. PICK T : S \subseteq T /\ 0 \in T /\ New \in T
  <2>1. S \subseteq S \cup {0, New} /\ 0 \in S \cup {0, New} /\ New \in S \cup {0, New}
    OBVIOUS
  <2> QED  BY <2>1
<1>13. PICK top : top = [head |-> IF Top.last = 0 THEN New ELSE Top.head, last |-> New]
  OBVIOUS
<1>14. PICK sub : sub = [head |-> 0, last |-> 0]
  OBVIOUS
<1>15. /\ top \in Call(T) /\ sub \in Call(T) /\ sub.head = 0
       /\ top.last = New /\ top.head \in {New, Top.head}
  BY <1>2, <1>11, <1>12, <1>13, <1>14 DEF Call
<1>16. calls' = Append([calls EXCEPT ![Len(calls)] = top], sub)
  BY <1>13, <1>14 DEF Visit, Top
<1>17. PICK c : c = [calls EXCEPT ![Len(calls)] = top]
  OBVIOUS
<1>18. /\ c \in Seq(Call(T)) /\ Len(c) = Len(calls)
       /\ \A k \in 1..Len(calls) : c[k] = IF k = Len(calls) THEN top ELSE calls[k]
  <2>1. Call(S) \subseteq Call(T)
    BY <1>12 DEF Call
  <2>2. calls \in Seq(Call(T))
    BY <1>1, <2>1, SeqMonotonic
  <2> QED  BY <2>2, <1>10, <1>15, <1>17, ExceptSeq
<1>19. /\ calls' \in Seq(Call(T)) /\ Len(calls') = Len(calls) + 1 /\ DOMAIN calls' = 1..(Len(calls) + 1)
       /\ \A k \in 1..Len(calls) : calls'[k] = IF k = Len(calls) THEN top ELSE calls[k]
       /\ calls'[Len(calls) + 1] = sub
  <2>1. calls' = Append(c, sub)
    BY <1>16, <1>17
  <2>2. /\ calls' \in Seq(Call(T)) /\ Len(calls') = Len(c) + 1
        /\ \A k \in 1..Len(c) : calls'[k] = c[k]
        /\ calls'[Len(c) + 1] = sub
    BY <2>1, <1>15, <1>18, AppendProperties
  <2> QED  BY <2>2, <1>18
<1>20. CallsInv'
  <2>1. PICK n : n = Len(calls) /\ n \in Nat \ {0}
    BY <1>10
  <2>2. PICK m : m = Len(heap) /\ m \in Nat /\ New = m + 1
    BY <1>2
  <2>3. /\ DOMAIN calls' = 1..(n + 1) /\ Len(calls') = n + 1
        /\ \A k \in 1..n : k # n => calls'[k] = calls[k]
        /\ calls'[n] = top /\ calls'[n + 1] = sub
    BY <1>19, <2>1
  <2>4. DOMAIN heap' = 1..(m + 1) /\ Len(heap') = m + 1 /\ DOMAIN heap = 1..m
    BY <1>2, <1>8, <2>2
  <2>5. /\ sub.head = 0 /\ top.last = m + 1
        /\ top.head \in {m + 1, calls[n].head}
    BY <1>15, <2>1, <2>2 DEF Top
  <2>6. \A k \in 1..n : calls[k].head \in Nat /\ calls[k].head <= m
    <3>1. \A k \in 1..n : calls[k] \in Call(S)
      BY <1>1, <2>1, ElementOfSeq
    <3>2. \A k \in 1..n : calls[k].head <= m
      BY <1>10, <2>1, <2>2 DEF OrderInv, CallsInv
    <3> QED  BY <3>1, <3>2 DEF Call
  <2>7. \A k \in 2..n : calls[k - 1].last \in 1..m /\ (calls[k].head # 0 => calls[k - 1].last < calls[k].head)
    BY <2>1, <2>4 DEF OrderInv, CallsInv
  <2>8. ASSUME NEW k \in 1..(n + 1) PROVE calls'[k].head <= m + 1
    <3>1. CASE k = n + 1
      BY <3>1, <2>2, <2>3, <2>5
    <3>2. CASE k = n
      <4>1. n \in 1..n
        BY <2>1
      <4> QED  BY <3>2, <4>1, <2>2, <2>3, <2>5, <2>6
    <3>3. CASE k \in 1..n /\ k # n
      BY <3>3, <2>2, <2>3, <2>6
    <3> QED  BY <3>1, <3>2, <3>3, <2>1
  <2>9. ASSUME NEW k \in 2..(n + 1)
        PROVE  /\ calls'[k - 1].last \in 1..(m + 1)
               /\ calls'[k].head # 0 => calls'[k - 1].last < calls'[k].head
    <3>1. CASE k = n + 1
      <4>1. k - 1 = n
        BY <3>1, <2>1
      <4> QED  BY <3>1, <4>1, <2>2, <2>3, <2>5
    <3>2. CASE k \in 2..n
      <4>1. k - 1 \in 1..n /\ k - 1 # n /\ k \in 1..n
        BY <3>2, <2>1
      <4>2. calls'[k - 1].last = calls[k - 1].last /\ calls[k - 1].last \in 1..m
        BY <3>2, <4>1, <2>3, <2>7
      <4>3. calls'[k].head \in {m + 1, calls[k].head}
        BY <4>1, <2>3, <2>5
      <4> QED  BY <3>2, <4>2, <4>3, <2>2, <2>7
    <3> QED  BY <3>1, <3>2, <2>1
  <2>10. \E U : calls' \in Seq(Call(U))
    BY <1>19
  <2> QED  BY <2>3, <2>4, <2>8, <2>9, <2>10 DEF CallsInv
<1>21. RowsInv'
  <2>1. Len(calls') = Len(calls) + 1
    BY <1>19
  <2>2. calls' # <<>>
    BY <2>1, <1>10
  <2> QED  BY <2>2 DEF OrderInv, RowsInv, Visit
<1> QED  BY <1>9, <1>20, <1>21 DEF OrderInv

LEMMA OrderStep == OrderInv /\ [Next]_vars => OrderInv'
<1> SUFFICES ASSUME OrderInv, [Next]_vars PROVE OrderInv'
  OBVIOUS
<1>1. CASE NoPackets \/ AllSnips \/ NoResult \/ PrintRows
  BY <1>1, SameLists DEF NoPackets, AllSnips, NoResult, PrintRows
<1>2. CASE NotAPacket
  BY <1>2, SameLists DEF NotAPacket, MoreSnips
<1>3. CASE NotParsed
  BY <1>3, SameLists DEF NotParsed, MoreSnips, NoMetaXAP
<1>4. CASE OnlyElement
  BY <1>4, SameLists DEF OnlyElement
<1>5. CASE Stopped \/ UNCHANGED vars
  BY <1>5 DEF Stopped, vars, OrderInv, HeapInv, CallsInv, RowsInv
<1> QED
  BY <1>1, <1>2, <1>3, <1>4, <1>5, BeginDumpOrder, VisitOrder, ThrowOrder, ReturnOrder, EndDumpOrder,
     CopyOrder DEF Next

-----------------------------------------------------------------------------
(* Which properties the rows are of. *)

\* Property j begins the list again that property i was in.
LosesAt(props, i, j) ==
  /\ props[j].depth > 1 /\ props[j - 1].depth > props[j].depth
  /\ \A k \in i..j : props[k].depth >= props[j].depth

\* The properties from lo + 1 to hi that are still listed when n are made.
LostBy(props, i, n) == \E j \in (i + 1)..n : LosesAt(props, i, j)
Kept(props, lo, hi, n) == {i \in (lo + 1)..hi : ~LostBy(props, i, n)}

\* From each element of S the pointer leads to the next one of S.
Follows(h, S, i) ==
  IF h[i].next = 0
    THEN \A j \in S : j <= i
    ELSE h[i].next \in S /\ i < h[i].next /\ \A j \in S : j <= i \/ h[i].next <= j
LinkedIn(h, S) == \A i \in S : Follows(h, S, i)
IsFirst(head, S) == IF S = {} THEN head = 0 ELSE head \in S /\ \A j \in S : head <= j

LEMMA LostMore ==
  ASSUME NEW props, NEW i \in Nat, NEW n \in Nat, i <= n
  PROVE  LostBy(props, i, n + 1) <=> LostBy(props, i, n) \/ LosesAt(props, i, n + 1)
<1>1. \A j : j \in (i + 1)..(n + 1) <=> j \in (i + 1)..n \/ j = n + 1
  OBVIOUS
<1> QED  BY <1>1, Zenon DEF LostBy

\* The property made last is listed.
LEMMA LastKept ==
  ASSUME NEW props, NEW lo \in Nat, NEW n \in Nat, lo < n
  PROVE  n \in Kept(props, lo, n, n)
<1>1. (n + 1)..n = {}
  OBVIOUS
<1> QED  BY <1>1 DEF Kept, LostBy

LEMMA KeptRange ==
  ASSUME NEW props, NEW lo \in Nat, NEW hi \in Nat, NEW n
  PROVE  /\ \A i \in Kept(props, lo, hi, n) : i \in Nat /\ lo < i /\ i <= hi
         /\ lo = hi => Kept(props, lo, hi, n) = {}
  BY DEF Kept

\* A list and those of the calls below it.
LEMMA KeptJoin ==
  ASSUME NEW props, NEW lo \in Nat, NEW l \in Nat, NEW hi \in Nat, NEW n, lo <= l, l <= hi
  PROVE  Kept(props, lo, hi, n) = Kept(props, lo, l, n) \cup Kept(props, l, hi, n)
<1>1. \A i : i \in (lo + 1)..hi <=> i \in (lo + 1)..l \/ i \in (l + 1)..hi
  OBVIOUS
<1> QED  BY <1>1, Zenon DEF Kept

\* A property that is deeper than the last one of a list loses none of the list.
LEMMA KeptAbove ==
  ASSUME NEW props, NEW lo \in Nat, NEW l \in Nat, NEW n \in Nat, l <= n,
         props[l].depth \in Nat, props[n + 1].depth \in Nat, props[l].depth < props[n + 1].depth
  PROVE  Kept(props, lo, l, n + 1) = Kept(props, lo, l, n)
<1>1. ASSUME NEW i \in (lo + 1)..l PROVE LostBy(props, i, n + 1) <=> LostBy(props, i, n)
  <2>1. i \in Nat /\ i <= n /\ l \in i..(n + 1)
    OBVIOUS
  <2>2. ~LosesAt(props, i, n + 1)
    BY <2>1 DEF LosesAt
  <2> QED  BY <2>1, <2>2, LostMore
<1> QED  BY <1>1 DEF Kept

\* No elder sibling, or one without children: none is lost.
LEMMA KeptGrows ==
  ASSUME NEW props, NEW lo \in Nat, NEW n \in Nat, lo <= n,
         ~(props[n + 1].depth > 1 /\ props[n].depth > props[n + 1].depth)
  PROVE  Kept(props, lo, n + 1, n + 1) = Kept(props, lo, n, n) \cup {n + 1}
<1>1. n + 1 \in Kept(props, lo, n + 1, n + 1)
  BY LastKept
<1>2. ASSUME NEW i \in (lo + 1)..n PROVE LostBy(props, i, n + 1) <=> LostBy(props, i, n)
  <2>1. i \in Nat /\ i <= n /\ (n + 1) - 1 = n
    OBVIOUS
  <2>2. ~LosesAt(props, i, n + 1)
    BY <2>1 DEF LosesAt
  <2> QED  BY <2>1, <2>2, LostMore
<1>3. \A i : i \in (lo + 1)..(n + 1) <=> i \in (lo + 1)..n \/ i = n + 1
  OBVIOUS
<1>4. \A i \in Kept(props, lo, n, n) : i \in (lo + 1)..n /\ ~LostBy(props, i, n)
  BY DEF Kept
<1>5. \A i \in (lo + 1)..n : ~LostBy(props, i, n) => i \in Kept(props, lo, n, n)
  BY DEF Kept
<1>6. \A i : i \in Kept(props, lo, n + 1, n + 1)
             <=> i \in (lo + 1)..(n + 1) /\ ~LostBy(props, i, n + 1)
  BY DEF Kept
<1> QED  BY <1>1, <1>2, <1>3, <1>4, <1>5, <1>6, Zenon

\* An elder sibling with children: all of the list is lost.
LEMMA KeptAnew ==
  ASSUME NEW props, NEW lo \in Nat, NEW n \in Nat, lo <= n,
         \A i \in (lo + 1)..n : props[i].depth \in Nat /\ props[i].depth >= props[n + 1].depth,
         props[n + 1].depth \in Nat,
         lo < n => props[n + 1].depth > 1 /\ props[n].depth > props[n + 1].depth
  PROVE  Kept(props, lo, n + 1, n + 1) = {n + 1}
<1>1. n + 1 \in Kept(props, lo, n + 1, n + 1)
  BY LastKept
<1>2. ASSUME NEW i \in (lo + 1)..n PROVE LostBy(props, i, n + 1)
  <2>1. i \in Nat /\ i <= n /\ lo < n /\ (n + 1) - 1 = n
    OBVIOUS
  <2>2. \A k \in i..(n + 1) : k \in (lo + 1)..n \/ k = n + 1
    OBVIOUS
  <2>3. \A k \in i..(n + 1) : props[k].depth >= props[n + 1].depth
    BY <2>2
  <2>4. LosesAt(props, i, n + 1)
    BY <2>1, <2>3 DEF LosesAt
  <2> QED  BY <2>1, <2>4, LostMore
<1>3. \A i : i \in (lo + 1)..(n + 1) <=> i \in (lo + 1)..n \/ i = n + 1
  OBVIOUS
<1>4. \A i : i \in Kept(props, lo, n + 1, n + 1)
             <=> i \in (lo + 1)..(n + 1) /\ ~LostBy(props, i, n + 1)
  BY DEF Kept
<1> QED  BY <1>1, <1>2, <1>3, <1>4, Zenon

LEMMA LinkedSame ==
  ASSUME NEW h, NEW g, NEW S, LinkedIn(h, S), \A i \in S : g[i].next = h[i].next
  PROVE  LinkedIn(g, S)
  BY DEF LinkedIn, Follows

\* Two lists, the second linked to the end of the first.
LEMMA LinkedJoin ==
  ASSUME NEW h, NEW g, NEW S \in SUBSET Nat, NEW T \in SUBSET Nat,
         LinkedIn(h, S), LinkedIn(h, T),
         NEW l \in S, NEW b \in T, b # 0,
         \A i \in S : i <= l, \A j \in T : b <= j /\ l < j,
         g[l].next = b, \A i \in (S \cup T) \ {l} : g[i].next = h[i].next
  PROVE  LinkedIn(g, S \cup T)
<1>1. ASSUME NEW i \in S, i # l PROVE Follows(g, S \cup T, i)
  <2>1. g[i].next = h[i].next /\ Follows(h, S, i)
    BY <1>1 DEF LinkedIn
  <2>2. i \in Nat /\ l \in Nat /\ i < l /\ ~(l <= i)
    BY <1>1
  <2>3. h[i].next \in S /\ i < h[i].next /\ \A j \in S : j <= i \/ h[i].next <= j
    <3>1. h[i].next # 0
      BY <2>1, <2>2 DEF Follows
    <3> QED  BY <2>1, <3>1 DEF Follows
  <2>4. ASSUME NEW j \in T PROVE h[i].next <= j
    <3>1. PICK x : x = h[i].next
      OBVIOUS
    <3>2. x \in Nat /\ x <= l /\ j \in Nat /\ l < j /\ l \in Nat
      BY <2>3, <3>1
    <3> QED  BY <3>1, <3>2
  <2> QED  BY <2>1, <2>2, <2>3, <2>4 DEF Follows
<1>2. Follows(g, S \cup T, l)
  BY DEF Follows
<1>3. ASSUME NEW i \in T PROVE Follows(g, S \cup T, i)
  <2>1. i # l /\ g[i].next = h[i].next /\ Follows(h, T, i)
    BY <1>3 DEF LinkedIn
  <2>2. \A j \in S : j <= i
    OBVIOUS
  <2> QED  BY <2>1, <2>2 DEF Follows
<1> QED  BY <1>1, <1>2, <1>3 DEF LinkedIn

LEMMA FirstJoin ==
  ASSUME NEW S \in SUBSET Nat, NEW T, NEW head, IsFirst(head, S), NEW l \in S, \A j \in T : j \in Nat /\ l < j
  PROVE  IsFirst(head, S \cup T)
<1>1. head \in S /\ \A j \in S : head <= j
  BY DEF IsFirst
<1>2. \A j \in T : head <= j
  BY <1>1
<1> QED  BY <1>1, <1>2, Zenon DEF IsFirst

\* A set of numbers has a least one.
LEMMA Least ==
  ASSUME NEW T \in SUBSET Nat, T # {}
  PROVE  \E m \in T : \A k \in T : m <= k
<1>1. IsWellFoundedOn(OpToRel(<, Nat), Nat)
  BY NatLessThanWellFounded
<1>2. PICK m \in T : \A k \in T : ~(<<k, m>> \in OpToRel(<, Nat))
  BY <1>1, WFMin
<1>3. \A k, l \in Nat : k < l => <<k, l>> \in OpToRel(<, Nat)
  BY DEF OpToRel
<1>4. m \in Nat /\ \A k \in T : k \in Nat
  OBVIOUS
<1>5. \A k \in T : ~(k < m)
  BY <1>2, <1>3, <1>4, Zenon
<1> QED  BY <1>4, <1>5, SMT

Forward(h) ==
  /\ Len(h) \in Nat /\ DOMAIN h = 1..Len(h)
  /\ \A e \in 1..Len(h) : h[e].next \in Nat /\ (h[e].next # 0 => e < h[e].next /\ h[e].next <= Len(h))

\* The function of LastOf, defined for the last m elements.
EndsFrom(ends, m, h) ==
  ends = [e \in (Len(h) - m + 1)..Len(h) |-> IF h[e].next = 0 THEN e ELSE ends[h[e].next]]

LEMMA EndsMore ==
  ASSUME NEW h, Forward(h), NEW m \in Nat, m < Len(h), NEW ends, EndsFrom(ends, m, h)
  PROVE  \E more : EndsFrom(more, m + 1, h)
<1> DEFINE z == Len(h) - m
           new == IF h[z].next = 0 THEN z ELSE ends[h[z].next]
           more == [e \in z..Len(h) |-> IF e = z THEN new ELSE ends[e]]
<1>1. z \in 1..Len(h) /\ Len(h) - (m + 1) + 1 = z /\ Len(h) - m + 1 = z + 1 /\ Len(h) \in Nat /\ z \in Nat
  BY DEF Forward
<1> HIDE DEF z
<1>2. \A e \in (z + 1)..Len(h) : more[e] = ends[e]
  BY <1>1
<1>3. more[z] = new
  BY <1>1
<1>4. \A e \in z..Len(h) : h[e].next # 0 => h[e].next \in (z + 1)..Len(h)
  BY <1>1 DEF Forward
<1>5. ends = [e \in (z + 1)..Len(h) |-> IF h[e].next = 0 THEN e ELSE ends[h[e].next]]
  BY <1>1 DEF EndsFrom
<1>6. \A e \in (z + 1)..Len(h) : ends[e] = IF h[e].next = 0 THEN e ELSE ends[h[e].next]
  BY <1>5
<1>7. ASSUME NEW e \in z..Len(h)
      PROVE  more[e] = IF h[e].next = 0 THEN e ELSE more[h[e].next]
  <2>1. CASE e = z
    BY <2>1, <1>2, <1>3, <1>4
  <2>2. CASE e # z
    <3>1. e \in (z + 1)..Len(h)
      BY <2>2, <1>1
    <3> QED  BY <3>1, <1>2, <1>4, <1>6
  <2> QED  BY <2>1, <2>2
<1>8. more = [e \in z..Len(h) |-> IF h[e].next = 0 THEN e ELSE more[h[e].next]]
  BY <1>7
<1> QED  BY <1>1, <1>8 DEF EndsFrom

LEMMA EndsExist ==
  ASSUME NEW h, Forward(h)
  PROVE  \E ends : EndsFrom(ends, Len(h), h)
<1> DEFINE T == {m \in Nat : m <= Len(h) /\ ~\E ends : EndsFrom(ends, m, h)}
<1>0. Len(h) \in Nat
  BY DEF Forward
<1> SUFFICES ASSUME T # {} PROVE FALSE
  BY <1>0
<1>1. PICK m \in T : \A k \in T : m <= k
  BY Least
<1>2. m # 0
  <2>1. (Len(h) - 0 + 1)..Len(h) = {}
    BY <1>0
  <2> DEFINE none == [e \in {} |-> 0]
  <2>2. none = [e \in {} |-> IF h[e].next = 0 THEN e ELSE none[h[e].next]]
    OBVIOUS
  <2>3. EndsFrom(none, 0, h)
    BY <2>1, <2>2 DEF EndsFrom
  <2> QED  BY <1>1, <2>3
<1>3. m - 1 \in Nat /\ m - 1 < Len(h) /\ m - 1 + 1 = m /\ m - 1 \notin T
  BY <1>0, <1>1, <1>2
<1>4. PICK ends : EndsFrom(ends, m - 1, h)
  BY <1>0, <1>3
<1>5. \E more : EndsFrom(more, m, h)
  BY <1>3, <1>4, EndsMore
<1> QED  BY <1>1, <1>5

\* LastOf finds the end of a list.
LEMMA LastOfList ==
  ASSUME Forward(heap), NEW S \in SUBSET (DOMAIN heap), LinkedIn(heap, S),
         NEW z \in S, \A j \in S : j <= z, NEW x \in S
  PROVE  LastOf(x) = z
<1> DEFINE Is(ends) == ends = [e \in DOMAIN heap |-> IF heap[e].next = 0 THEN e ELSE ends[heap[e].next]]
           last == CHOOSE ends : Is(ends)
<1>1. \E ends : Is(ends)
  <2>1. PICK ends : EndsFrom(ends, Len(heap), heap)
    BY EndsExist
  <2>2. (Len(heap) - Len(heap) + 1)..Len(heap) = DOMAIN heap
    BY DEF Forward
  <2>3. Is(ends)
    BY <2>1, <2>2 DEF EndsFrom
  <2> QED  BY <2>3
<1>2. Is(last)
  BY <1>1, Zenon
<1>3. LastOf(x) = last[x]
  BY Zenon DEF LastOf
<1> HIDE DEF last
<1>4. \A e \in DOMAIN heap : last[e] = IF heap[e].next = 0 THEN e ELSE last[heap[e].next]
  BY <1>2
<1> HIDE DEF Is
<1>5. DOMAIN heap = 1..Len(heap) /\ Len(heap) \in Nat
  BY DEF Forward
<1> DEFINE T == {m \in Nat : \E e \in S : e = Len(heap) - m /\ last[e] # z}
<1>6. ASSUME last[x] # z PROVE FALSE
  <2>1. T # {}
    <3>1. Len(heap) - x \in Nat /\ x = Len(heap) - (Len(heap) - x)
      BY <1>5
    <3> QED  BY <3>1, <1>6
  <2>2. PICK m \in T : \A k \in T : m <= k
    BY <2>1, Least
  <2>3. PICK e \in S : e = Len(heap) - m /\ last[e] # z
    BY <2>2
  <2>4. Follows(heap, S, e) /\ e \in 1..Len(heap) /\ m \in Nat /\ z \in 1..Len(heap)
    BY <1>5 DEF LinkedIn
  <2>5. CASE heap[e].next = 0
    <3>1. z <= e /\ e <= z
      BY <2>4, <2>5 DEF Follows
    <3>2. e = z
      BY <3>1, <2>4
    <3> QED  BY <3>2, <2>3, <2>5, <1>4
  <2>6. CASE heap[e].next # 0
    <3>1. PICK f : f = heap[e].next
      OBVIOUS
    <3>2. f \in S /\ e < f /\ f \in 1..Len(heap)
      BY <2>4, <2>6, <3>1, <1>5 DEF Follows
    <3>3. last[f] # z
      BY <2>3, <2>6, <3>1, <1>4
    <3>4. Len(heap) - f \in Nat /\ f = Len(heap) - (Len(heap) - f) /\ Len(heap) - f < m
      BY <3>2, <2>3, <2>4, <1>5
    <3>5. Len(heap) - f \in T
      BY <3>2, <3>3, <3>4
    <3> QED  BY <3>4, <3>5, <2>2, <2>4
  <2> QED  BY <2>5, <2>6
<1> QED  BY <1>3, <1>6

Frame == [head : Nat, last : Nat]

\* The list of call k has the properties from Lo + 1 to Hi that are still listed, when
\* n are made.
Lo(c, k) == IF k = 1 THEN 0 ELSE c[k - 1].last
Hi(c, n, k) == IF k = Len(c) THEN n ELSE c[k].last
InList(c, props, n, k) == Kept(props, Lo(c, k), Hi(c, n, k), n)

\* The calls that wait are at ancestors of the property made last.
Ancestors(c, props, n) ==
  \A k \in 1..(Len(c) - 1) :
    /\ 0 < c[k].last /\ c[k].last <= n
    /\ props[c[k].last].depth = k
    /\ \A j \in 1..(k - 1) : c[j].last < c[k].last
Descendants(c, props, n, k) == \A i \in (Lo(c, k) + 1)..n : props[i].depth >= k
ListOf(c, h, props, n, k) ==
  IsFirst(c[k].head, InList(c, props, n, k)) /\ LinkedIn(h, InList(c, props, n, k))

\* What the last call takes for the end of its list.
EndOf(c, props, n) ==
  IF Lo(c, Len(c)) < n /\ (Len(c) = 1 \/ props[n].depth = Len(c)) THEN n ELSE 0

DumpInv ==
  /\ calls \in Seq(Frame) /\ calls # <<>>
  /\ Len(heap) = at - 1 /\ at - 1 <= Len(Props)
  /\ \A e \in DOMAIN heap : heap[e].prop = e
  /\ at <= Len(Props) => Props[at].depth <= Len(calls)
  /\ Ancestors(calls, Props, at - 1)
  /\ \A k \in DOMAIN calls :
       Descendants(calls, Props, at - 1, k) /\ ListOf(calls, heap, Props, at - 1, k)
  /\ Top.last = EndOf(calls, Props, at - 1)

\* The loop comes to the elements of the outermost list one after the other.
All == Kept(Props, 0, Len(Props), Len(Props))
TaggedInv ==
  /\ Len(heap) = Len(Props)
  /\ \A e \in DOMAIN heap : heap[e].prop = e
  /\ from \in All /\ LinkedIn(heap, All)
  /\ {rows[i] : i \in DOMAIN rows} = {i \in All : i < from /\ Tag(Props[i]) # 0}

\* The list of the file's snips has an end; a result is of one of them.
BoundsInv ==
  /\ snip <= Len(file) + 1
  /\ pc \in {"snips", "dump", "tagged", "print", "printed", "crash"}
  /\ from \in 0..Len(heap)
  /\ result \in [of : 0..Len(file), rows : Seq(Nat \ {0})]

ListInv ==
  /\ file \in Files
  /\ BoundsInv
  /\ pc = "dump" => DumpInv
  /\ pc = "tagged" => TaggedInv
  /\ pc # "dump" => calls = <<>>
  /\ result # Null => {result.rows[i] : i \in DOMAIN result.rows} = Shown(file[result.of].props)

ShownInv == PacketInv /\ OrderInv /\ ListInv

\* Of the packet at hand.
LEMMA PropsTree ==
  ASSUME ShownInv, pc \in {"dump", "tagged"}
  PROVE  /\ Props \in Seq(Property) /\ Len(Props) \in Nat
         /\ \A i \in 1..Len(Props) : Props[i].depth \in Nat \ {0}
         /\ \A i \in 1..Len(Props) : Props[i].depth <= IF i = 1 THEN 1 ELSE Props[i - 1].depth + 1
<1>1. file \in Files /\ file \in Seq(Snip) /\ snip \in DOMAIN file
  BY DEF ShownInv, ListInv, PacketInv, AtPacket
<1>2. file[snip] \in Snip
  BY <1>1, ElementOfSeq
<1>3. Props \in Seq(Property)
  BY <1>2 DEF Snip, Props
<1>4. IsTree(Props)
  BY <1>1, FilesAssumption DEF Props
<1>5. \A i \in 1..Len(Props) : Props[i] \in Property
  BY <1>3, ElementOfSeq
<1>6. DOMAIN Props = 1..Len(Props) /\ Len(Props) \in Nat
  BY <1>3
<1> QED  BY <1>3, <1>4, <1>5, <1>6 DEF IsTree, Property

LEMMA HeapForward == HeapInv => Forward(heap)
<1> SUFFICES ASSUME HeapInv PROVE Forward(heap)
  OBVIOUS
<1>1. heap \in Seq(Element)
  BY DEF HeapInv
<1>2. \A e \in 1..Len(heap) : heap[e] \in Element
  BY <1>1, ElementOfSeq
<1> QED  BY <1>1, <1>2 DEF Forward, HeapInv, Element

\* The end of an unfinished list is older than the lists behind it.
LEMMA LoHi ==
  ASSUME NEW c \in Seq(Frame), NEW n \in Nat, NEW props, Ancestors(c, props, n), NEW k \in 1..Len(c)
  PROVE  /\ Lo(c, k) \in Nat /\ Hi(c, n, k) \in Nat
         /\ Lo(c, k) <= Hi(c, n, k) /\ Hi(c, n, k) <= n
         /\ k < Len(c) => Hi(c, n, k) <= Lo(c, Len(c)) /\ Lo(c, k) < Hi(c, n, k)
<1>1. \A j \in 1..Len(c) : c[j].last \in Nat
  <2>1. \A j \in 1..Len(c) : c[j] \in Frame
    BY ElementOfSeq
  <2> QED  BY <2>1 DEF Frame
<1>2. Len(c) \in Nat
  OBVIOUS
<1>3. ASSUME k # 1 PROVE k - 1 \in 1..(Len(c) - 1) /\ Lo(c, k) = c[k - 1].last /\ k - 1 \in 1..Len(c)
  BY <1>2, <1>3 DEF Lo
<1>4. Lo(c, k) \in Nat /\ Lo(c, k) <= n
  BY <1>1, <1>3 DEF Lo, Ancestors
<1>5. ASSUME k < Len(c)
      PROVE  c[k].last \in Nat /\ Lo(c, k) < c[k].last /\ c[k].last <= n /\ c[k].last <= Lo(c, Len(c))
  <2>1. k \in 1..(Len(c) - 1) /\ k \in 1..Len(c)
    BY <1>2, <1>5
  <2>2. 0 < c[k].last /\ c[k].last <= n /\ c[k].last \in Nat
    BY <2>1, <1>1 DEF Ancestors
  <2>3. Lo(c, k) < c[k].last
    <3>1. CASE k = 1
      BY <3>1, <2>2 DEF Lo
    <3>2. CASE k # 1
      <4>1. k - 1 \in 1..(k - 1)
        BY <3>2
      <4> QED  BY <3>2, <4>1, <1>3, <2>1 DEF Ancestors
    <3> QED  BY <3>1, <3>2
  <2>4. c[k].last <= Lo(c, Len(c))
    <3>0. Len(c) # 1 /\ Len(c) - 1 \in 1..(Len(c) - 1)
      <4>1. \A m \in Nat : k \in 1..(m - 1) => m # 1 /\ m - 1 \in 1..(m - 1)
        OBVIOUS
      <4> QED  BY <4>1, <2>1, <1>2, Zenon
    <3>1. Len(c) - 1 \in 1..(Len(c) - 1) /\ Lo(c, Len(c)) = c[Len(c) - 1].last
      BY <3>0, Zenon DEF Lo
    <3>2. CASE k = Len(c) - 1
      BY <3>1, <3>2, <2>2
    <3>3. CASE k # Len(c) - 1
      <4>1. k \in 1..(Len(c) - 1 - 1) /\ Len(c) - 1 \in 1..Len(c)
        BY <3>3, <2>1, <1>2
      <4>2. c[k].last < c[Len(c) - 1].last
        BY <3>1, <4>1 DEF Ancestors
      <4>3. c[Len(c) - 1].last \in Nat
        BY <4>1, <1>1
      <4> QED  BY <3>1, <4>2, <4>3, <2>2
    <3> QED  BY <3>2, <3>3
  <2> QED  BY <2>2, <2>3, <2>4
<1>6. CASE k < Len(c)
  BY <1>4, <1>5, <1>6 DEF Hi
<1>7. CASE k = Len(c)
  BY <1>4, <1>7 DEF Hi
<1> QED  BY <1>6, <1>7, <1>2

\* The steps that leave what is listed alone.
LEMMA BeginDumpList == ShownInv /\ BeginDump => DumpInv'
<1> SUFFICES ASSUME ShownInv, BeginDump PROVE DumpInv'
  OBVIOUS
<1>1. /\ calls' = <<[head |-> 0, last |-> 0]>> /\ heap' = <<>> /\ at' = 1
      /\ UNCHANGED <<file, snip>> /\ pc' = "dump"
  BY DEF BeginDump
<1> PICK props : props = Props'
  OBVIOUS
<1>2. /\ props \in Seq(Property) /\ Len(props) \in Nat
      /\ \A i \in 1..Len(props) : props[i].depth <= IF i = 1 THEN 1 ELSE props[i - 1].depth + 1
  <2>1. file \in Files /\ file \in Seq(Snip) /\ snip \in DOMAIN file
    BY DEF ShownInv, ListInv, PacketInv, BeginDump, MoreSnips
  <2>2. file[snip] \in Snip
    BY <2>1, ElementOfSeq
  <2>3. props = file[snip].props
    BY <1>1 DEF Props
  <2>4. props \in Seq(Property)
    BY <2>2, <2>3 DEF Snip
  <2>5. IsTree(props)
    BY <2>1, <2>3, FilesAssumption
  <2>6. DOMAIN props = 1..Len(props) /\ Len(props) \in Nat
    BY <2>4
  <2> QED  BY <2>4, <2>5, <2>6, Zenon DEF IsTree
<1> PICK c : c = calls'
  OBVIOUS
<1>3. c \in Seq(Frame) /\ c # <<>> /\ Len(c) = 1 /\ DOMAIN c = {1} /\ c[1].head = 0 /\ c[1].last = 0
  BY <1>1 DEF Frame
<1>4. Lo(c, 1) = 0 /\ Hi(c, 0, 1) = 0
  BY <1>3 DEF Lo, Hi
<1>5. InList(c, props, 0, 1) = {}
  BY <1>4 DEF InList, Kept
<1>6. ListOf(c, heap', props, 0, 1) /\ Descendants(c, props, 0, 1)
  BY <1>3, <1>4, <1>5 DEF ListOf, IsFirst, LinkedIn, Descendants
<1>7. EndOf(c, props, 0) = 0
  BY <1>3, <1>4 DEF EndOf
<1>8. Ancestors(c, props, 0)
  BY <1>3 DEF Ancestors
<1>9. at' - 1 = 0 /\ Len(heap') = 0 /\ DOMAIN heap' = {}
  BY <1>1
<1>10. at' <= Len(Props') => Props'[at'].depth <= Len(calls')
  BY <1>1, <1>2, <1>3
<1>11. Top'.last = 0
  BY <1>3 DEF Top
<1> QED
  BY <1>2, <1>3, <1>6, <1>7, <1>8, <1>9, <1>10, <1>11 DEF DumpInv

\* The lists of the N calls when n properties are made.
Lists(props, n, h, c, N) ==
  /\ n \in Nat /\ c \in Seq(Frame) /\ N = Len(c) /\ N \in Nat \ {0}
  /\ Ancestors(c, props, n)
  /\ \A k \in 1..N : Descendants(c, props, n, k) /\ ListOf(c, h, props, n, k)
  /\ c[N].last = EndOf(c, props, n)

\* What Visit makes of them.
NextVisited(props, n, h, h1, c, c1, N) ==
  /\ \A i \in 1..(n + 1) : props[i].depth \in Nat \ {0}
  /\ props[n + 1].depth = N
  /\ c1 \in Seq(Frame) /\ Len(c1) = N + 1
  /\ \A k \in 1..N : k # N => c1[k] = c[k]
  /\ c1[N].last = n + 1 /\ c1[N].head = IF c[N].last = 0 THEN n + 1 ELSE c[N].head
  /\ c1[N + 1].head = 0
  /\ \A e \in 1..n : h1[e].next = IF e = c[N].last THEN n + 1 ELSE h[e].next
  /\ h1[n + 1].next = 0

\* A property is made: its element is the end of the list of the last call, or the list
\* begins again with it.
LEMMA VisitLists ==
  ASSUME NEW props, NEW n, NEW h, NEW h1, NEW c, NEW c1, NEW N,
         Lists(props, n, h, c, N), NextVisited(props, n, h, h1, c, c1, N)
  PROVE  /\ Ancestors(c1, props, n + 1)
         /\ \A k \in 1..(N + 1) : Descendants(c1, props, n + 1, k) /\ ListOf(c1, h1, props, n + 1, k)
         /\ EndOf(c1, props, n + 1) = 0
<1>a. /\ n \in Nat /\ c \in Seq(Frame) /\ N = Len(c) /\ N \in Nat \ {0}
      /\ Ancestors(c, props, n)
      /\ \A k \in 1..N : Descendants(c, props, n, k) /\ ListOf(c, h, props, n, k)
      /\ c[N].last = EndOf(c, props, n)
  BY DEF Lists
<1>b. /\ \A i \in 1..(n + 1) : props[i].depth \in Nat \ {0}
      /\ props[n + 1].depth = N
      /\ c1 \in Seq(Frame) /\ Len(c1) = N + 1
      /\ \A k \in 1..N : k # N => c1[k] = c[k]
      /\ c1[N].last = n + 1 /\ c1[N].head = IF c[N].last = 0 THEN n + 1 ELSE c[N].head
      /\ c1[N + 1].head = 0
      /\ \A e \in 1..n : h1[e].next = IF e = c[N].last THEN n + 1 ELSE h[e].next
      /\ h1[n + 1].next = 0
  BY DEF NextVisited
<1> USE <1>a, <1>b
<1>1. /\ \A k \in 1..N : Lo(c1, k) = Lo(c, k)
      /\ Lo(c1, N + 1) = n + 1
  <2>1. ASSUME NEW k \in 1..N PROVE Lo(c1, k) = Lo(c, k)
    <3>1. k # 1 => k - 1 \in 1..N /\ k - 1 # N
      OBVIOUS
    <3> QED  BY <3>1 DEF Lo
  <2>2. N + 1 # 1 /\ N + 1 - 1 = N
    OBVIOUS
  <2> QED  BY <2>1, <2>2 DEF Lo
<1>2. /\ \A k \in 1..N : k # N => Hi(c1, n + 1, k) = Hi(c, n, k) /\ Hi(c, n, k) = c[k].last
      /\ Hi(c1, n + 1, N) = n + 1 /\ Hi(c, n, N) = n
      /\ Hi(c1, n + 1, N + 1) = n + 1
  <2>1. \A k \in 1..N : k # N + 1
    OBVIOUS
  <2>2. N \in 1..N
    OBVIOUS
  <2> QED  BY <2>1, <2>2 DEF Hi
<1> PICK lo : lo = Lo(c, N)
  OBVIOUS
<1>3. lo \in Nat /\ lo <= n /\ N \in 1..N
  <2>1. N \in 1..N
    OBVIOUS
  <2> QED  BY <2>1, <1>2, LoHi
<1>4. \A i \in (lo + 1)..n : props[i].depth \in Nat /\ props[i].depth >= N
  <2>1. \A i \in (lo + 1)..n : i \in 1..(n + 1)
    BY <1>3
  <2> QED  BY <2>1, <1>3 DEF Descendants
<1>5. Ancestors(c1, props, n + 1)
  <2>1. ASSUME NEW k \in 1..N
        PROVE  /\ 0 < c1[k].last /\ c1[k].last <= n + 1
               /\ props[c1[k].last].depth = k
               /\ \A j \in 1..(k - 1) : c1[j].last < c1[k].last
    <3>0. \A j \in 1..(k - 1) : j \in 1..(N - 1) /\ j \in 1..N /\ j # N
      OBVIOUS
    <3>1. CASE k = N
      <4>1. \A j \in 1..(k - 1) : c[j].last <= n /\ c[j].last \in Nat /\ c1[j] = c[j]
        <5>1. \A j \in 1..N : c[j] \in Frame
          BY ElementOfSeq
        <5> QED  BY <3>0, <5>1 DEF Ancestors, Frame
      <4> QED  BY <3>1, <4>1
    <3>2. CASE k # N
      <4>1. k \in 1..(N - 1) /\ c1[k] = c[k]
        BY <3>2
      <4>2. c[k].last \in Nat
        BY <3>2, <1>2, LoHi
      <4> QED  BY <3>0, <4>1, <4>2 DEF Ancestors
    <3> QED  BY <3>1, <3>2
  <2>2. Len(c1) - 1 = N
    OBVIOUS
  <2> QED  BY <2>1, <2>2 DEF Ancestors
<1>6. ASSUME NEW k \in 1..N, k # N
      PROVE  Descendants(c1, props, n + 1, k) /\ ListOf(c1, h1, props, n + 1, k)
  <2> PICK l : l = c[k].last
    OBVIOUS
  <2>1. /\ l \in Nat /\ l <= lo /\ l <= n /\ Lo(c, k) \in Nat /\ Lo(c, k) < l
        /\ Lo(c1, k) = Lo(c, k) /\ Hi(c1, n + 1, k) = l /\ Hi(c, n, k) = l /\ c1[k] = c[k]
    BY <1>1, <1>2, <1>6, LoHi
  <2>2. props[l].depth = k
    <3>1. k \in 1..(N - 1)
      BY <1>6
    <3> QED  BY <3>1 DEF Ancestors
  <2>3. InList(c1, props, n + 1, k) = InList(c, props, n, k)
    BY <2>1, <2>2, <1>6, KeptAbove DEF InList
  <2>4. ASSUME NEW i \in InList(c, props, n, k) PROVE h1[i].next = h[i].next
    <3>1. i \in Nat /\ 0 < i /\ i <= l
      BY <2>1, KeptRange DEF InList
    <3>2. i # c[N].last
      BY <3>1, <2>1, <1>3 DEF EndOf
    <3>3. i \in 1..n
      BY <3>1, <2>1
    <3> QED  BY <3>2, <3>3
  <2>5. ListOf(c1, h1, props, n + 1, k)
    BY <2>1, <2>3, <2>4, LinkedSame DEF ListOf
  <2>6. Descendants(c1, props, n + 1, k)
    <3>1. \A i \in (Lo(c, k) + 1)..(n + 1) : i \in (Lo(c, k) + 1)..n \/ i = n + 1
      BY <2>1
    <3> QED  BY <3>1, <2>1, <1>6 DEF Descendants
  <2> QED  BY <2>5, <2>6
<1>7. Descendants(c1, props, n + 1, N)
  <2>1. \A i \in (lo + 1)..(n + 1) : i \in (lo + 1)..n \/ i = n + 1
    BY <1>3
  <2> QED  BY <2>1, <1>1, <1>3, <1>4 DEF Descendants
<1> PICK S : S = InList(c, props, n, N)
  OBVIOUS
<1> PICK S1 : S1 = InList(c1, props, n + 1, N)
  OBVIOUS
<1>8. S = Kept(props, lo, n, n) /\ S1 = Kept(props, lo, n + 1, n + 1)
  BY <1>1, <1>2, <1>3 DEF InList
<1>9. S \in SUBSET Nat /\ (\A i \in S : 0 < i /\ i <= n) /\ (lo = n => S = {})
  BY <1>3, <1>8, KeptRange
<1>10. IsFirst(c[N].head, S) /\ LinkedIn(h, S)
  BY <1>3 DEF ListOf
<1>11. ASSUME c[N].last = 0
       PROVE  ListOf(c1, h1, props, n + 1, N)
  <2>1. lo < n => N > 1 /\ props[n].depth > N
    <3>1. ASSUME lo < n PROVE n \in (lo + 1)..n
      BY <1>3, <3>1
    <3>2. lo < n => N # 1 /\ props[n].depth # N
      BY <1>11, <1>3 DEF EndOf
    <3> QED  BY <3>1, <3>2, <1>3, <1>4
  <2>2. S1 = {n + 1}
    <3>1. props[n + 1].depth \in Nat
      OBVIOUS
    <3>2. \A i \in (lo + 1)..n : props[i].depth \in Nat /\ props[i].depth >= props[n + 1].depth
      BY <1>4
    <3>3. lo < n => props[n + 1].depth > 1 /\ props[n].depth > props[n + 1].depth
      BY <2>1
    <3>4. Kept(props, lo, n + 1, n + 1) = {n + 1}
      BY <3>1, <3>2, <3>3, <1>3, KeptAnew
    <3> QED  BY <3>4, <1>8, Zenon
  <2>3. c1[N].head = n + 1
    BY <1>11
  <2>4. IsFirst(c1[N].head, S1) /\ LinkedIn(h1, S1)
    BY <2>2, <2>3 DEF IsFirst, LinkedIn, Follows
  <2> QED  BY <2>4 DEF ListOf
<1>12. ASSUME c[N].last # 0
       PROVE  ListOf(c1, h1, props, n + 1, N)
  <2>1. c[N].last = n /\ lo < n /\ (N = 1 \/ props[n].depth = N) /\ n # 0
    BY <1>12, <1>3 DEF EndOf
  <2>2. S1 = S \cup {n + 1}
    <3>1. ~(props[n + 1].depth > 1 /\ props[n].depth > props[n + 1].depth)
      BY <2>1
    <3>2. Kept(props, lo, n + 1, n + 1) = Kept(props, lo, n, n) \cup {n + 1}
      BY <3>1, <1>3, KeptGrows
    <3> QED  BY <3>2, <1>8, Zenon
  <2>3. n \in S
    BY <2>1, <1>3, <1>8, LastKept
  <2>4. c1[N].head = c[N].head
    BY <1>12
  <2>5. IsFirst(c1[N].head, S1)
    <3>1. \A j \in {n + 1} : j \in Nat /\ n < j
      OBVIOUS
    <3>2. IsFirst(c[N].head, S \cup {n + 1})
      BY <3>1, <2>3, <1>9, <1>10, FirstJoin
    <3> QED  BY <3>2, <2>2, <2>4, Zenon
  <2>6. h1[n].next = n + 1
    <3>1. n \in 1..n
      BY <2>1
    <3> QED  BY <3>1, <2>1
  <2>7. \A i \in S : i # n => h1[i].next = h[i].next
    <3>1. \A i \in S : i \in 1..n
      BY <1>9
    <3> QED  BY <3>1, <2>1
  <2>8. LinkedIn(h1, S1)
    <3>1. ASSUME NEW i \in S, i # n PROVE Follows(h1, S1, i)
      <4>1. Follows(h, S, i) /\ i < n /\ i \in Nat
        BY <1>9, <1>10, <3>1 DEF LinkedIn
      <4>2. ~(n <= i)
        BY <4>1
      <4>3. h[i].next # 0
        BY <4>1, <4>2, <2>3 DEF Follows
      <4>4. PICK x : x = h[i].next
        OBVIOUS
      <4>5. x \in S /\ i < x /\ \A j \in S : j <= i \/ x <= j
        BY <4>1, <4>3, <4>4 DEF Follows
      <4>6. x <= n + 1
        BY <4>5, <1>9
      <4>7. h1[i].next = x
        BY <3>1, <2>7, <4>4
      <4>8. \A j \in S1 : j <= i \/ x <= j
        BY <4>5, <4>6, <2>2
      <4>9. x # 0 /\ x \in S1
        BY <4>3, <4>4, <4>5, <2>2
      <4> QED  BY <4>5, <4>7, <4>8, <4>9 DEF Follows
    <3>2. Follows(h1, S1, n)
      <4>1. \A j \in S1 : j <= n \/ n + 1 <= j
        BY <2>2, <1>9
      <4>2. n + 1 \in S1 /\ n < n + 1 /\ n + 1 # 0
        BY <2>2
      <4> QED  BY <4>1, <4>2, <2>6 DEF Follows
    <3>3. Follows(h1, S1, n + 1)
      <4>1. \A j \in S1 : j <= n + 1
        BY <2>2, <1>9
      <4> QED  BY <4>1 DEF Follows
    <3> QED  BY <3>1, <3>2, <3>3, <2>2 DEF LinkedIn
  <2> QED  BY <2>5, <2>8 DEF ListOf
<1>13. Descendants(c1, props, n + 1, N + 1) /\ ListOf(c1, h1, props, n + 1, N + 1)
  <2>1. (n + 1 + 1)..(n + 1) = {}
    OBVIOUS
  <2>2. InList(c1, props, n + 1, N + 1) = {}
    BY <1>1, <1>2, KeptRange DEF InList
  <2> QED  BY <2>1, <2>2, <1>1 DEF Descendants, ListOf, IsFirst, LinkedIn
<1>14. ASSUME NEW k \in 1..(N + 1)
       PROVE  Descendants(c1, props, n + 1, k) /\ ListOf(c1, h1, props, n + 1, k)
  <2>1. (k \in 1..N /\ k # N) \/ k = N \/ k = N + 1
    OBVIOUS
  <2>2. CASE k \in 1..N /\ k # N
    BY <2>2, <1>6
  <2>3. CASE k = N
    BY <2>3, <1>7, <1>11, <1>12
  <2>4. CASE k = N + 1
    BY <2>4, <1>13
  <2> QED  BY <2>1, <2>2, <2>3, <2>4
<1>15. EndOf(c1, props, n + 1) = 0
  BY <1>1 DEF EndOf
<1> QED  BY <1>5, <1>14, <1>15

LEMMA VisitCalls ==
  ASSUME NEW c \in Seq(Frame), c # <<>>, NEW top \in Frame, NEW sub \in Frame,
         NEW c1, c1 = Append([c EXCEPT ![Len(c)] = top], sub)
  PROVE  /\ Len(c) \in Nat \ {0}
         /\ c1 \in Seq(Frame) /\ Len(c1) = Len(c) + 1 /\ c1[Len(c) + 1] = sub /\ c1[Len(c)] = top
         /\ \A k \in 1..Len(c) : k # Len(c) => c1[k] = c[k]
<1>1. Len(c) \in Nat \ {0} /\ Len(c) \in 1..Len(c)
  OBVIOUS
<1>2. PICK d : d = [c EXCEPT ![Len(c)] = top]
  OBVIOUS
<1>3. /\ d \in Seq(Frame) /\ Len(d) = Len(c)
      /\ \A k \in 1..Len(c) : d[k] = IF k = Len(c) THEN top ELSE c[k]
  BY <1>1, <1>2, ExceptSeq
<1>4. c1 = Append(d, sub)
  BY <1>2
<1>5. /\ c1 \in Seq(Frame) /\ Len(c1) = Len(d) + 1 /\ c1[Len(d) + 1] = sub
      /\ \A k \in 1..Len(d) : c1[k] = d[k]
  BY <1>3, <1>4, AppendProperties
<1> QED  BY <1>1, <1>3, <1>5

\* The last call is at the end of its list, if it is at an element at all.
LEMMA VisitHeap ==
  ASSUME HeapInv, Visit
  PROVE  /\ heap' \in Seq(Element) /\ Len(heap') = Len(heap) + 1 /\ Len(heap) \in Nat
         /\ \A e \in 1..Len(heap) :
              /\ heap'[e].prop = heap[e].prop
              /\ heap'[e].next = IF e = Top.last THEN Len(heap) + 1 ELSE heap[e].next
         /\ heap'[Len(heap) + 1] = [prop |-> at, next |-> 0]
<1>1. heap \in Seq(Element) /\ at \in Nat \ {0} /\ Len(heap) \in Nat /\ DOMAIN heap = 1..Len(heap)
  BY DEF HeapInv
<1>2. New \in Nat /\ New = Len(heap) + 1
  BY <1>1 DEF New
<1>3. PICK made : made = [prop |-> at, next |-> 0]
  OBVIOUS
<1>4. made \in Element
  BY <1>1, <1>3 DEF Element
<1>5. PICK h : h = IF Top.last = 0 THEN heap ELSE Linked(Top.last, New)
  OBVIOUS
<1>6. /\ h \in Seq(Element) /\ Len(h) = Len(heap)
      /\ \A e \in 1..Len(heap) :
           h[e].prop = heap[e].prop /\ h[e].next = IF e = Top.last THEN New ELSE heap[e].next
  <2>1. CASE Top.last = 0
    <3>1. \A e \in 1..Len(heap) : e # Top.last
      BY <2>1
    <3> QED  BY <1>1, <1>5, <2>1, <3>1
  <2>2. CASE Top.last # 0
    BY <1>1, <1>2, <1>5, <2>2, LinkedElement
  <2> QED  BY <2>1, <2>2
<1>7. heap' = Append(h, made)
  BY <1>3, <1>5 DEF Visit
<1>8. /\ heap' \in Seq(Element) /\ Len(heap') = Len(h) + 1 /\ heap'[Len(h) + 1] = made
      /\ \A e \in 1..Len(h) : heap'[e] = h[e]
  BY <1>4, <1>6, <1>7, AppendProperties
<1> QED  BY <1>1, <1>2, <1>3, <1>6, <1>8

LEMMA VisitList == ShownInv /\ DumpInv /\ Visit => DumpInv'
<1> SUFFICES ASSUME ShownInv, DumpInv, Visit PROVE DumpInv'
  OBVIOUS
<1> PICK props : props = Props
  OBVIOUS
<1>1. props' = props /\ Props' = props
  BY DEF Visit, Props
<1>2. /\ props \in Seq(Property) /\ Len(props) \in Nat
      /\ \A i \in 1..Len(props) : props[i].depth \in Nat \ {0}
      /\ \A i \in 1..Len(props) : props[i].depth <= IF i = 1 THEN 1 ELSE props[i - 1].depth + 1
  BY PropsTree DEF Visit
<1> PICK n : n = at - 1
  OBVIOUS
<1> PICK c : c = calls
  OBVIOUS
<1> PICK c1 : c1 = calls'
  OBVIOUS
<1> PICK h : h = heap
  OBVIOUS
<1> PICK h1 : h1 = heap'
  OBVIOUS
<1>3. n \in Nat /\ at = n + 1 /\ at' = n + 2 /\ at' - 1 = n + 1 /\ n < Len(props) /\ Len(h) = n
  <2>1. at \in Nat \ {0} /\ at' = at + 1 /\ at <= Len(props)
    BY DEF ShownInv, PacketInv, Visit, HasMorePaths
  <2> QED  BY <2>1, <1>2 DEF DumpInv
<1> PICK N : N = Len(c)
  OBVIOUS
<1>4. PICK top : top = [head |-> IF c[N].last = 0 THEN n + 1 ELSE c[N].head, last |-> n + 1]
  OBVIOUS
<1>5. PICK sub : sub = [head |-> 0, last |-> 0]
  OBVIOUS
<1>6. c \in Seq(Frame) /\ c # <<>> /\ N \in Nat \ {0}
  BY DEF DumpInv
<1>7. top \in Frame /\ sub \in Frame
  <2>1. c[N] \in Frame
    <3>1. N \in 1..Len(c)
      BY <1>6
    <3> QED  BY <3>1, <1>6, ElementOfSeq
  <2> QED  BY <2>1, <1>3, <1>4, <1>5 DEF Frame
<1>8. New = n + 1
  BY <1>3 DEF New
<1>9. c1 = Append([c EXCEPT ![N] = top], sub)
  BY <1>4, <1>5, <1>8 DEF Visit, Top
<1>10. /\ c1 \in Seq(Frame) /\ Len(c1) = N + 1 /\ c1[N + 1] = sub /\ c1[N] = top
       /\ \A k \in 1..N : k # N => c1[k] = c[k]
  BY <1>6, <1>7, <1>9, VisitCalls
<1>11. /\ h1 \in Seq(Element) /\ Len(h1) = n + 1
       /\ \A e \in 1..n :
            /\ h1[e].prop = h[e].prop
            /\ h1[e].next = IF e = c[N].last THEN n + 1 ELSE h[e].next
       /\ h1[n + 1] = [prop |-> n + 1, next |-> 0]
  BY <1>3, VisitHeap DEF ShownInv, OrderInv, Top
<1>12. props[n + 1].depth = N
  BY <1>3 DEF Visit, HasMorePaths
<1>13. /\ Ancestors(c, props, n)
       /\ \A k \in 1..N : Descendants(c, props, n, k) /\ ListOf(c, h, props, n, k)
       /\ c[N].last = EndOf(c, props, n)
  <2>1. DOMAIN c = 1..N
    BY <1>6
  <2> QED  BY <2>1 DEF DumpInv, Top
<1>14. /\ Ancestors(c1, props, n + 1)
       /\ \A k \in 1..(N + 1) : Descendants(c1, props, n + 1, k) /\ ListOf(c1, h1, props, n + 1, k)
       /\ EndOf(c1, props, n + 1) = 0
  <2>1. \A i \in 1..(n + 1) : props[i].depth \in Nat \ {0}
    BY <1>2, <1>3
  <2>2. c1[N].last = n + 1 /\ c1[N].head = (IF c[N].last = 0 THEN n + 1 ELSE c[N].head) /\ c1[N + 1].head = 0
    BY <1>4, <1>5, <1>10
  <2>3. /\ h1[n + 1].next = 0
        /\ \A e \in 1..n : h1[e].next = IF e = c[N].last THEN n + 1 ELSE h[e].next
    BY <1>11
  <2>4. N \in Nat /\ N # 0 /\ c1 \in Seq(Frame) /\ Len(c1) = N + 1
        /\ \A k \in 1..N : k # N => c1[k] = c[k]
    BY <1>6, <1>10
  <2>5. Lists(props, n, h, c, N)
    BY <1>3, <1>6, <1>13 DEF Lists
  <2>6. NextVisited(props, n, h, h1, c, c1, N)
    BY <2>1, <2>2, <2>3, <2>4, <1>12 DEF NextVisited
  <2> QED  BY <2>5, <2>6, VisitLists, Zenon
<1>15. \A e \in DOMAIN h1 : h1[e].prop = e
  <2>1. \A e \in 1..n : h[e].prop = e
    <3>1. DOMAIN heap = 1..Len(heap)
      BY DEF ShownInv, OrderInv, HeapInv
    <3> QED  BY <3>1, <1>3 DEF DumpInv
  <2>2. DOMAIN h1 = 1..(n + 1)
    BY <1>11
  <2>3. \A e \in 1..(n + 1) : e \in 1..n \/ e = n + 1
    BY <1>3
  <2> QED  BY <2>1, <2>2, <2>3, <1>11
<1>16. n + 2 <= Len(props) => props[n + 2].depth <= N + 1
  <2>1. ASSUME n + 2 <= Len(props) PROVE n + 2 \in 1..Len(props) /\ n + 2 # 1 /\ n + 2 - 1 = n + 1
    BY <2>1, <1>3
  <2>2. ASSUME n + 2 <= Len(props) PROVE props[n + 2].depth <= props[n + 1].depth + 1
    <3> PICK i : i = n + 2
      OBVIOUS
    <3>1. i \in 1..Len(props) /\ i # 1 /\ i - 1 = n + 1
      BY <2>1, <2>2
    <3>2. props[i].depth <= props[i - 1].depth + 1
      BY <1>2, <3>1
    <3> QED  BY <3>1, <3>2
  <2> QED  BY <2>2, <1>12
<1>17. Top'.last = 0
  BY <1>5, <1>10 DEF Top
<1>18. DOMAIN c1 = 1..(N + 1) /\ c1 # <<>>
  BY <1>6, <1>10
<1>19. at' - 1 <= Len(props)
  BY <1>2, <1>3
<1> QED
  BY <1>1, <1>3, <1>10, <1>11, <1>14, <1>15, <1>16, <1>17, <1>18, <1>19 DEF DumpInv

\* What Return makes of the lists; the last call is at the end of its own.
NextReturned(props, n, h, h1, c, c1, N) ==
  /\ N > 1
  /\ \A i \in 1..n : props[i].depth \in Nat \ {0}
  /\ c1 \in Seq(Frame) /\ Len(c1) = N - 1
  /\ \A k \in 1..(N - 1) : k # N - 1 => c1[k] = c[k]
  /\ c1[N - 1].head = c[N - 1].head
  /\ c[N].head = 0 => /\ c1[N - 1].last = c[N - 1].last
                      /\ \A e \in 1..n : h1[e].next = h[e].next
  /\ c[N].head # 0 =>
       /\ c1[N - 1].last = IF N - 1 = 1 THEN n ELSE 0
       /\ \A e \in 1..n : h1[e].next = IF e = c[N - 1].last THEN c[N].head ELSE h[e].next

\* An element whose children are listed behind it is itself listed.
LEMMA AncestorKept ==
  ASSUME NEW props, NEW lo \in Nat, NEW l \in Nat, NEW n \in Nat, lo < l, props[l].depth \in Nat,
         \A i \in (l + 1)..n : props[i].depth \in Nat /\ props[l].depth < props[i].depth
  PROVE  l \in Kept(props, lo, l, n)
<1>1. ASSUME NEW j \in (l + 1)..n PROVE ~LosesAt(props, l, j)
  <2>1. l \in l..j
    OBVIOUS
  <2>2. ~(props[l].depth >= props[j].depth)
    OBVIOUS
  <2> QED  BY <2>1, <2>2 DEF LosesAt
<1>2. l \in (lo + 1)..l
  OBVIOUS
<1> QED  BY <1>1, <1>2 DEF Kept, LostBy

\* The list of the call that returns is empty, and the property made last is the one its
\* caller is at; or the property made last is at the end of it.
LEMMA SubList ==
  ASSUME NEW props, NEW n, NEW h, NEW c, NEW N, Lists(props, n, h, c, N), N > 1
  PROVE  /\ c[N - 1].last \in Nat /\ 0 < c[N - 1].last /\ c[N - 1].last <= n
         /\ LinkedIn(h, Kept(props, c[N - 1].last, n, n))
         /\ \/ /\ c[N].head = 0 /\ c[N - 1].last = n
               /\ Kept(props, c[N - 1].last, n, n) = {}
            \/ /\ c[N].head # 0 /\ c[N - 1].last < n
               /\ n \in Kept(props, c[N - 1].last, n, n)
               /\ c[N].head \in Kept(props, c[N - 1].last, n, n)
               /\ \A j \in Kept(props, c[N - 1].last, n, n) : c[N].head <= j
<1>1. n \in Nat /\ c \in Seq(Frame) /\ N = Len(c) /\ N \in Nat /\ Ancestors(c, props, n) /\ N \in 1..Len(c)
  BY DEF Lists
<1> PICK l : l = c[N - 1].last
  OBVIOUS
<1>2. Lo(c, N) = l /\ Hi(c, n, N) = n
  BY <1>1 DEF Lo, Hi
<1>3. l \in Nat /\ l <= n
  BY <1>1, <1>2, LoHi
<1>4. 0 < l
  <2>1. N - 1 \in 1..(Len(c) - 1)
    BY <1>1
  <2>2. 0 < c[N - 1].last
    BY <1>1, <2>1, Zenon DEF Ancestors
  <2> QED  BY <2>2
<1> PICK T : T = Kept(props, l, n, n)
  OBVIOUS
<1>5. IsFirst(c[N].head, T) /\ LinkedIn(h, T)
  <2>1. ListOf(c, h, props, n, N) /\ InList(c, props, n, N) = T
    BY <1>1, <1>2 DEF Lists, InList
  <2> QED  BY <2>1 DEF ListOf
<1>6. /\ \A j \in T : j \in Nat /\ l < j /\ j <= n
      /\ l = n => T = {}
      /\ l < n => n \in T
  BY <1>1, <1>3, KeptRange, LastKept
<1>7. CASE T = {}
  <2>1. c[N].head = 0 /\ l = n
    BY <1>3, <1>5, <1>6, <1>7, <1>1 DEF IsFirst
  <2> QED  BY <2>1, <1>3, <1>4, <1>5, <1>7
<1>8. CASE T # {}
  <2>1. c[N].head \in T /\ \A j \in T : c[N].head <= j
    BY <1>5, <1>8 DEF IsFirst
  <2>2. c[N].head # 0 /\ l < n
    BY <2>1, <1>1, <1>3, <1>6
  <2> QED  BY <2>1, <2>2, <1>3, <1>4, <1>5, <1>6
<1> QED  BY <1>7, <1>8

LEMMA ReturnLists ==
  ASSUME NEW props, NEW n, NEW h, NEW h1, NEW c, NEW c1, NEW N,
         Lists(props, n, h, c, N), NextReturned(props, n, h, h1, c, c1, N)
  PROVE  /\ Ancestors(c1, props, n)
         /\ \A k \in 1..(N - 1) : Descendants(c1, props, n, k) /\ ListOf(c1, h1, props, n, k)
         /\ c1[N - 1].last = EndOf(c1, props, n)
<1>1. /\ n \in Nat /\ c \in Seq(Frame) /\ N = Len(c) /\ N \in Nat \ {0}
      /\ Ancestors(c, props, n)
      /\ \A k \in 1..N : Descendants(c, props, n, k) /\ ListOf(c, h, props, n, k)
  BY DEF Lists
<1>2. N > 1 /\ \A i \in 1..n : props[i].depth \in Nat \ {0}
  BY DEF NextReturned
<1>3. /\ c1 \in Seq(Frame) /\ Len(c1) = N - 1
      /\ \A k \in 1..(N - 1) : k # N - 1 => c1[k] = c[k]
      /\ c1[N - 1].head = c[N - 1].head
  BY DEF NextReturned
<1> PICK M : M = N - 1
  OBVIOUS
<1> PICK l : l = c[M].last
  OBVIOUS
<1> PICK T : T = Kept(props, l, n, n)
  OBVIOUS
<1>4. M \in Nat \ {0} /\ M < N /\ N = M + 1 /\ M \in 1..N /\ M \in 1..M /\ M \in 1..(Len(c) - 1) /\ N # 1
  BY <1>1, <1>2
<1>5. /\ l \in Nat /\ 0 < l /\ l <= n /\ LinkedIn(h, T)
      /\ \/ c[N].head = 0 /\ l = n /\ T = {}
         \/ /\ c[N].head # 0 /\ l < n
            /\ n \in T /\ c[N].head \in T /\ \A j \in T : c[N].head <= j
  <2>1. N - 1 = M /\ c[N - 1].last = l
    OBVIOUS
  <2> QED  BY <2>1, <1>2, SubList
<1> PICK lo : lo = Lo(c, M)
  OBVIOUS
<1>6. /\ Hi(c, n, M) = l /\ Lo(c, N) = l /\ lo \in Nat /\ lo < l
      /\ props[l].depth = M
  <2>1. Hi(c, n, M) = l
    BY <1>1, <1>4 DEF Hi
  <2>2. Lo(c, N) = l
    BY <1>4, Zenon DEF Lo
  <2>3. lo \in Nat /\ lo < l
    BY <2>1, <1>1, <1>4, LoHi
  <2>4. props[l].depth = M
    BY <1>1, <1>4 DEF Ancestors
  <2> QED  BY <2>1, <2>2, <2>3, <2>4
<1>7. /\ \A k \in 1..M : Lo(c1, k) = Lo(c, k)
      /\ \A k \in 1..M : k # M => Hi(c1, n, k) = Hi(c, n, k)
      /\ Hi(c1, n, M) = n
  <2>1. ASSUME NEW k \in 1..M PROVE Lo(c1, k) = Lo(c, k)
    <3>1. k # 1 => k - 1 \in 1..M /\ k - 1 # M
      BY <1>4
    <3> QED  BY <3>1, <1>3 DEF Lo
  <2>2. \A k \in 1..M : k # N
    BY <1>4
  <2> QED  BY <2>1, <2>2, <1>1, <1>3 DEF Hi
<1>8. Ancestors(c1, props, n)
  <2>1. Len(c1) - 1 = M - 1 /\ Len(c) - 1 = M
    BY <1>1, <1>3, <1>4
  <2>2. \A k \in 1..(M - 1) : /\ k \in 1..M /\ c1[k] = c[k]
                              /\ \A j \in 1..(k - 1) : c1[j] = c[j]
    <3>1. \A k \in 1..(M - 1) : k \in 1..M /\ k # M /\ \A j \in 1..(k - 1) : j \in 1..M /\ j # M
      BY <1>4
    <3> QED  BY <3>1, <1>3
  <2> QED  BY <2>1, <2>2, <1>1 DEF Ancestors
<1>9. ASSUME NEW k \in 1..M PROVE Descendants(c1, props, n, k)
  <2>1. Descendants(c, props, n, k)
    BY <1>1, <1>4
  <2> QED  BY <2>1, <1>7 DEF Descendants
<1>10. \A e \in 1..n : e # l => h1[e].next = h[e].next
  BY DEF NextReturned
<1>11. ASSUME NEW k \in 1..M, k # M PROVE ListOf(c1, h1, props, n, k)
  <2>1. ListOf(c, h, props, n, k) /\ c1[k] = c[k] /\ k \in 1..Len(c)
    BY <1>1, <1>3, <1>4, <1>11
  <2>2. InList(c1, props, n, k) = InList(c, props, n, k)
    BY <1>7, <1>11 DEF InList
  <2>3. Lo(c, k) \in Nat /\ Hi(c, n, k) \in Nat /\ Hi(c, n, k) <= n /\ Hi(c, n, k) < l
    <3>1. Hi(c, n, k) = c[k].last /\ k \in 1..(M - 1)
      BY <1>1, <1>4, <1>11 DEF Hi
    <3>2. c[k].last < c[M].last
      BY <3>1, <1>1, <1>4 DEF Ancestors
    <3> QED  BY <3>1, <3>2, <2>1, <1>1, LoHi
  <2>4. \A i \in InList(c, props, n, k) : h1[i].next = h[i].next
    <3>1. \A i \in InList(c, props, n, k) : i \in Nat /\ Lo(c, k) < i /\ i <= Hi(c, n, k)
      BY <2>3, KeptRange DEF InList
    <3>2. \A i \in InList(c, props, n, k) : i \in 1..n /\ i # l
      BY <3>1, <2>3, <1>5, <1>1
    <3> QED  BY <3>2, <1>10
  <2> QED  BY <2>1, <2>2, <2>4, LinkedSame DEF ListOf
<1> PICK S : S = Kept(props, lo, l, n)
  OBVIOUS
<1>12. IsFirst(c[M].head, S) /\ LinkedIn(h, S)
  <2>1. ListOf(c, h, props, n, M) /\ InList(c, props, n, M) = S
    BY <1>1, <1>4, <1>6 DEF InList
  <2> QED  BY <2>1 DEF ListOf
<1>13. InList(c1, props, n, M) = S \cup T
  <2>1. InList(c1, props, n, M) = Kept(props, lo, n, n)
    BY <1>7, <1>4 DEF InList
  <2>2. Kept(props, lo, n, n) = Kept(props, lo, l, n) \cup Kept(props, l, n, n)
    <3>1. n \in Nat /\ lo \in Nat /\ l \in Nat /\ lo <= l /\ l <= n
      BY <1>1, <1>5, <1>6
    <3> QED  BY ONLY <3>1, KeptJoin
  <2> QED  BY <2>1, <2>2
<1>14. /\ S \in SUBSET Nat /\ T \in SUBSET Nat
       /\ \A i \in S : 0 < i /\ i <= l
       /\ \A j \in T : j \in Nat /\ l < j /\ j <= n
  BY <1>1, <1>5, <1>6, KeptRange
<1>15. \A i \in (l + 1)..n : props[i].depth \in Nat /\ props[i].depth >= N
  <2>1. \A i \in (l + 1)..n : i \in 1..n
    BY <1>5
  <2>2. Descendants(c, props, n, N)
    BY <1>1
  <2> QED  BY <2>1, <2>2, <1>2, <1>6 DEF Descendants
<1>16. l \in S
  <2>1. \A i \in (l + 1)..n : props[i].depth \in Nat /\ props[l].depth < props[i].depth
    BY <1>4, <1>6, <1>15
  <2>2. n \in Nat /\ lo \in Nat /\ l \in Nat /\ lo < l /\ props[l].depth \in Nat
    BY <1>1, <1>4, <1>5, <1>6
  <2> QED  BY <2>1, <2>2, AncestorKept
<1>17. CASE c[N].head = 0
  <2>1. l = n /\ T = {} /\ c1[M].last = l /\ \A e \in 1..n : h1[e].next = h[e].next
    BY <1>5, <1>17 DEF NextReturned
  <2>2. InList(c1, props, n, M) = S
    BY <2>1, <1>13
  <2>3. \A i \in S : h1[i].next = h[i].next
    <3>1. \A i \in S : i \in 1..n
      BY <1>14, <2>1
    <3> QED  BY <3>1, <2>1
  <2>4. ListOf(c1, h1, props, n, M)
    BY <2>2, <2>3, <1>3, <1>12, LinkedSame DEF ListOf
  <2>5. c1[M].last = EndOf(c1, props, n)
    BY <2>1, <1>3, <1>4, <1>6, <1>7 DEF EndOf
  <2> QED  BY <2>4, <2>5, <1>8, <1>9, <1>11
<1>18. CASE c[N].head # 0
  <2> PICK b : b = c[N].head
    OBVIOUS
  <2>1. /\ l < n /\ b \in T /\ b # 0 /\ \A j \in T : b <= j /\ l < j
        /\ c1[M].last = IF M = 1 THEN n ELSE 0
        /\ \A e \in 1..n : h1[e].next = IF e = l THEN b ELSE h[e].next
    BY <1>5, <1>14, <1>18 DEF NextReturned
  <2>2. h1[l].next = b
    <3>1. l \in 1..n
      BY <1>5
    <3> QED  BY <3>1, <2>1
  <2>3. \A i \in (S \cup T) \ {l} : h1[i].next = h[i].next
    <3>1. \A i \in S \cup T : i \in 1..n
      BY <1>14, <1>5, <1>1
    <3> QED  BY <3>1, <2>1
  <2>4. LinkedIn(h1, S \cup T)
    BY <2>1, <2>2, <2>3, <1>5, <1>12, <1>14, <1>16, LinkedJoin
  <2>5. IsFirst(c[M].head, S \cup T)
    BY <1>12, <1>14, <1>16, FirstJoin
  <2>6. ListOf(c1, h1, props, n, M)
    BY <2>4, <2>5, <1>3, <1>13 DEF ListOf
  <2>7. c1[M].last = EndOf(c1, props, n)
    <3>1. n \in (l + 1)..n
      BY <2>1, <1>1, <1>5
    <3>2. props[n].depth # M
      BY <3>1, <1>15, <1>4
    <3>3. Len(c1) = M /\ Lo(c1, M) = lo /\ lo < n
      BY <1>1, <1>3, <1>4, <1>5, <1>6, <1>7
    <3> QED  BY <3>2, <3>3, <2>1 DEF EndOf
  <2> QED  BY <2>6, <2>7, <1>8, <1>9, <1>11
<1> QED  BY <1>17, <1>18

WithEnd(s, M, end) == [s EXCEPT ![M].last = end]

LEMMA FrameEnd ==
  ASSUME NEW s \in Seq(Frame), NEW M \in 1..Len(s), NEW end \in Nat
  PROVE  /\ WithEnd(s, M, end) \in Seq(Frame) /\ Len(WithEnd(s, M, end)) = Len(s)
         /\ \A k \in 1..Len(s) : k # M => WithEnd(s, M, end)[k] = s[k]
         /\ WithEnd(s, M, end)[M].head = s[M].head /\ WithEnd(s, M, end)[M].last = end
<1>1. PICK call : call = [s[M] EXCEPT !.last = end]
  OBVIOUS
<1>2. s[M] \in Frame
  BY ElementOfSeq
<1>3. call \in Frame /\ call.head = s[M].head /\ call.last = end
  BY <1>1, <1>2 DEF Frame
<1>4. WithEnd(s, M, end) = [s EXCEPT ![M] = call]
  BY <1>1 DEF WithEnd
<1>5. WithEnd(s, M, end) \in Seq(Frame) /\ Len(WithEnd(s, M, end)) = Len(s)
      /\ \A k \in 1..Len(s) : WithEnd(s, M, end)[k] = IF k = M THEN call ELSE s[k]
  BY <1>3, <1>4, ExceptSeq
<1> QED  BY <1>3, <1>5

LEMMA FramesBefore ==
  ASSUME NEW c \in Seq(Frame), NEW M \in Nat \ {0}, M < Len(c)
  PROVE  /\ SubSeq(c, 1, M) \in Seq(Frame) /\ Len(SubSeq(c, 1, M)) = M
         /\ \A k \in 1..M : SubSeq(c, 1, M)[k] = c[k]
         /\ M \in 1..Len(SubSeq(c, 1, M)) /\ M \in 1..M
<1>1. 1 \in 1..Len(c) + 1 /\ M \in 0..Len(c) /\ M \in 1..M
  OBVIOUS
<1> QED  BY <1>1, SubSeqProperties

LEMMA ReturnList == ShownInv /\ DumpInv /\ Return => DumpInv'
<1> SUFFICES ASSUME ShownInv, DumpInv, Return PROVE DumpInv'
  OBVIOUS
<1> PICK props : props = Props
  OBVIOUS
<1>1. Props' = props /\ at' = at
  BY DEF Return, Props
<1>2. /\ props \in Seq(Property) /\ Len(props) \in Nat
      /\ \A i \in 1..Len(props) : props[i].depth \in Nat \ {0}
  BY PropsTree DEF Return, Returns
<1> PICK n : n = at - 1
  OBVIOUS
<1> PICK c : c = calls
  OBVIOUS
<1> PICK c1 : c1 = calls'
  OBVIOUS
<1> PICK h : h = heap
  OBVIOUS
<1> PICK h1 : h1 = heap'
  OBVIOUS
<1> PICK N : N = Len(c)
  OBVIOUS
<1> PICK M : M = N - 1
  OBVIOUS
<1>3. n \in Nat /\ at = n + 1 /\ n <= Len(props) /\ Len(h) = n /\ DOMAIN h = 1..n
  <2>1. at \in Nat \ {0} /\ Len(heap) = at - 1 /\ DOMAIN heap = 1..Len(heap) /\ at - 1 <= Len(props)
    BY DEF ShownInv, PacketInv, OrderInv, HeapInv, DumpInv
  <2> QED  BY <2>1
<1>4. c \in Seq(Frame) /\ N \in Nat /\ N > 1 /\ M \in Nat \ {0} /\ M < N /\ M = Len(calls) - 1
  <2>1. c \in Seq(Frame) /\ N > 1
    BY DEF DumpInv, Return
  <2> QED  BY <2>1
<1>5. Lists(props, n, h, c, N)
  <2>1. DOMAIN c = 1..N
    BY <1>4
  <2> QED  BY <1>3, <1>4, <2>1 DEF DumpInv, Lists, Top
<1>6. Top.head = c[N].head /\ Top.head \in Nat
  <2>1. N \in 1..Len(c)
    BY <1>4
  <2>2. c[N] \in Frame
    BY <1>4, <2>1, ElementOfSeq
  <2> QED  BY <2>2 DEF Top, Frame
<1>7. /\ c[M].last \in Nat /\ LinkedIn(h, Kept(props, c[M].last, n, n))
      /\ c[N].head # 0 => /\ n \in Kept(props, c[M].last, n, n)
                          /\ c[N].head \in Kept(props, c[M].last, n, n)
  BY <1>4, <1>5, SubList
<1>8. ASSUME c[N].head # 0 PROVE EndAfterSub(M, c[N].head) = IF M = 1 THEN n ELSE 0
  <2> PICK T : T = Kept(props, c[M].last, n, n)
    OBVIOUS
  <2>1. \A j \in T : j \in Nat /\ 0 < j /\ j <= n
    BY <1>3, <1>7, KeptRange
  <2>2. T \subseteq DOMAIN heap /\ \A j \in T : j <= n
    BY <2>1, <1>3
  <2>3. Forward(heap)
    BY HeapForward DEF ShownInv, OrderInv
  <2>4. LastOf(c[N].head) = n
    BY <1>7, <1>8, <2>2, <2>3, LastOfList
  <2> QED  BY <2>4 DEF EndAfterSub
<1>9. /\ c1 \in Seq(Frame) /\ Len(c1) = M
      /\ \A k \in 1..M : k # M => c1[k] = c[k]
      /\ c1[M].head = c[M].head
      /\ c[N].head = 0 => c1[M].last = c[M].last
      /\ c[N].head # 0 => c1[M].last = IF M = 1 THEN n ELSE 0
  <2>1. CASE c[N].head = 0
    <3>1. c1 = SubSeq(c, 1, M)
      BY <2>1, <1>4, <1>6 DEF Return
    <3> QED  BY <2>1, <3>1, <1>4, FramesBefore
  <2>2. CASE c[N].head # 0
    <3> PICK end : end = IF M = 1 THEN n ELSE 0
      OBVIOUS
    <3>1. c1 = [SubSeq(c, 1, M) EXCEPT ![M].last = EndAfterSub(M, Top.head)]
      BY <2>2, <1>4, <1>6 DEF Return
    <3>2. EndAfterSub(M, Top.head) = end
      BY <2>2, <1>6, <1>8
    <3> PICK rest : rest = SubSeq(c, 1, M)
      OBVIOUS
    <3>3. c1 = WithEnd(rest, M, end)
      BY <3>1, <3>2, Zenon DEF WithEnd
    <3>4. M < Len(c) /\ end \in Nat
      BY <1>3, <1>4
    <3>5. rest \in Seq(Frame) /\ Len(rest) = M /\ (\A k \in 1..M : rest[k] = c[k])
          /\ M \in 1..Len(rest) /\ M \in 1..M
      BY <3>4, <1>4, FramesBefore
    <3>6. /\ c1 \in Seq(Frame) /\ Len(c1) = Len(rest)
          /\ \A k \in 1..Len(rest) : k # M => c1[k] = rest[k]
          /\ c1[M].head = rest[M].head /\ c1[M].last = end
      BY ONLY <3>3, <3>4, <3>5, FrameEnd
    <3> QED  BY <2>2, <3>5, <3>6
  <2> QED  BY <2>1, <2>2
<1>10. /\ Len(h1) = n /\ DOMAIN h1 = 1..n
       /\ \A e \in 1..n : h1[e].prop = h[e].prop
       /\ c[N].head = 0 => \A e \in 1..n : h1[e].next = h[e].next
       /\ c[N].head # 0 => \A e \in 1..n : h1[e].next = IF e = c[M].last THEN c[N].head ELSE h[e].next
  <2>1. CASE c[N].head = 0
    <3>1. h1 = h
      BY <2>1, <1>6 DEF Return
    <3> QED  BY <2>1, <3>1, <1>3
  <2>2. CASE c[N].head # 0
    <3>1. h1 = Linked(c[M].last, Top.head)
      BY <2>2, <1>4, <1>6 DEF Return
    <3>2. HeapInv
      BY DEF ShownInv, OrderInv
    <3>3. /\ Len(h1) = Len(heap) /\ DOMAIN h1 = DOMAIN heap
          /\ \A e \in DOMAIN heap :
               /\ h1[e].prop = heap[e].prop
               /\ h1[e].next = IF e = c[M].last THEN Top.head ELSE heap[e].next
      BY <3>1, <3>2, <1>6, LinkedElement
    <3>4. Len(heap) = n /\ DOMAIN heap = 1..n
      BY <1>3
    <3> QED  BY <2>2, <3>3, <3>4, <1>6
  <2> QED  BY <2>1, <2>2
<1>11. NextReturned(props, n, h, h1, c, c1, N)
  <2>1. \A i \in 1..n : props[i].depth \in Nat \ {0}
    BY <1>2, <1>3
  <2> QED  BY <2>1, <1>4, <1>9, <1>10 DEF NextReturned
<1>12. /\ Ancestors(c1, props, n)
       /\ \A k \in 1..M : Descendants(c1, props, n, k) /\ ListOf(c1, h1, props, n, k)
       /\ c1[M].last = EndOf(c1, props, n)
  BY <1>5, <1>11, ReturnLists
<1>13. \A e \in DOMAIN h1 : h1[e].prop = e
  BY <1>3, <1>10 DEF DumpInv
<1>14. n + 1 <= Len(props) => props[n + 1].depth <= M
  <2>1. ASSUME n + 1 <= Len(props) PROVE props[n + 1].depth \in Nat
    <3>1. n + 1 \in 1..Len(props)
      BY <2>1, <1>3
    <3> QED  BY <3>1, <1>2
  <2>2. n + 1 <= Len(props) => props[n + 1].depth <= N /\ props[n + 1].depth # N
    BY <1>3 DEF DumpInv, Return, Returns, HasMorePaths
  <2> QED  BY <2>1, <2>2, <1>4
<1>15. DOMAIN c1 = 1..M /\ c1 # <<>> /\ Top'.last = c1[M].last
  BY <1>4, <1>9 DEF Top
<1> QED
  BY <1>1, <1>3, <1>9, <1>10, <1>12, <1>13, <1>14, <1>15 DEF DumpInv

LEMMA FileLen == PacketInv => Len(file) \in Nat /\ DOMAIN file = 1..Len(file)
  BY DEF PacketInv

\* All properties of the packet are made.
LEMMA EndDumpList == ShownInv /\ DumpInv /\ EndDump /\ from' # 0 => TaggedInv'
<1> SUFFICES ASSUME ShownInv, DumpInv, EndDump, from' # 0 PROVE TaggedInv'
  OBVIOUS
<1> PICK props : props = Props
  OBVIOUS
<1>1. Len(calls) = 1 /\ from' = Top.head /\ UNCHANGED <<file, at, heap, rows>> /\ pc = "dump" /\ pc' = "tagged"
      /\ snip' = snip
  BY DEF EndDump, Returns
<1>2. Props' = props
  BY <1>1 DEF Props
<1>3. /\ props \in Seq(Property) /\ Len(props) \in Nat
      /\ \A i \in 1..Len(props) : props[i].depth \in Nat \ {0}
  BY <1>1, PropsTree
<1> PICK n : n = at - 1
  OBVIOUS
<1>4. n \in Nat /\ at = n + 1 /\ n <= Len(props) /\ Len(heap) = n
  BY DEF ShownInv, PacketInv, DumpInv
<1>5. n = Len(props)
  <2>1. ASSUME at <= Len(props) PROVE FALSE
    <3>1. at \in 1..Len(props)
      BY <2>1, <1>3, <1>4
    <3>2. props[at].depth \in Nat \ {0}
      BY <3>1, <1>3
    <3>3. props[at].depth <= 1 /\ props[at].depth # 1
      BY <2>1, <1>1 DEF DumpInv, EndDump, Returns, HasMorePaths
    <3> QED  BY <3>2, <3>3
  <2> QED  BY <2>1, <1>3, <1>4
<1> PICK S : S = Kept(props, 0, n, n)
  OBVIOUS
<1>6. IsFirst(Top.head, S) /\ LinkedIn(heap, S)
  <2>1. calls \in Seq(Frame) /\ 1 \in DOMAIN calls
    BY <1>1 DEF DumpInv
  <2>2. ListOf(calls, heap, props, n, 1)
    BY <2>1 DEF DumpInv
  <2>3. InList(calls, props, n, 1) = S
    BY <1>1 DEF InList, Lo, Hi
  <2>4. Top = calls[1]
    BY <1>1 DEF Top
  <2> QED  BY <2>2, <2>3, <2>4 DEF ListOf
<1>7. All' = S
  BY <1>2, <1>5 DEF All
<1>8. from' \in S /\ \A j \in S : from' <= j
  BY <1>1, <1>6 DEF IsFirst
<1>9. {rows'[i] : i \in DOMAIN rows'} = {i \in S : i < from' /\ Tag(props[i]) # 0}
  <2>1. rows' = <<>>
    BY <1>1 DEF ShownInv, OrderInv, RowsInv
  <2>2. \A i \in S : i \in Nat
    BY <1>4, KeptRange
  <2>3. \A i \in S : ~(i < from')
    BY <1>8, <2>2
  <2> QED  BY <2>1, <2>3
<1>10. Len(heap') = Len(Props') /\ \A e \in DOMAIN heap' : heap'[e].prop = e
  BY <1>1, <1>2, <1>4, <1>5 DEF DumpInv
<1> QED  BY <1>1, <1>2, <1>6, <1>7, <1>8, <1>9, <1>10 DEF TaggedInv

\* The loop comes to the next element.
LEMMA CopyList ==
  ASSUME ShownInv, TaggedInv, Copy
  PROVE  /\ heap[from].next \in All
         /\ {rows'[i] : i \in DOMAIN rows'} = {i \in All : i < from' /\ Tag(Props[i]) # 0}
         /\ heap[from'].next = 0 => {rows'[i] : i \in DOMAIN rows'} = Shown(Props)
<1> PICK props : props = Props
  OBVIOUS
<1> PICK e : e = heap[from].next
  OBVIOUS
<1> PICK S : S = All
  OBVIOUS
<1>1. props \in Seq(Property) /\ Len(props) \in Nat
  BY PropsTree DEF Copy
<1>2. S = Kept(props, 0, Len(props), Len(props)) /\ \A i \in S : i \in Nat /\ 0 < i /\ i <= Len(props)
  BY <1>1, KeptRange DEF All
<1>3. from \in S /\ LinkedIn(heap, S) /\ e # 0 /\ from' = e
  BY DEF TaggedInv, Copy
<1>4. e \in S /\ from < e /\ \A j \in S : j <= from \/ e <= j
  BY <1>3 DEF LinkedIn, Follows
<1>5. rows' = IF Tag(props[from]) = 0 THEN rows ELSE Append(rows, from)
  <2>1. from \in DOMAIN heap
    BY DEF ShownInv, OrderInv, RowsInv, Copy
  <2>2. heap[from].prop = from
    BY <2>1 DEF TaggedInv
  <2> QED  BY <2>2 DEF Copy, WithTagged
<1>6. rows \in Seq(Nat \ {0})
  BY DEF ShownInv, OrderInv, RowsInv
<1> PICK R : R = {rows[i] : i \in DOMAIN rows}
  OBVIOUS
<1>7. R = {i \in S : i < from /\ Tag(props[i]) # 0}
  BY DEF TaggedInv
<1>8. {rows'[i] : i \in DOMAIN rows'} = IF Tag(props[from]) = 0 THEN R ELSE R \cup {from}
  <2>1. CASE Tag(props[from]) = 0
    BY <2>1, <1>5
  <2>2. CASE Tag(props[from]) # 0
    <3>1. rows' = Append(rows, from) /\ from \in Nat \ {0}
      BY <2>2, <1>2, <1>3, <1>5
    <3>2. /\ DOMAIN rows = 1..Len(rows) /\ DOMAIN rows' = 1..(Len(rows) + 1) /\ Len(rows) \in Nat
          /\ \A i \in 1..Len(rows) : rows'[i] = rows[i]
          /\ rows'[Len(rows) + 1] = from
      BY <3>1, <1>6, AppendProperties
    <3>3. \A i : i \in DOMAIN rows' <=> i \in DOMAIN rows \/ i = Len(rows) + 1
      BY <3>2
    <3>4. {rows'[i] : i \in DOMAIN rows'} = R \cup {from}
      BY <3>2, <3>3
    <3> QED  BY <2>2, <3>4
  <2> QED  BY <2>1, <2>2
<1>9. {rows'[i] : i \in DOMAIN rows'} = {i \in S : i < e /\ Tag(props[i]) # 0}
  <2>1. \A i \in S : i < e <=> i < from \/ i = from
    BY <1>2, <1>3, <1>4
  <2> QED  BY <2>1, <1>3, <1>7, <1>8
<1>10. ASSUME heap[e].next = 0 PROVE {i \in S : i < e /\ Tag(props[i]) # 0} = Shown(props)
  <2>1. Len(props) \in S
    <3>1. 0 < Len(props)
      BY <1>1, <1>2, <1>3
    <3> QED  BY <3>1, <1>1, <1>2, LastKept
  <2>2. e = Len(props)
    <3>1. Len(props) <= e
      BY <1>3, <1>4, <1>10, <2>1 DEF LinkedIn, Follows
    <3> QED  BY <3>1, <1>1, <1>2, <1>4
  <2>3. \A i : i \in S <=> i \in 1..Len(props) /\ ~LostBy(props, i, Len(props))
    BY <1>2 DEF Kept
  <2>4. \A i : LostBy(props, i, Len(props)) <=> Lost(props, i)
    BY DEF LostBy, LosesAt, Lost
  <2>5. \A i : i \in 1..Len(props) /\ i < Len(props) <=> i \in 1..(Len(props) - 1)
    BY <1>1
  <2> QED  BY <2>2, <2>3, <2>4, <2>5 DEF Shown
<1> QED  BY <1>3, <1>4, <1>9, <1>10

LEMMA ListInit == Init => ListInv
<1> SUFFICES ASSUME Init PROVE ListInv
  OBVIOUS
<1>1. file \in Seq(Snip) /\ file \in Files
  BY FilesAssumption DEF Init
<1>2. Len(file) \in Nat
  BY <1>1
<1>3. BoundsInv
  BY <1>2 DEF Init, BoundsInv, Null
<1> QED  BY <1>1, <1>3 DEF Init, ListInv

\* The steps by which no packet is listed and no result is made.
LEMMA NothingListed ==
  ASSUME ShownInv, BoundsInv', file' = file, pc' \notin {"dump", "tagged"}, calls' = <<>>,
         result' \in {result, Null}
  PROVE  ListInv'
  BY DEF ShownInv, ListInv

\* No step leaves the bounds.
LEMMA BoundsKept == ShownInv /\ [Next]_vars /\ OrderInv' => BoundsInv'
<1> SUFFICES ASSUME ShownInv, [Next]_vars, OrderInv' PROVE BoundsInv'
  OBVIOUS
<1>1. /\ BoundsInv /\ Len(file) \in Nat /\ DOMAIN file = 1..Len(file) /\ snip \in Nat \ {0}
      /\ pc \in {"dump", "tagged"} => snip \in 1..Len(file)
  BY FileLen DEF ShownInv, ListInv, PacketInv, AtPacket
<1>2. Null \in [of : 0..Len(file), rows : Seq(Nat \ {0})]
  BY <1>1 DEF Null
<1>3. Len(heap) \in Nat /\ Len(heap') \in Nat /\ HeapInv /\ HeapInv'
  BY DEF ShownInv, OrderInv, HeapInv
<1>4. CASE NoPackets
  BY <1>1, <1>4 DEF NoPackets, BoundsInv
<1>5. CASE NotAPacket
  BY <1>1, <1>5 DEF NotAPacket, MoreSnips, BoundsInv
<1>6. CASE NotParsed
  BY <1>1, <1>2, <1>6 DEF NotParsed, MoreSnips, BoundsInv, NoMetaXAP
<1>7. CASE BeginDump
  BY <1>1, <1>7 DEF BeginDump, MoreSnips, BoundsInv, NewPointer
<1>8. CASE AllSnips
  BY <1>1, <1>8 DEF AllSnips, BoundsInv
<1>9. CASE Visit
  <2>1. Len(heap') = Len(heap) + 1
    BY <1>3, <1>9, VisitHeap
  <2> QED  BY <1>1, <1>3, <1>9, <2>1 DEF Visit, BoundsInv
<1>10. CASE Throw
  BY <1>1, <1>10 DEF Throw, BoundsInv
<1>11. CASE Return
  <2>1. Len(heap') = Len(heap)
    <3>1. CASE heap' = heap
      BY <3>1
    <3>2. CASE Top.head # 0 /\ heap' = Linked(calls[Len(calls) - 1].last, Top.head)
      <4>1. Top.head \in Nat
        <5>1. calls \in Seq(Frame) /\ Len(calls) \in 1..Len(calls)
          BY <1>11 DEF ShownInv, ListInv, DumpInv, Return, Returns
        <5>2. Top \in Frame
          BY <5>1, ElementOfSeq DEF Top
        <5> QED  BY <5>2 DEF Frame
      <4> QED  BY <3>2, <4>1, <1>3, LinkedElement
    <3> QED  BY <1>11, <3>1, <3>2 DEF Return
  <2> QED  BY <1>1, <1>11, <2>1 DEF Return, Returns, BoundsInv
<1>12. CASE EndDump
  <2>1. Top.head \in 0..Len(heap)
    <3>1. calls \in Seq(Frame) /\ Len(calls) = 1 /\ 1 \in DOMAIN calls
      BY <1>12 DEF ShownInv, ListInv, DumpInv, EndDump, Returns
    <3>2. calls[1] \in Frame
      BY <3>1, ElementOfSeq
    <3>3. calls[1].head <= Len(heap)
      BY <3>1 DEF ShownInv, OrderInv, CallsInv
    <3> QED  BY <3>1, <3>2, <3>3, <1>3 DEF Top, Frame
  <2>2. file' = file /\ heap' = heap /\ from' = Top.head /\ snip' \in {snip, snip + 1}
        /\ pc' \in {"snips", "tagged"} /\ result' \in {result, Null} /\ pc = "dump"
    BY <1>12 DEF EndDump, Returns
  <2> QED  BY <1>1, <1>2, <2>1, <2>2 DEF BoundsInv
<1>13. CASE Copy
  <2>1. from' \in 0..Len(heap)
    <3>1. heap[from].next \in All
      BY <1>13, CopyList DEF ShownInv, ListInv, Copy
    <3>2. Len(Props) \in Nat /\ Len(heap) = Len(Props)
      BY <1>13, PropsTree DEF ShownInv, ListInv, TaggedInv, Copy
    <3>3. heap[from].next \in 0..Len(heap)
      BY <3>1, <3>2, KeptRange DEF All
    <3> QED  BY <3>3, <1>13 DEF Copy
  <2>2. rows' \in Seq(Nat \ {0})
    BY DEF OrderInv, RowsInv
  <2>3. file' = file /\ heap' = heap /\ snip' \in {snip, snip + 1} /\ pc' \in {"snips", "tagged"} /\ pc = "tagged"
        /\ result' \in {result, Null, [of |-> snip, rows |-> rows']}
    BY <1>13 DEF Copy
  <2>4. [of |-> snip, rows |-> rows'] \in [of : 0..Len(file), rows : Seq(Nat \ {0})]
    BY <1>1, <2>2, <2>3
  <2>5. result' \in [of : 0..Len(file), rows : Seq(Nat \ {0})]
    BY <1>1, <1>2, <2>3, <2>4, Zenon DEF BoundsInv
  <2>6. snip' <= Len(file) + 1
    BY <1>1, <2>3
  <2> QED  BY <2>1, <2>3, <2>5, <2>6 DEF BoundsInv
<1>14. CASE OnlyElement
  BY <1>1, <1>14 DEF OnlyElement, BoundsInv
<1>15. CASE NoResult \/ PrintRows
  BY <1>1, <1>15 DEF NoResult, PrintRows, BoundsInv
<1>16. CASE Stopped \/ UNCHANGED vars
  BY <1>1, <1>16 DEF Stopped, vars, BoundsInv
<1> QED
  BY <1>4, <1>5, <1>6, <1>7, <1>8, <1>9, <1>10, <1>11, <1>12, <1>13, <1>14, <1>15, <1>16 DEF Next

LEMMA ListStep == ShownInv /\ [Next]_vars /\ OrderInv' => ListInv'
<1> SUFFICES ASSUME ShownInv, [Next]_vars, OrderInv' PROVE ListInv'
  OBVIOUS
<1>1. BoundsInv' /\ ListInv
  BY BoundsKept DEF ShownInv
<1>2. CASE NoPackets \/ AllSnips \/ NoResult \/ PrintRows
  BY <1>1, <1>2, NothingListed DEF NoPackets, AllSnips, NoResult, PrintRows, ListInv
<1>3. CASE NotAPacket
  BY <1>1, <1>3, NothingListed DEF NotAPacket, MoreSnips, ListInv
<1>4. CASE NotParsed
  BY <1>1, <1>4, NothingListed DEF NotParsed, MoreSnips, NoMetaXAP, ListInv
<1>5. CASE Throw
  BY <1>1, <1>5, NothingListed DEF Throw
<1>6. CASE OnlyElement
  BY <1>1, <1>6, NothingListed DEF OnlyElement, ListInv
<1>7. CASE BeginDump
  BY <1>1, <1>7, BeginDumpList DEF BeginDump, ListInv
<1>8. CASE Visit
  BY <1>1, <1>8, VisitList DEF Visit, ListInv
<1>9. CASE Return
  BY <1>1, <1>9, ReturnList DEF Return, Returns, ListInv
<1>10. CASE EndDump
  <2>1. CASE Top.head = 0
    BY <1>1, <1>10, <2>1, NothingListed DEF EndDump
  <2>2. CASE Top.head # 0
    <3>1. TaggedInv'
      BY <1>1, <1>10, <2>2, EndDumpList DEF EndDump, Returns, ListInv
    <3> QED  BY <1>1, <1>10, <2>2, <3>1 DEF EndDump, ListInv
  <2> QED  BY <2>1, <2>2
<1>11. CASE Copy
  <2>1. /\ heap[from].next \in All
        /\ {rows'[i] : i \in DOMAIN rows'} = {i \in All : i < from' /\ Tag(Props[i]) # 0}
        /\ heap[from'].next = 0 => {rows'[i] : i \in DOMAIN rows'} = Shown(Props)
    BY <1>1, <1>11, CopyList DEF Copy, ListInv
  <2>2. UNCHANGED <<file, heap, calls>> /\ from' = heap[from].next /\ pc = "tagged" /\ calls = <<>>
    BY <1>1, <1>11 DEF Copy, ListInv
  <2>3. CASE heap[from'].next = 0
    <3>1. pc' = "snips" /\ (result' = Null \/ result' = [of |-> snip, rows |-> rows'])
      BY <1>11, <2>3 DEF Copy
    <3>2. result' # Null => {result'.rows[i] : i \in DOMAIN result'.rows} = Shown(file[result'.of].props)
      BY <2>1, <2>3, <3>1 DEF Props
    <3> QED  BY <1>1, <2>2, <3>1, <3>2 DEF ListInv
  <2>4. CASE heap[from'].next # 0
    <3>1. UNCHANGED <<pc, snip, result>>
      BY <1>11, <2>4 DEF Copy
    <3>2. Props' = Props /\ All' = All
      BY <2>2, <3>1 DEF Props, All
    <3>3. {rows'[i] : i \in DOMAIN rows'} = {i \in All' : i < from' /\ Tag(Props'[i]) # 0}
      BY <2>1, <3>2
    <3>4. TaggedInv'
      BY <1>1, <2>1, <2>2, <3>2, <3>3 DEF TaggedInv, ListInv
    <3> QED  BY <1>1, <2>2, <3>1, <3>4 DEF ListInv
  <2> QED  BY <2>3, <2>4
<1>12. CASE Stopped \/ UNCHANGED vars
  <2>1. UNCHANGED vars
    BY <1>12 DEF Stopped
  <2>2. DumpInv' <=> DumpInv
    BY <2>1 DEF vars, DumpInv, Props, Top
  <2>3. TaggedInv' <=> TaggedInv
    BY <2>1 DEF vars, TaggedInv, All, Props
  <2> QED  BY <1>1, <2>1, <2>2, <2>3 DEF vars, ListInv
<1> QED
  BY <1>2, <1>3, <1>4, <1>5, <1>6, <1>7, <1>8, <1>9, <1>10, <1>11, <1>12 DEF Next

LEMMA ShownInit == Init => ShownInv
  BY PacketInit, OrderInit, ListInit DEF ShownInv

LEMMA ShownStep == ShownInv /\ [Next]_vars => ShownInv'
<1> SUFFICES ASSUME ShownInv, [Next]_vars PROVE ShownInv'
  OBVIOUS
<1>1. PacketInv' /\ OrderInv'
  BY PacketStep, OrderStep DEF ShownInv
<1> QED  BY <1>1, ListStep DEF ShownInv

\* The rows of a result are the tagged properties of its packet in document order, each
\* once, but those that DumpSubtree loses and the last one of the packet, however deep the
\* packet is (FancyDumpMetaXAP, DumpSubtree, xmp_display).
THEOREM RowsCorrect == Spec => []RowsAsShown
<1>1. ShownInv => RowsAsShown
  BY DEF ShownInv, OrderInv, RowsInv, ListInv, RowsAsShown
<1> QED  BY <1>1, ShownInit, ShownStep, PTL DEF Spec

LEMMA SeqInto ==
  ASSUME NEW T, NEW S, NEW s \in Seq(T), \A k \in 1..Len(s) : s[k] \in S
  PROVE  s \in Seq(S)
<1>1. Len(s) \in Nat /\ s \in [1..Len(s) -> S]
  OBVIOUS
<1>2. \A n \in Nat : [1..n -> S] \subseteq Seq(S)
  OBVIOUS
<1> QED  BY <1>1, <1>2, Zenon

\* The ends of the lists are elements, so the pointers of the calls are.
LEMMA CallsType == ShownInv => calls \in Seq([head : 0..Len(heap), last : 0..Len(heap)])
<1> SUFFICES ASSUME ShownInv PROVE calls \in Seq([head : 0..Len(heap), last : 0..Len(heap)])
  OBVIOUS
<1>1. CASE calls = <<>>
  BY <1>1
<1>2. CASE calls # <<>>
  <2>1. pc = "dump" /\ DumpInv /\ calls \in Seq(Frame)
    BY <1>2 DEF ShownInv, ListInv, DumpInv
  <2> PICK N : N = Len(calls)
    OBVIOUS
  <2> PICK n : n = at - 1
    OBVIOUS
  <2>2. n \in Nat /\ Len(heap) = n /\ N \in Nat \ {0} /\ DOMAIN calls = 1..N
    BY <1>2, <2>1 DEF ShownInv, PacketInv, DumpInv
  <2>3. ASSUME NEW k \in 1..N PROVE calls[k] \in [head : 0..n, last : 0..n]
    <3>1. calls[k] \in Frame
      BY <2>1, <2>2, <2>3, ElementOfSeq
    <3>2. calls[k].head <= n
      BY <2>2, <2>3 DEF ShownInv, OrderInv, CallsInv
    <3>3. calls[k].last <= n
      <4>1. CASE k = N
        <5>1. calls[k].last = EndOf(calls, Props, n)
          BY <2>1, <4>1 DEF DumpInv, Top
        <5> QED  BY <5>1, <2>2 DEF EndOf
      <4>2. CASE k # N
        <5>1. k \in 1..(Len(calls) - 1)
          BY <4>2, <2>2
        <5> QED  BY <5>1, <2>1 DEF DumpInv, Ancestors
      <4> QED  BY <4>1, <4>2
    <3> QED  BY <3>1, <3>2, <3>3, <2>2 DEF Frame
  <2>4. \A k \in 1..Len(calls) : calls[k] \in [head : 0..Len(heap), last : 0..Len(heap)]
    BY <2>2, <2>3
  <2> QED  BY <2>1, <2>4, SeqInto
<1> QED  BY <1>1, <1>2

LEMMA HeapType == HeapInv => heap \in Seq([prop : Nat \ {0}, next : 0..Len(heap)])
<1> SUFFICES ASSUME HeapInv PROVE heap \in Seq([prop : Nat \ {0}, next : 0..Len(heap)])
  OBVIOUS
<1>1. heap \in Seq(Element) /\ Len(heap) \in Nat /\ DOMAIN heap = 1..Len(heap)
  BY DEF HeapInv
<1>2. \A e \in 1..Len(heap) : heap[e] \in Element
  BY <1>1, ElementOfSeq
<1>3. ASSUME NEW e \in 1..Len(heap) PROVE heap[e] \in [prop : Nat \ {0}, next : 0..Len(heap)]
  <2>1. heap[e].next \in 0..Len(heap)
    BY HeapForward, <1>1 DEF Forward
  <2> QED  BY <2>1, <1>2 DEF Element
<1> QED  BY <1>1, <1>3, SeqInto

\* No pointer of DumpSubtree or of the loop over its list leaves the elements made for the
\* packet at hand.
THEOREM TypeCorrect == Spec => []TypeOK
<1>1. ShownInv => TypeOK
  <2> SUFFICES ASSUME ShownInv PROVE TypeOK
    OBVIOUS
  <2>1. snip \in 1..(Len(file) + 1)
    BY FileLen DEF ShownInv, PacketInv, ListInv, BoundsInv
  <2>2. HeapInv
    BY DEF ShownInv, OrderInv
  <2> QED
    BY <2>1, <2>2, CallsType, HeapType DEF ShownInv, PacketInv, OrderInv, RowsInv, ListInv, BoundsInv, TypeOK
<1> QED  BY <1>1, ShownInit, ShownStep, PTL DEF Spec
=============================================================================
