------------------------------- MODULE Album -------------------------------
(***************************************************************************)
(* What a web site of galleries promises: images are put one at a time, in *)
(* the order of the command line, into the newest gallery; a gallery is    *)
(* opened only when the newest one is full or nothing could be put in it.  *)
(* An image that is in a gallery stays where it is.                        *)
(***************************************************************************)
EXTENDS Integers, Sequences

CONSTANTS
  Images,    \* numbers of the images, in the order of the command line
  Capacity   \* images in a full gallery

VARIABLE albums     \* the galleries, each the sequence of its images

Newest == albums[Len(albums)]

AllEarlier(k) ==
  \A g \in 1..Len(albums) : \A i \in 1..Len(albums[g]) : albums[g][i] < k

Init == albums = <<>>

OpenAlbum ==
  /\ albums = <<>> \/ Len(Newest) \in {0, Capacity}
  /\ albums' = Append(albums, <<>>)

Place(k) ==
  /\ albums # <<>>
  /\ Len(Newest) < Capacity
  /\ AllEarlier(k)
  /\ albums' = [albums EXCEPT ![Len(albums)] = Append(@, k)]

Next == OpenAlbum \/ \E k \in Images : Place(k)

Spec == Init /\ [][Next]_albums
=============================================================================
