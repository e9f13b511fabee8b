------------------------------ MODULE Pictures ------------------------------
(***************************************************************************)
(* The size of a picture of the web site: get_sof0_data and output_web     *)
(* each compute the one that the pages say, resize that of the file, and   *)
(* reduce_image_size and image_resize_bilinear take each pixel from pixels *)
(* of the image.                                                           *)
(***************************************************************************)
EXTENDS Integers

CONSTANTS
  LARGE_IMAGE_LENGTH,
  MaxSide,       \* of an image: two bytes of its header, 65535
  \* The floats, in units so small that each of them is a whole number:
  One,           \* 1.0
  Significands,  \* how many there are: 2^24
  Spacings       \* the distances between neighbours: powers of two

ASSUME LengthAssumption == LARGE_IMAGE_LENGTH \in Nat \ {0}

ASSUME FloatAssumption ==
  /\ MaxSide \in Nat \ {0} /\ One \in Nat \ {0} /\ Significands \in Nat \ {0}
  /\ 16 * (MaxSide + 1) <= Significands /\ 4 * LARGE_IMAGE_LENGTH <= Significands
  /\ LARGE_IMAGE_LENGTH * Significands <= One
  /\ Spacings \subseteq Nat /\ 1 \in Spacings
  /\ \A u \in Spacings \ {1} : \E v \in Spacings : u = 2 * v
  /\ \E u \in Spacings : 4 * MaxSide * One < Significands * u

\* orientation is what GlobalOrientationPtr says, "X" where there is no such tag.
Photo == [nef : BOOLEAN, orientation : {"1", "6", "8", "X"}, width : 1..MaxSide, height : 1..MaxSide]

-----------------------------------------------------------------------------
(* get_sof0_data, and again output_web. *)

Vertical(p) ==
  \/ p.orientation \in {"6", "8"}
  \/ p.orientation \in {"1", "X"} /\ p.height > p.width

VerticalPage(p) ==
  [height |-> LARGE_IMAGE_LENGTH,
   width |-> IF p.orientation \in {"1", "X"} \/ p.height > p.width
               THEN (LARGE_IMAGE_LENGTH * p.width) \div p.height
               ELSE (LARGE_IMAGE_LENGTH * p.height) \div p.width]

HorizontalPage(p) ==
  [width |-> LARGE_IMAGE_LENGTH, height |-> (LARGE_IMAGE_LENGTH * p.height) \div p.width]

PageSize(p) == IF Vertical(p) THEN VerticalPage(p) ELSE HorizontalPage(p)

\* The file that is resized: the image of a NEF is turned (extract_thumbnail), a JPG
\* is not (iDoRotate is never set).
Turned(p) == p.nef /\ p.orientation \in {"6", "8"}
Source(p) ==
  IF Turned(p) THEN [width |-> p.height, height |-> p.width]
               ELSE [width |-> p.width, height |-> p.height]

-----------------------------------------------------------------------------
(* resize, called with a height of 0. *)

\* The picture of this width.
Resized(src, width) == [width |-> width, height |-> (width * src.height) \div src.width]

Websize(p) == Resized(Source(p), PageSize(p).width)
Thumbnail(p) == Resized(Source(p), PageSize(p).width \div 4)

Enlarges(src, dst) == src.width < dst.width \/ src.height < dst.height

-----------------------------------------------------------------------------
(* The floats of reduce_image_size and image_resize_bilinear. *)

Spacing(n, d) ==
  CHOOSE u \in Spacings : /\ n < Significands * u * d
                          /\ \A v \in Spacings : n < Significands * v * d => u <= v

\* To the nearest integer, from the middle to the even one.
Nearest(n, d) ==
  LET q == n \div d
      r == n % d
  IN  IF 2 * r > d \/ (2 * r = d /\ q % 2 = 1) THEN q + 1 ELSE q

\* The float for n / d units.
Float(n, d) == Spacing(n, d) * Nearest(n, Spacing(n, d) * d)

Scale(size, into) == Float(One * size, into)
StartAt(scale, k) == Float(k * scale, 1)
EndAt(at, scale) == Float(at + scale, 1)

\* From the integer part of at on, all whose float is less than the next.
Covered(at, scale) == (at \div One)..((EndAt(at, scale) - 1) \div One)

\* reduce_image_size: the columns and the rows of the image that are averaged; as
\* many rows as columns.  (Mutant: not from the column where the pixel begins.)
SourceColumnsAfter(src, dst, x) ==
  LET scale == Scale(src.width, dst.width)
  IN  Covered(StartAt(scale, x), scale) \ {StartAt(scale, x) \div One}
SourceColumns(src, dst, x) ==
  LET scale == Scale(src.width, dst.width) IN Covered(StartAt(scale, x), scale)

SourceRows(src, dst, y) ==
  Covered(StartAt(Scale(src.height, dst.height), y), Scale(src.width, dst.width))

\* image_resize_bilinear: a column (a row) and the next one.
Neighbours(size, into, k) ==
  LET j == StartAt(Scale(size, into), k) \div One IN {j, j + 1}

-----------------------------------------------------------------------------
(* What the sizes and the pixels should be. *)

\* The photos that the site shows lying down on a page for one that stands: a JPG that
\* would have to be turned is not, and of a NEF one that stands is.
Distorted(p) ==
  p.orientation \in {"6", "8"} /\ (IF p.nef THEN p.height > p.width ELSE p.width > p.height)

\* A picture is as wide as its page says, and as high; a vertical one, of which the page
\* gives a width without its fraction, by the rows for less than a column lower.
SizesAgree(p, page, picture) ==
  \/ Distorted(p) \/ page.width = 0
  \/ /\ page.width <= LARGE_IMAGE_LENGTH /\ page.height <= LARGE_IMAGE_LENGTH
     /\ picture.width = page.width
     /\ picture.height <= page.height
     /\ (page.height - picture.height - 1) * Source(p).width < Source(p).height
     /\ ~Vertical(p) => picture.height = page.height

\* The last of the columns (rows) that pixel k of so many may be made of: one outside
\* of the image, which is black, for the last pixel.
LastFor(k, into, size) == IF k = into - 1 THEN size ELSE size - 1

\* A smaller picture is made of all columns of the image; each of its pixels is an
\* average of at least one pixel, and none but the last column and the last row of the
\* picture of pixels outside of the image, of one column and one row there.
PixelsRight(src, dst) ==
  Enlarges(src, dst) \/ dst.height = 0 \/
    /\ 0..(src.width - 1) \subseteq UNION {SourceColumns(src, dst, x) : x \in 0..(dst.width - 1)}
    /\ \A x \in 0..(dst.width - 1) :
         /\ SourceColumns(src, dst, x) # {}
         /\ SourceColumns(src, dst, x) \subseteq 0..LastFor(x, dst.width, src.width)
    /\ \A y \in 0..(dst.height - 1) :
         /\ SourceRows(src, dst, y) # {}
         /\ SourceRows(src, dst, y) \subseteq 0..LastFor(y, dst.height, src.height)

\* A larger one reads at most one column and one row outside, which are black.
NeighboursRight(src, dst) ==
  Enlarges(src, dst) =>
    /\ \A x \in 0..(dst.width - 1) : Neighbours(src.width, dst.width, x) \subseteq 0..src.width
    /\ \A y \in 0..(dst.height - 1) :
         Neighbours(src.height, dst.height, y) \subseteq 0..src.height
=============================================================================
