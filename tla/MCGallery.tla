----------------------------- MODULE MCGallery -----------------------------
(***************************************************************************)
(* Instances of Gallery for TLC: one image of each kind that output_web    *)
(* tells apart.                                                            *)
(***************************************************************************)
EXTENDS Gallery

CONSTANTS nef, progressive, broken, elsewhere

\* A vertical NEF; the others differ from it in one or two respects.
Ordinary ==
  [ext |-> "NEF", sof |-> TRUE, turned |-> TRUE, decodes |-> TRUE, inDir |-> FALSE]

MCFiles == {nef, progressive, broken, elsewhere}

MCImage ==
  [f \in MCFiles |->
     CASE f = nef -> Ordinary
       [] f = progressive -> [Ordinary EXCEPT !.ext = "JPG", !.sof = FALSE]
       [] f = broken -> [Ordinary EXCEPT !.ext = "JPG", !.decodes = FALSE]
       [] f = elsewhere -> [Ordinary EXCEPT !.ext = "JPG", !.inDir = TRUE]]

\* JPGs whose orientation is "6" or "8".
VerticalJpgs == {progressive}
VerticalJpgImage == [f \in VerticalJpgs |-> MCImage[f]]
=============================================================================
