------------------------------ MODULE MCBatch ------------------------------
(***************************************************************************)
(* Command lines for TLC: two good images, and one file for each way in    *)
(* which a file can fail.                                                  *)
(***************************************************************************)
EXTENDS Batch

NEFImage == [ext |-> "NEF", found |-> TRUE, readable |-> TRUE, exif |-> TRUE,
             header |-> "ok", walk |-> "done", texts |-> Texts,
             compared |-> {"make", "model"}, table |-> TRUE, tags |-> TRUE,
             xmp |-> "none", orientation |-> 8]
JPGImage == [NEFImage EXCEPT !.ext = "JPG", !.xmp = "rows", !.orientation = 6]

\* The names say what the files are.
Failing == {"missing", "locked", "text", "plainJpg", "emptyIfd"}
Fatal == {"badHeader", "badNote", "noMake", "badXmp"}
Good == {"nef", "jpg", "bareNef"}

MCImage ==
  [f \in Good \cup Failing \cup Fatal |->
     CASE f = "nef" -> NEFImage
       [] f = "jpg" -> JPGImage
       [] f = "bareNef" -> [NEFImage EXCEPT !.tags = FALSE, !.orientation = 0,
                                            !.texts = {}, !.compared = {}]
       [] f = "missing" -> [NEFImage EXCEPT !.found = FALSE]
       [] f = "locked" -> [NEFImage EXCEPT !.readable = FALSE]
       [] f = "text" -> [NEFImage EXCEPT !.ext = "other", !.header = "bad"]
       [] f = "plainJpg" -> [JPGImage EXCEPT !.exif = FALSE, !.table = FALSE]
       [] f = "emptyIfd" -> [NEFImage EXCEPT !.walk = "empty"]
       [] f = "badHeader" -> [NEFImage EXCEPT !.header = "bad"]
       [] f = "badNote" -> [NEFImage EXCEPT !.walk = "exit"]
       [] f = "noMake" -> [NEFImage EXCEPT !.texts = {"model"}]
       [] f = "badXmp" -> [JPGImage EXCEPT !.xmp = "bad"]]

AllFiles == Good \cup Failing \cup Fatal
Readable == {"nef", "jpg", "badHeader"}
Cards == {"nef", "emptyIfd"}
Photos == {"jpg", "nef"}
PlainMode == {"plain"}
TableMode == {"table"}
RemoveMode == {"remove"}
=============================================================================
