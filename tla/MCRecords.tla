----------------------------- MODULE MCRecords -----------------------------
(***************************************************************************)
(* A table in which one name stands for two tags, as LightSource does in   *)
(* TagTable, and a NEF and a JPG in which the same tag occurs several      *)
(* times.                                                                  *)
(***************************************************************************)
EXTENDS Records

MCTable ==
  <<[tag |-> "light", name |-> "LightSource"],
    [tag |-> "serial", name |-> "SerialNumber"],
    [tag |-> "width", name |-> "ImageWidth"],
    [tag |-> "orientation", name |-> "Orientation"],
    [tag |-> "exifLight", name |-> "LightSource"],
    [tag |-> "webWidth", name |-> "ExifImageWidth"]>>
MCTag == {MCTable[i].tag : i \in DOMAIN MCTable} \cup {"length", "webLength"}
MCNames == {MCTable[i].name : i \in DOMAIN MCTable} \cup {"Other"}
MCDefaults == {"light", "width", "orientation", "webWidth"}

NefImage ==
  [dirs |-> <<[type |-> "IFD0", entries |-> <<[tag |-> "width", n |-> 160],
                                              [tag |-> "orientation", n |-> 0]>>],
              [type |-> "other", entries |-> <<[tag |-> "orientation", n |-> 8],
                                               [tag |-> "width", n |-> 3008]>>],
              [type |-> "other", entries |-> <<[tag |-> "light", n |-> 3],
                                               [tag |-> "orientation", n |-> 1]>>]>>,
   xmp |-> <<>>, frame |-> TRUE]

JpgImage ==
  [dirs |-> <<[type |-> "IFD0", entries |-> <<[tag |-> "orientation", n |-> 6]>>],
              [type |-> "other", entries |-> <<[tag |-> "exifLight", n |-> 4],
                                               [tag |-> "webWidth", n |-> 2000],
                                               [tag |-> "serial", n |-> 7]>>]>>,
   xmp |-> <<[tag |-> "light", n |-> 5], [tag |-> "orientation", n |-> 1]>>, frame |-> TRUE]

MCFiles == {"nef", "jpg"}
MCImage == [f \in MCFiles |-> IF f = "nef" THEN NefImage ELSE JpgImage]
=============================================================================
