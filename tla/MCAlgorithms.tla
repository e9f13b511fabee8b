---------------------------- MODULE MCAlgorithms ----------------------------
(***************************************************************************)
(* The operators of Values and Pictures over bounded inputs: an input is   *)
(* chosen, and what the code makes of it is computed in one step.          *)
(***************************************************************************)
EXTENDS Values, Pictures

CONSTANT MaxShutter

\* Of floats that are not beyond four times the side of an image.
MCSpacings == {2^k : k \in 0..11}

VARIABLES input, output
io == <<input, output>>

\* A sequence for each order of three values of a byte, one of them with its sign bit.
Fours == [1..4 -> {0, 1, 200}]
Smalls ==
  {e \in [kind : {"small"}, type : {1, 2, 3, 4, 6, 8, 9}, count : 0..4, four : Fours,
          mm : BOOLEAN, iso : BOOLEAN] :
     IsSmall(e) /\ (e.type \in {4, 9} => e.count = 1) /\ (e.iso => e.type = 3 /\ e.count > 0)}

\* Bytes whose first or second digit is 0.
Undefineds ==
  {e \in [kind : {"undefined"}, count : 1..4, four : [1..4 -> {0, 2, 48, 49}], mm : BOOLEAN] :
     ZeroAfter(e)}

CodesOf(tag) ==
  CASE tag = "Flash" -> 0..127 [] tag = "Program" -> 0..8
    [] tag = "Metering" -> (0..6) \cup {255} [] tag = "Orientation" -> 1..8
    [] tag = "LensType" -> 0..255
Codes == UNION {{[kind |-> "code", tag |-> tag, code |-> n] : n \in CodesOf(tag)} :
                  tag \in {"Flash", "Program", "Metering", "Orientation", "LensType"}}

Shutters == {[kind |-> "shutter", one |-> n] : n \in 2..MaxShutter}

Focals == {18000000, 35000000, 70500000, 70050000, 17350000}
Apertures == {1800000, 3500000, 4560000}
Lenses == {[kind |-> "lens", lens |-> <<a, b, c, d>>] : a, b \in Focals, c, d \in Apertures}

Photos == {[kind |-> "photo", nef |-> nef, orientation |-> o, width |-> w, height |-> h] :
             nef \in BOOLEAN, o \in {"1", "6", "8", "X"}, w, h \in 1..MaxSide}

Given == input \in Smalls \cup Undefineds \cup Codes \cup Shutters \cup Lenses \cup Photos /\ output = <<>>

Computes(kind) == input.kind = kind /\ output = <<>> /\ UNCHANGED input

FormatSmall == Computes("small") /\ output' = <<SmallText(input)>>
FormatHex == Computes("undefined") /\ output' = <<HexText(input), DigitText(input)>>
NameCode == Computes("code") /\ output' = <<CodeName(input.tag, input.code)>>
PrintShutter == Computes("shutter") /\ output' = <<ShutterFraction(Millionths(1, input.one))>>
PrintLens == Computes("lens") /\ output' = <<ConvertLens(input.lens)>>
SizePicture == Computes("photo") /\ output' = <<PageSize(input), Websize(input), Thumbnail(input)>>

Computed == output # <<>> /\ UNCHANGED io
Evaluate == FormatSmall \/ FormatHex \/ NameCode \/ PrintShutter \/ PrintLens \/ SizePicture \/ Computed
Evaluation == Given /\ [][Evaluate]_io

Has(kind) == output # <<>> /\ input.kind = kind

\* The text of a small value is what the file says (extract_and_format_data, and
\* print_16bit_hex and print_8bit_bytes).
SmallValuesRight ==
  /\ Has("small") => SmallRight(input, output[1])
  /\ Has("undefined") => HexRight(input, output[1]) /\ DigitRight(input, output[2])

\* The names and numbers that display_data shows are those of the value.
ShownRight ==
  /\ Has("code") => CodeRight(input.tag, input.code, output[1])
  /\ Has("shutter") => ShutterRight(input.one, output[1])
  /\ Has("lens") => LensRight(input.lens, output[1])

\* What is shown of a value, whatever its size, is what the file says.
TextsRight == SmallValuesRight /\ ShownRight

\* The pages of the site and the files agree on the size of a picture (output_web and
\* resize), and it and its thumbnail are made of the pixels of the image.
PicturesFit ==
  Has("photo") =>
    /\ SizesAgree(input, output[1], output[2])
    /\ \A picture \in {output[2], output[3]} :
         /\ PixelsRight(Source(input), picture)
         /\ NeighboursRight(Source(input), picture)
=============================================================================
