------------------------------- MODULE Values -------------------------------
(***************************************************************************)
(* The text that a row gets for the value of an entry: the numbers that    *)
(* extract_and_format_data takes from the four bytes of an entry, the      *)
(* names that display_data has for codes, and the numbers that truncate,   *)
(* precision and convert_lens cut and the shutter speed that display_data  *)
(* computes.                                                               *)
(*                                                                         *)
(* The text of numbers is the sequence of them: each has its bytes, the    *)
(* most significant first, and whether it is printed as a negative one.    *)
(* That of a code is its digits.                                           *)
(***************************************************************************)
EXTENDS Integers, Sequences, SequencesExt, FiniteSets

\* type is the field type of TIFF: 1 BYTE, 2 ASCII, 3 SHORT, 4 LONG, 6 SBYTE, 8
\* SSHORT, 9 SLONG; four are the bytes in the file; mm the byte order; iso is TRUE
\* for the tags 0x0002 and 0x0013, the two numbers of an ISO speed.
Small == [type : {1, 2, 3, 4, 6, 8, 9}, count : Nat, four : Seq(Nat), mm : BOOLEAN, iso : BOOLEAN]

UnitOf(type) == CASE type \in {1, 2, 6} -> 1 [] type \in {3, 8} -> 2 [] OTHER -> 4
IsSmall(e) == UnitOf(e.type) * e.count <= 4

-----------------------------------------------------------------------------
(* extract_and_format_data. *)

\* Get32u: ubyte1 to ubyte4.
Get32u(e) == IF e.mm THEN e.four ELSE Reverse(e.four)
High(u) == <<u[1], u[2]>>     \* ubyte5
Low(u) == <<u[3], u[4]>>      \* ubyte6

Printed(bytes) == [bytes |-> bytes, negative |-> FALSE]
Bytes(s, n) == [k \in 1..n |-> Printed(<<s[k]>>)]

\* BYTE: in the order of the file.
ByteText(e) == Bytes(IF e.mm THEN Get32u(e) ELSE Reverse(Get32u(e)), e.count)

\* ASCII: only three of them.
AsciiText(e) == Bytes(IF e.count = 3 /\ ~e.mm THEN Reverse(Get32u(e)) ELSE Get32u(e), e.count)

SbyteText(e) == Bytes(Get32u(e), e.count)

ShortText(e) ==
  LET u == Get32u(e)
  IN  CASE e.iso -> <<Printed(IF Low(u) # <<0, 0>> THEN Low(u) ELSE High(u))>>
        [] ~e.iso /\ e.count = 1 -> <<Printed(IF e.mm THEN High(u) ELSE Low(u))>>
        [] ~e.iso /\ e.count = 2 -> <<Printed(High(u)), Printed(Low(u))>>
        [] OTHER -> <<>>

\* Only these are printed as signed numbers (%ld), a LONG as well as an SLONG.
LongText(e) == LET u == Get32u(e) IN <<[bytes |-> u, negative |-> u[1] >= 128]>>

SmallText(e) ==
  CASE e.type = 1 -> ByteText(e)
    [] e.type = 2 -> AsciiText(e)
    [] e.type = 6 -> SbyteText(e)
    [] e.type \in {3, 8} -> ShortText(e)
    [] e.type \in {4, 9} -> LongText(e)

-----------------------------------------------------------------------------
(* UNDEFINED of up to four bytes: the hexadecimal digits of all four, as of   *)
(* one number, are what the text is cut from.                                *)

Nibbles(bytes) ==
  [k \in 1..(2 * Len(bytes)) |->
     LET byte == bytes[(k + 1) \div 2] IN IF k % 2 = 1 THEN byte \div 16 ELSE byte % 16]

\* %x: no zeros in front, but one digit at least.
Hex(nibbles) ==
  LET shown == {k \in DOMAIN nibbles : nibbles[k] # 0} \cup {Len(nibbles)}
  IN  SubSeq(nibbles, CHOOSE k \in shown : \A j \in shown : k <= j, Len(nibbles))

\* pad_field, in front.
Padded(digits, length) ==
  [k \in 1..(length - Len(digits)) |-> 0] \o digits

HexDigitsOf(e) == Padded(Hex(Nibbles(Get32u(e))), 2 * e.count)

\* print_16bit_hex: as many pairs of digits as there are bytes.
HexText(e) ==
  [k \in 1..e.count |-> SubSeq(HexDigitsOf(e), 2 * k - 1, 2 * k)]

\* print_8bit_bytes, for FileSource and SceneType: as many digits.
DigitText(e) ==
  LET digits == Hex(Nibbles(Get32u(e)))
  IN  SubSeq(digits, 1, IF e.count < Len(digits) THEN e.count ELSE Len(digits))

-----------------------------------------------------------------------------
(* The names of codes in display_data: the first row that fits is shown.    *)

Digits(n) ==
  IF n < 10 THEN <<n>> ELSE IF n < 100 THEN <<n \div 10, n % 10>>
  ELSE <<n \div 100, (n \div 10) % 10, n % 10>>
HexDigits(n) == IF n < 16 THEN <<n>> ELSE <<n \div 16, n % 16>>

\* whole: a text of the same length only (strlen == 1); else the text of the row is
\* what that of the value begins with (strncmp).
TableRow(text, whole) == [text |-> text, whole |-> whole]
Begins(codes) == [k \in DOMAIN codes |-> TableRow(codes[k], FALSE)]

FlashRows ==
  LET two == <<13, 15, 16, 24, 25, 29, 31, 32, 65, 69, 71, 73, 77, 79, 89, 93, 95>>
  IN  <<TableRow(<<0>>, FALSE), TableRow(<<1>>, TRUE), TableRow(<<5>>, TRUE), TableRow(<<7>>, TRUE), TableRow(<<9>>, TRUE)>>
      \o Begins([k \in DOMAIN two |-> Digits(two[k])])
ProgramRows == Begins(<<<<2>>, <<0>>, <<4>>, <<3>>, <<1>>>>)
MeteringRows == Begins(<<<<5>>, <<3>>, <<2>>>>)
OrientationRows == Begins([k \in 1..8 |-> <<k>>])
LensTypeRows == Begins(<<<<2>>, <<6>>, <<14>>, <<10>>>>)

RowsFor(tag) ==
  CASE tag = "Flash" -> FlashRows [] tag = "Program" -> ProgramRows
    [] tag = "Metering" -> MeteringRows [] tag = "Orientation" -> OrientationRows
    [] tag = "LensType" -> LensTypeRows

CodeText(tag, n) == IF tag = "LensType" THEN HexDigits(n) ELSE Digits(n)

\* Mutant: the length is not looked at.
FitsLoosely(row, text) == IsPrefix(row.text, text)
Fits(row, text) == IsPrefix(row.text, text) /\ (row.whole => Len(row.text) = Len(text))

\* The row whose name is shown; none: the value itself is.
CodeName(tag, n) ==
  LET rows == RowsFor(tag)
      fit == {k \in DOMAIN rows : Fits(rows[k], CodeText(tag, n))}
  IN  IF fit = {} THEN <<>> ELSE rows[CHOOSE k \in fit : \A j \in fit : k <= j].text

-----------------------------------------------------------------------------
(* Numbers with a point: %f prints six digits behind it.  A number is counted
   in millionths.                                                             *)

Million == 1000000
Millionths(num, den) == (2 * num * Million + den) \div (2 * den)

\* The first digit behind the point.
Tenth(m) == (m % Million) \div 100000
Precision(m) == IF Tenth(m) = 0 THEN 0 ELSE 2

\* The point itself is cut as well, so that one digit less is left.
Truncate(m, length) ==
  CASE length = 0 -> m - (m % Million)
    [] length = 2 -> m - (m % 100000)
    [] length = 3 -> m - (m % 10000)

FocalLength(m) == Truncate(m, Precision(m))

\* Four numbers: the shortest and the longest focal length, and their apertures.
ConvertLens(l) ==
  [from |-> FocalLength(l[1]),
   to |-> IF l[1] = l[2] /\ l[3] = l[4] THEN FocalLength(l[1]) ELSE Truncate(l[2], 0),
   widest |-> Truncate(l[3], 2),
   narrowest |-> IF l[3] = l[4] THEN Truncate(l[3], 2) ELSE Truncate(l[4], 2)]

\* Up to half a second: one over the nearest number.
ShutterIsFraction(m) == m <= Million \div 2
ShutterFraction(m) == (2 * Million + m) \div (2 * m)

-----------------------------------------------------------------------------
(* What the texts should be. *)

\* The numbers that the file has, in its byte order.
Meant(e) ==
  LET unit == UnitOf(e.type)
      nth(k) == SubSeq(e.four, unit * (k - 1) + 1, unit * k)
      number(bytes) == [bytes |-> bytes, negative |-> e.type \in {6, 8, 9} /\ bytes[1] >= 128]
  IN  [k \in 1..e.count |-> number(IF e.mm THEN nth(k) ELSE Reverse(nth(k)))]

\* What of the order II is read as if it were MM: one, two or four characters, SBYTEs,
\* and the two of a pair of numbers, which change places.
ReadAsMM(e) ==
  /\ ~e.mm
  /\ \/ e.type = 2 /\ e.count # 3
     \/ e.type = 6
     \/ e.type \in {3, 8} /\ e.count = 2

\* The sign of a short one is lost, and a LONG has one.
WrongSign(e) ==
  \E k \in 1..e.count : Meant(e)[k].negative # (e.type \in {4, 9} /\ Meant(e)[k].bytes[1] >= 128)

\* An ISO speed of one number shows what follows it: in the order MM, or when it is 0.
AfterIso(e) == e.count = 1 /\ SubSeq(e.four, 3, 4) # <<0, 0>>

\* The speeds that are not 0.
Speeds(e) == {k \in 1..e.count : Meant(e)[k].bytes # <<0, 0>>}

\* The text has the numbers of the file in their order, but for these; that of an ISO
\* speed is one of its two numbers, and 0 only when both are.
SmallRight(e, text) ==
  \/ ~e.iso /\ (ReadAsMM(e) \/ WrongSign(e) \/ text = Meant(e))
  \/ e.iso /\ AfterIso(e)
  \/ e.iso /\ Speeds(e) = {} /\ text = <<Printed(<<0, 0>>)>>
  \/ e.iso /\ \E k \in Speeds(e) : text = <<Meant(e)[k]>>

\* What follows the bytes in the entry is 0, as cameras write it.
ZeroAfter(e) == \A k \in (e.count + 1)..4 : e.four[k] = 0

\* The bytes are shown in pairs of digits, but in the order II the last one first, and
\* in the order MM fewer than four of them without the zeros in front.
HexRight(e, text) ==
  ZeroAfter(e) =>
    \/ e.mm /\ (e.count = 4 \/ e.four[1] >= 16) /\ text = [k \in 1..e.count |-> Nibbles(<<e.four[k]>>)]
    \/ e.mm /\ e.count < 4 /\ e.four[1] < 16
    \/ ~e.mm /\ text = [k \in 1..e.count |-> Nibbles(<<e.four[e.count + 1 - k]>>)]

\* One byte below 16 is shown as its digit, in both orders.
DigitRight(e, text) == e.count = 1 /\ ZeroAfter(e) /\ e.four[1] < 16 => text = <<e.four[1]>>

\* Codes whose text begins like that of another one: the unknown metering mode 255,
\* and the lens types 20 to 2f, 60 to 6f, a0 to af and e0 to ef.
LikeAnother(tag, n) ==
  \/ tag = "Metering" /\ n = 255
  \/ tag = "LensType" /\ n >= 16 /\ n \div 16 \in {2, 6, 10, 14}

\* A code has its own name; without one, no row of the table was for it.
CodeRight(tag, n, text) ==
  \/ text = CodeText(tag, n)
  \/ text = <<>> /\ \A k \in DOMAIN RowsFor(tag) : RowsFor(tag)[k].text # CodeText(tag, n)
  \/ LikeAnother(tag, n)

\* A shutter speed of 1/n is shown as such up to 1/1000; above, six digits behind the
\* point are not enough (1/3200 reads 1/3195), but it is right within a 200th.
ShutterRight(n, shown) ==
  /\ n <= 1000 => shown = n
  /\ 200 * (shown - n) <= n /\ 200 * (n - shown) <= n

\* The text of a lens has its shorter focal length and its apertures to a tenth, and
\* the longer focal length to a millimeter, never rounded up.
Within(shown, m, step) == shown <= m /\ m < shown + step
LensRight(l, text) ==
  /\ Within(text.from, l[1], 100000)
  /\ Within(text.to, l[2], Million)
  /\ Within(text.widest, l[3], 100000) /\ Within(text.narrowest, l[4], 100000)
=============================================================================
