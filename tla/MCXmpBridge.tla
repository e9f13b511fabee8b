----------------------------- MODULE MCXmpBridge -----------------------------
(***************************************************************************)
(* Every packet of up to MaxProps properties made of a few kinds, and      *)
(* files of two and three snips made of short packets.                     *)
(***************************************************************************)
EXTENDS XmpBridge

CONSTANT MaxProps

P(n, t) == [name |-> n, text |-> t]
Kinds == {P("Lens", "none"), P("Fired", "other"), P("DateTimeOriginal", "date time")}
FewKinds == {P("Lens", "other"), P("Function", "other"), P("DateTimeOriginal", "date")}
Deeper(k, d) == [name |-> k.name, text |-> k.text, depth |-> d]

PropsOf(kinds, n) ==
  {[i \in 1..n |-> Deeper(k[i], d[i])] : k \in [1..n -> kinds],
     d \in {t \in [1..n -> 1..3] : \A i \in 1..n : t[i] <= IF i = 1 THEN 1 ELSE t[i - 1] + 1}}

Packet(props) == [packet |-> TRUE, parses |-> TRUE, props |-> props]
Padding == [packet |-> FALSE, parses |-> FALSE, props |-> <<>>]
Bad == [packet |-> TRUE, parses |-> FALSE, props |-> <<>>]

Snips(n) == {Padding, Bad} \cup {Packet(p) : p \in UNION {PropsOf(FewKinds, k) : k \in 0..n}}

FilesDef ==
  {<<Padding>>, <<Bad>>}
  \cup {<<Padding, Packet(p), Padding>> : p \in UNION {PropsOf(Kinds, n) : n \in 0..MaxProps}}
  \cup {<<a, b>> : a, b \in Snips(2)}
  \cup {<<a, b, c>> : a, b, c \in Snips(1)}
=============================================================================
