------------------------------ MODULE MCCipher ------------------------------
(***************************************************************************)
(* Instances of Cipher for TLC: which texts are encrypted.                 *)
(***************************************************************************)
EXTENDS Cipher

\* "2", "22", "3", "4" pressed 8 times, "12", "1113", "2" 9 times, "1" and
\* "2" 10 times.
Mixed == {8, 9, 16, 31, 72, 208, 1, 193}
ShortTexts == BoundedSeq(Mixed, 3)

\* "2", "22", "3": no ones; "12", "122", "113": all with ones.
NoOnes == {8, 9, 16}
AllOnes == {72, 73, 144}
LongTexts == BoundedSeq(NoOnes, 6) \cup BoundedSeq(AllOnes, 6)

\* A text whose 112th code starts at byte 223, so that its digit ends a block
\* of 224; a code with ones follows it.
BoundaryTexts ==
  {<<9>> \o [i \in 1..n |-> 8] \o <<80, 8, 16>> : n \in 110..112}

\* The longest codes, all of the same digit.
LongestTexts == BoundedSeq({207, 193, 15}, 6)

AllTexts == ShortTexts \cup LongTexts \cup LongestTexts
=============================================================================
