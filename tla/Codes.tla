------------------------------- MODULE Codes -------------------------------
(***************************************************************************)
(* The codes of Millennium Encryption (src/crypt/codebook.h): ones presses *)
(* of the key "1", then count presses of one other key.  A full code (and  *)
(* a readable code, which spells the same presses as digits) is a record;  *)
(* its digit is the number of the bit that the key sets, 1 for "2" to 7    *)
(* for "8".  A byte code packs the three numbers into eight bits:          *)
(*    OODDDCCC  or  OC000DDD (count 9 or 10)  or  DD000000 (count 11).     *)
(***************************************************************************)
EXTENDS Naturals

Byte == 0..255
Bit == 0..7
One == 0                          \* the bit of the key "1"
Digit == Bit \ {One}

Code(o, d, n) == [ones |-> o, digit |-> d, count |-> n]

\* The low eight bits of a | b.
BitOr(a, b) ==
  LET bit(w) == IF (a \div w) % 2 = 1 \/ (b \div w) % 2 = 1 THEN w ELSE 0
  IN bit(1) + bit(2) + bit(4) + bit(8) + bit(16) + bit(32) + bit(64) + bit(128)

\* The byte for a code whose digit is pressed again `again` times after the
\* first: C++ shifts and ors ints and keeps the low eight bits.
Pack(ones, digit, again) ==
  CASE again = 10       -> ((digit - 1) * 64) % 256
    [] again \in {8, 9} -> BitOr(BitOr(ones * 128, again * 64), digit)
    [] OTHER            -> BitOr(BitOr(ones * 64, digit * 8), again)

\* Mutated: the code of count 9 is taken for a short one.
to_byte_code_Short(c) ==
  CASE c.count = 11 -> ((c.digit - 1) * 64) % 256
    [] c.count = 10 -> BitOr(BitOr(c.ones * 128, 9 * 64), c.digit)
    [] OTHER        -> BitOr(BitOr(c.ones * 64, c.digit * 8), c.count - 1)

to_byte_code(c) == Pack(c.ones, c.digit, c.count - 1)

\* The three bit fields of a byte code.
OO(b) == b \div 64
DDD(b) == (b \div 8) % 8
CCC(b) == b % 8

to_full_code(b) ==
  CASE DDD(b) # 0 -> Code(OO(b), DDD(b), CCC(b) + 1)
    [] DDD(b) = 0 /\ CCC(b) # 0 -> Code(OO(b) \div 2, CCC(b), 9 + (OO(b) % 2))
    [] OTHER -> Code(0, OO(b) + 1, 11)

\* valid_readable_code only looks at the shape: any number of ones, then one or
\* more of one other digit from 2 to 8.
valid_readable_code(c) == c.ones >= 0 /\ c.digit \in Digit /\ c.count >= 1
=============================================================================
