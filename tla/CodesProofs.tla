---------------------------- MODULE CodesProofs ----------------------------
(***************************************************************************)
(* What the proofs about codebooks and about ciphers have in common: least *)
(* numbers, and that a byte code and its full code are the same code.      *)
(***************************************************************************)
EXTENDS Codes, Integers, WellFoundedInduction, TLAPS

\* A set of numbers has a least one.
LEMMA LeastIs ==
  ASSUME NEW T \in SUBSET Nat, T # {}
  PROVE  \E x \in T : \A y \in T : x <= y
<1>1. PICK x \in T : \A y \in T : ~ (<<y, x>> \in OpToRel(<, Nat))
  BY NatLessThanWellFounded, WFMin
<1> SUFFICES ASSUME NEW y \in T PROVE x <= y
  OBVIOUS
<1>2. ~ (y < x)
  BY <1>1 DEF OpToRel
<1> QED
  BY <1>2

\* What is kept of an or is a byte.
LEMMA OrIn ==
  ASSUME NEW a, NEW b
  PROVE  BitOr(a, b) \in Byte
  BY DEF BitOr, Byte

\* The or of three fields that do not overlap is their sum, OODDDCCC.
LEMMA LongOr ==
  ASSUME NEW o \in 0..3, NEW d \in 1..7, NEW k \in 0..7
  PROVE  BitOr(BitOr(o * 64, d * 8), k) = o * 64 + d * 8 + k
<1>1. BitOr(o * 64, d * 8) = o * 64 + d * 8
  BY DEF BitOr
<1>2. BitOr(o * 64 + d * 8, k) = o * 64 + d * 8 + k
  BY DEF BitOr
<1> QED
  BY <1>1, <1>2

\* The same for OC000DDD, where the upper bit of 8 or 9 is shifted out.
LEMMA ShortOr ==
  ASSUME NEW o \in 0..1, NEW a \in {8, 9}, NEW d \in 1..7
  PROVE  BitOr(BitOr(o * 128, a * 64), d) = o * 128 + (a - 8) * 64 + d
<1>1. BitOr(o * 128, a * 64) = o * 128 + (a - 8) * 64
  BY DEF BitOr
<1>2. BitOr(o * 128 + (a - 8) * 64, d) = o * 128 + (a - 8) * 64 + d
  BY DEF BitOr
<1> QED
  BY <1>1, <1>2

\* The byte code of the full code of a byte is the byte.
LEMMA CodeOfByte ==
  ASSUME NEW b \in Byte
  PROVE  to_byte_code(to_full_code(b)) = b
<1> DEFINE o == OO(b)
           d == DDD(b)
           k == CCC(b)
<1>1. o \in 0..3 /\ d \in 0..7 /\ k \in 0..7 /\ b = o * 64 + d * 8 + k
  BY DEF Byte, OO, DDD, CCC
<1> HIDE DEF o, d, k
<1>2. CASE d # 0
  <2>1. to_full_code(b) = Code(o, d, k + 1)
    BY <1>2 DEF to_full_code, o, d, k
  <2>2. Pack(o, d, k) = b
    <3>1. d \in 1..7 /\ k # 10 /\ k \notin {8, 9}
      BY <1>1, <1>2
    <3> QED
      BY <1>1, <3>1, LongOr DEF Pack
  <2>3. (k + 1) - 1 = k
    BY <1>1
  <2> QED
    BY <2>1, <2>2, <2>3 DEF to_byte_code, Code
<1>3. CASE d = 0 /\ k # 0
  <2> DEFINE p == o \div 2
             a == o % 2
  <2>1. to_full_code(b) = Code(p, k, 9 + a)
    BY <1>3 DEF to_full_code, o, d, k
  <2>2. p \in 0..1 /\ a \in 0..1 /\ o = 2 * p + a
    BY <1>1
  <2> HIDE DEF p, a
  <2>3. (9 + a) - 1 = 8 + a /\ 8 + a \in {8, 9} /\ 8 + a # 10 /\ (8 + a) - 8 = a
    BY <2>2
  <2>4. Pack(p, k, 8 + a) = p * 128 + a * 64 + k
    <3>1. k \in 1..7
      BY <1>1, <1>3
    <3> QED
      BY <2>2, <2>3, <3>1, ShortOr DEF Pack
  <2>5. p * 128 + a * 64 + k = b
    BY <1>1, <1>3, <2>2
  <2> QED
    BY <2>1, <2>3, <2>4, <2>5 DEF to_byte_code, Code
<1>4. CASE d = 0 /\ k = 0
  <2>1. to_full_code(b) = Code(0, o + 1, 11)
    BY <1>4 DEF to_full_code, o, d, k
  <2>2. Pack(0, o + 1, 10) = b
    BY <1>1, <1>4 DEF Pack
  <2> QED
    BY <2>1, <2>2 DEF to_byte_code, Code
<1> QED
  BY <1>1, <1>2, <1>3, <1>4
=============================================================================
