---------------------------- MODULE CipherProofs ----------------------------
(***************************************************************************)
(* Theorems about Cipher, for any texts and sizes.                         *)
(*                                                                         *)
(* encrypt stays inside its buffer (StaysInBuffer).  However codes         *)
(* overlap, nothing is on the tape 11 bytes behind the start of the last   *)
(* code's digit, since digits start one behind the other and are pressed   *)
(* 11 times at most; so the next digit starts 12 bytes further on at most. *)
(*                                                                         *)
(* A text comes out as it went in (ComesBack, ReadsInBuffer).  The blocks  *)
(* of encrypt and of decrypt are windows on one tape without end.  Codes   *)
(* that are Apart on it have their digits in the order of the text, and a  *)
(* gap between digits that are the same: encrypt lays them so (LaidInv),   *)
(* and from the place of a digit read_from_buffer finds the next, and      *)
(* where it ends (ReadCode).  Two things can go wrong, and are hypotheses: *)
(* encrypt does not tell a character apart from those before (ToldApart),  *)
(* or writes the byte 0xFF, which decrypt takes for the end (NeverFull).   *)
(* Neither happens to a text that is Clear (ClearComesBack,                *)
(* ClearReadsInBuffer).                                                    *)
(***************************************************************************)
EXTENDS Cipher, CodesProofs, SequenceTheorems

\* Room for the longest code behind a block, and a block that is longer than
\* what a code can go on by; the program has 32 and 224.
RoomAssumption == BUFFER_SIZE >= 23 /\ Step >= 12

\* The tape is empty 11 bytes behind x.
EmptyBehind(tape, x) == \A i \in (x + 11)..BLOCKSIZE : tape[i] = {}

\* While encrypt runs the next digit starts in reach, and nothing is behind it.
EncryptInv ==
  /\ text \in Texts
  /\ mode = "encrypt" =>
       /\ taken \in 0..Len(text)
       /\ c_start \in 0..(Step + 11)
       /\ EmptyBehind(buffer, c_start)

-----------------------------------------------------------------------------
(* Least and greatest numbers *)

\* The least of a set of numbers is in it, and not above any.
LEMMA MinIs ==
  ASSUME NEW T \in SUBSET Nat, NEW n \in T
  PROVE  Min(T) \in T /\ Min(T) <= n
  BY LeastIs DEF Min

\* The greater of two numbers.
LEMMA MaxIs ==
  ASSUME NEW a \in Int, NEW b \in Int
  PROVE  Max({a, b}) = IF a >= b THEN a ELSE b
  BY DEF Max

\* The byte a search stops at, when x is one it would stop at.
LEMMA FoundIs ==
  ASSUME BLOCKSIZE \in Nat, NEW s \in Nat, NEW T \in SUBSET (s..BLOCKSIZE), NEW x \in T
  PROVE  Min(T \cup {BLOCKSIZE + 1}) \in T /\ Min(T \cup {BLOCKSIZE + 1}) \in s..x
<1> DEFINE U == T \cup {BLOCKSIZE + 1}
<1>1. U \in SUBSET Nat /\ x \in U /\ x <= BLOCKSIZE
  OBVIOUS
<1> HIDE DEF U
<1>2. Min(U) \in U /\ Min(U) <= x
  BY <1>1, MinIs
<1>3. Min(U) \in T
  BY <1>1, <1>2 DEF U
<1>4. PICK m : m = Min(U)
  OBVIOUS
<1>5. m \in s..BLOCKSIZE /\ m <= x /\ x \in Nat
  BY <1>1, <1>2, <1>3, <1>4
<1>6. m \in s..x
  BY <1>5
<1> QED
  BY <1>3, <1>4, <1>6 DEF U

\* What a search stops at.
LEMMA StopsAt ==
  ASSUME NEW s \in Nat, NEW T \in SUBSET (s..BLOCKSIZE), NEW y \in T, \A i \in T : y <= i
  PROVE  Min(T \cup {BLOCKSIZE + 1}) = y
<1>1. BLOCKSIZE \in Nat
  BY SizeAssumption
<1>2. PICK m : m = Min(T \cup {BLOCKSIZE + 1})
  OBVIOUS
<1>3. m \in T /\ m \in s..y
  BY <1>1, <1>2, FoundIs
<1>4. y <= m /\ y \in Nat
  BY <1>3
<1>5. m = y
  BY <1>3, <1>4
<1> QED
  BY <1>2, <1>5

-----------------------------------------------------------------------------
(* Placing a code *)

\* The numbers of a full code.
LEMMA FullCodeIs ==
  ASSUME NEW b \in Byte
  PROVE  /\ to_full_code(b).ones = Ones(b) /\ Ones(b) \in 0..3
         /\ to_full_code(b).count \in 1..11
<1>1. OO(b) \in 0..3 /\ DDD(b) \in 0..7 /\ CCC(b) \in 0..7
  BY DEF Byte, OO, DDD, CCC
<1>2. OO(b) \div 2 \in 0..1 /\ OO(b) % 2 \in 0..1
  BY <1>1
<1>3. CASE DDD(b) # 0
  BY <1>1, <1>3 DEF to_full_code, Ones, Code
<1>4. CASE DDD(b) = 0 /\ CCC(b) # 0
  BY <1>1, <1>2, <1>4 DEF to_full_code, Ones, Code
<1>5. CASE DDD(b) = 0 /\ CCC(b) = 0
  BY <1>1, <1>5 DEF to_full_code, Ones, Code
<1> QED
  BY <1>1, <1>3, <1>4, <1>5

\* The digit of a full code is the bit that where_to_write_in_buffer searches
\* for, but for codes of count 11.
LEMMA DigitIs ==
  ASSUME NEW b \in Byte
  PROVE  /\ to_full_code(b).digit \in Digit
         /\ to_full_code(b).count # 11 => to_full_code(b).digit = DigitBit(b)
         /\ to_full_code(b).count = 11 => to_full_code(b).ones = 0
         /\ DigitBit(b) \in Bit
<1>1. OO(b) \in 0..3 /\ DDD(b) \in 0..7 /\ CCC(b) \in 0..7
  BY DEF Byte, OO, DDD, CCC
<1>2. OO(b) % 2 \in 0..1
  BY <1>1
<1>3. CASE DDD(b) # 0
  BY <1>1, <1>3 DEF to_full_code, DigitBit, Code, Digit, Bit, One
<1>4. CASE DDD(b) = 0 /\ CCC(b) # 0
  BY <1>1, <1>2, <1>4 DEF to_full_code, DigitBit, Code, Digit, Bit, One
<1>5. CASE DDD(b) = 0 /\ CCC(b) = 0
  BY <1>1, <1>5 DEF to_full_code, DigitBit, Code, Digit, Bit, One
<1> QED
  BY <1>1, <1>3, <1>4, <1>5

\* A digit is placed at most 12 bytes behind the one before, and not on or right
\* behind the bit that was searched for; ones, if they can start at once, do.
LEMMA WhereIs ==
  ASSUME NEW tape, NEW b \in Byte, NEW s \in Nat, s + 11 <= BLOCKSIZE, EmptyBehind(tape, s)
  PROVE  LET w == where_to_write_in_buffer(tape, b, s)
         IN /\ w \in Nat /\ w \in s..(s + 12) /\ w + Ones(b) \in s..(s + 12)
            /\ Ones(b) = 0 \/ One \notin tape[s - 1] => w > s
            /\ DigitBit(b) \notin tape[w + Ones(b) - 1]
<1>1. PICK n : n = Ones(b)
  OBVIOUS
<1>2. n \in 0..3
  BY <1>1, FullCodeIs
<1>3. PICK T : T = {i \in (s + n)..BLOCKSIZE : DigitBit(b) \notin tape[i]}
  OBVIOUS
<1>4. s + 11 \in T /\ T \in SUBSET ((s + n)..BLOCKSIZE) /\ BLOCKSIZE \in Nat
  <2>1. BLOCKSIZE \in Nat
    BY SizeAssumption
  <2>2. s + 11 \in (s + n)..BLOCKSIZE /\ s + 11 \in (s + 11)..BLOCKSIZE
    BY <1>2, <2>1
  <2>3. tape[s + 11] = {}
    BY <2>2 DEF EmptyBehind
  <2> QED
    BY <1>3, <2>1, <2>2, <2>3
<1>5. PICK free : free = Min(T \cup {BLOCKSIZE + 1})
  OBVIOUS
<1>6. s + n \in Nat
  BY <1>2
<1>7. free \in (s + n)..(s + 11) /\ DigitBit(b) \notin tape[free]
  <2>1. free \in T /\ free \in (s + n)..(s + 11)
    BY <1>4, <1>5, <1>6, FoundIs
  <2> QED
    BY <1>3, <2>1
<1>8. PICK d : d = IF DigitBit(b) \in tape[free - 1] THEN free + 1 ELSE free
  OBVIOUS
<1>9. PICK o : o = IF n = 0 \/ One \notin tape[s - 1] THEN s + 1 ELSE s
  OBVIOUS
<1>10. PICK w : w = where_to_write_in_buffer(tape, b, s)
  OBVIOUS
<1>11. w = Max({d - n, o})
  BY <1>1, <1>3, <1>5, <1>8, <1>9, <1>10 DEF where_to_write_in_buffer, First
<1>12. d \in free..(free + 1) /\ o \in s..(s + 1)
  BY <1>6, <1>7, <1>8, <1>9
<1>13. w = IF d - n >= o THEN d - n ELSE o
  BY <1>2, <1>7, <1>11, <1>12, MaxIs
<1>14. w \in Nat /\ w \in s..(s + 12) /\ w + n \in s..(s + 12)
  BY <1>2, <1>7, <1>12, <1>13
<1>15. n = 0 \/ One \notin tape[s - 1] => w > s
  BY <1>2, <1>7, <1>9, <1>12, <1>13
<1>16. DigitBit(b) \notin tape[w + n - 1]
  <2>1. CASE w + n = d
    <3>1. CASE DigitBit(b) \in tape[free - 1]
      <4>1. w + n - 1 = free
        BY <1>2, <1>7, <1>8, <1>12, <1>14, <2>1, <3>1
      <4> QED
        BY <1>7, <4>1
    <3>2. CASE DigitBit(b) \notin tape[free - 1]
      <4>1. w + n - 1 = free - 1
        BY <1>2, <1>7, <1>8, <1>12, <1>14, <2>1, <3>2
      <4> QED
        BY <3>2, <4>1
    <3> QED
      BY <3>1, <3>2
  <2>2. CASE w + n # d
    <3>1. w + n - 1 = free
      BY <1>2, <1>7, <1>12, <1>13, <2>2
    <3> QED
      BY <1>7, <3>1
  <2> QED
    BY <2>1, <2>2
<1> QED
  BY <1>1, <1>10, <1>14, <1>15, <1>16

\* What a character leaves behind the start of its digit.
LEMMA PutIs ==
  ASSUME NEW tape, NEW b \in Byte, NEW s \in Nat, s + 22 < BLOCKSIZE,
         EmptyBehind(tape, s), Put(tape, b, s)
  PROVE  c_start' \in s..(s + 12) /\ EmptyBehind(buffer', c_start')
<1>1. PICK w : w = where_to_write_in_buffer(tape, b, s)
  OBVIOUS
<1>2. PICK c : c = to_full_code(b)
  OBVIOUS
<1>3. c.ones \in 0..3 /\ c.count \in 1..11 /\ c.ones = Ones(b)
  BY <1>2, FullCodeIs
<1>4. w \in Nat /\ w + c.ones \in s..(s + 12)
  <2>1. BLOCKSIZE \in Nat /\ s + 11 <= BLOCKSIZE
    BY SizeAssumption
  <2> QED
    BY <1>1, <1>3, <2>1, WhereIs
<1>5. PICK x : x = w + c.ones
  OBVIOUS
<1>6. x \in s..(s + 12)
  BY <1>4, <1>5
<1>7. c_start' = x /\ buffer' = write_to_buffer(tape, c, w)
  BY <1>1, <1>2, <1>5 DEF Put
<1>8. ASSUME NEW i \in (x + 11)..BLOCKSIZE
      PROVE  buffer'[i] = {}
  <2>1. i \in (s + 11)..BLOCKSIZE /\ i \in Positions
    BY <1>6, SizeAssumption DEF Positions
  <2>2. tape[i] = {}
    BY <2>1 DEF EmptyBehind
  <2>3. i \notin w..(w + c.ones - 1) /\ i \notin (w + c.ones)..(w + c.ones + c.count - 1)
    BY <1>3, <1>4, <1>5, <1>6
  <2> QED
    BY <1>7, <2>1, <2>2, <2>3 DEF write_to_buffer
<1> QED
  BY <1>6, <1>7, <1>8 DEF EmptyBehind

-----------------------------------------------------------------------------
(* encrypt *)

\* What the sizes mean.
LEMMA Sizes ==
  ASSUME RoomAssumption
  PROVE  /\ BLOCKSIZE \in Nat /\ BUFFER_SIZE \in Nat /\ Step \in Nat
         /\ BLOCKSIZE = Step + BUFFER_SIZE /\ BUFFER_SIZE >= 23 /\ Step >= 12
  BY SizeAssumption DEF RoomAssumption, Step

\* A character that is taken is a byte.
LEMMA TakenIs ==
  ASSUME EncryptInv, mode = "encrypt", taken < Len(text)
  PROVE  text[taken + 1] \in Byte /\ taken + 1 \in 0..Len(text)
<1>1. text \in Seq(Byte)
  BY TextsAssumption DEF EncryptInv
<1>2. PICK n : n = Len(text)
  OBVIOUS
<1>3. n \in Nat /\ taken \in 0..n /\ taken < n
  BY <1>1, <1>2 DEF EncryptInv
<1>4. taken + 1 \in 1..n
  BY <1>3
<1> QED
  BY <1>1, <1>2, <1>4

\* The tape that was rolled is empty behind the last digit's start, too.
LEMMA RolledEmpty ==
  ASSUME RoomAssumption, NEW tape, NEW s \in 0..(Step + 11), s >= Step, EmptyBehind(tape, s)
  PROVE  EmptyBehind(Rolled(tape), s - Step)
<1> SUFFICES ASSUME NEW i \in (s - Step + 11)..BLOCKSIZE PROVE Rolled(tape)[i] = {}
  BY DEF EmptyBehind
<1>1. i \in Positions /\ i # -1 /\ i \in Nat
  BY Sizes DEF Positions
<1>2. CASE i = BLOCKSIZE
  <2>1. BLOCKSIZE \in (s + 11)..BLOCKSIZE
    BY Sizes
  <2> QED
    BY <1>1, <1>2, <2>1 DEF EmptyBehind, Rolled
<1>3. CASE i # BLOCKSIZE /\ i < BUFFER_SIZE
  <2>1. i + Step \in (s + 11)..BLOCKSIZE
    BY <1>1, <1>3, Sizes
  <2>2. tape[i + Step] = {}
    BY <2>1 DEF EmptyBehind
  <2> QED
    BY <1>1, <1>3, <2>2 DEF Rolled
<1>4. CASE i # BLOCKSIZE /\ ~(i < BUFFER_SIZE)
  BY <1>1, <1>4 DEF Rolled
<1> QED
  BY <1>2, <1>3, <1>4

\* Where encrypt finds the end of the last press.
LEMMA FirstEmptyIs ==
  ASSUME NEW tape, NEW x \in Nat, x + 11 <= BLOCKSIZE, EmptyBehind(tape, x)
  PROVE  /\ FirstEmpty(tape, x) \in x..(x + 11)
         /\ tape[FirstEmpty(tape, x)] = {}
<1>1. PICK T : T = {i \in x..BLOCKSIZE : tape[i] = {}}
  OBVIOUS
<1>2. BLOCKSIZE \in Nat
  BY SizeAssumption
<1>3. x + 11 \in (x + 11)..BLOCKSIZE /\ x + 11 \in x..BLOCKSIZE
  BY <1>2
<1>4. x + 11 \in T /\ T \in SUBSET (x..BLOCKSIZE)
  BY <1>1, <1>3 DEF EmptyBehind
<1>5. PICK f : f = FirstEmpty(tape, x)
  OBVIOUS
<1>6. f = Min(T \cup {BLOCKSIZE + 1})
  BY <1>1, <1>5 DEF FirstEmpty, First
<1>7. f \in T /\ f \in x..(x + 11)
  BY <1>2, <1>4, <1>6, FoundIs
<1> QED
  BY <1>1, <1>5, <1>7

\* At the start the tape is empty.
LEMMA InitEncrypt ==
  ASSUME RoomAssumption, Init
  PROVE  EncryptInv
<1>1. text \in Texts /\ taken = 0 /\ c_start = 0 /\ buffer = [Empty EXCEPT ![-1] = Full]
  BY DEF Init
<1>2. Len(text) \in Nat
  BY <1>1, TextsAssumption
<1>3. EmptyBehind(buffer, 0)
  <2> SUFFICES ASSUME NEW i \in 11..BLOCKSIZE PROVE buffer[i] = {}
    BY DEF EmptyBehind
  <2>1. i \in Positions /\ i # -1
    BY Sizes DEF Positions
  <2> QED
    BY <1>1, <2>1 DEF Empty
<1> QED
  BY <1>1, <1>2, <1>3, Sizes DEF EncryptInv

\* The next character, on the tape.
LEMMA EncryptStep ==
  ASSUME RoomAssumption, EncryptInv, Encrypt
  PROVE  EncryptInv'
<1>1. mode = "encrypt" /\ taken < Len(text) /\ taken' = taken + 1 /\ text' = text
  BY DEF Encrypt
<1>2. text[taken + 1] \in Byte /\ taken + 1 \in 0..Len(text)
  BY <1>1, TakenIs
<1>3. c_start \in Nat /\ c_start < Step /\ EmptyBehind(buffer, c_start)
  BY <1>1 DEF Encrypt, EncryptInv
<1>4. c_start' \in c_start..(c_start + 12) /\ EmptyBehind(buffer', c_start')
  <2>1. c_start + 22 < BLOCKSIZE
    BY <1>3, Sizes
  <2> QED
    BY <1>2, <1>3, <2>1, PutIs DEF Encrypt
<1>5. c_start' \in 0..(Step + 11)
  BY <1>3, <1>4, Sizes
<1> QED
  BY <1>1, <1>2, <1>4, <1>5 DEF EncryptInv

\* The next character, on the tape that was rolled.
LEMMA EncryptRollStep ==
  ASSUME RoomAssumption, EncryptInv, EncryptRoll
  PROVE  EncryptInv'
<1>1. mode = "encrypt" /\ taken < Len(text) /\ taken' = taken + 1 /\ text' = text
  BY DEF EncryptRoll
<1>2. text[taken + 1] \in Byte /\ taken + 1 \in 0..Len(text)
  BY <1>1, TakenIs
<1>3. PICK s : s = c_start - Step
  OBVIOUS
<1>4. c_start \in 0..(Step + 11) /\ c_start >= Step /\ EmptyBehind(buffer, c_start)
  BY <1>1 DEF EncryptRoll, EncryptInv
<1>5. s \in 0..11
  BY <1>3, <1>4, Sizes
<1>6. EmptyBehind(Rolled(buffer), s)
  BY <1>3, <1>4, RolledEmpty
<1>7. c_start' \in s..(s + 12) /\ EmptyBehind(buffer', c_start')
  <2>1. s \in Nat /\ s + 22 < BLOCKSIZE
    BY <1>5, Sizes
  <2>2. Put(Rolled(buffer), text[taken + 1], s)
    BY <1>3 DEF EncryptRoll
  <2> QED
    BY <1>2, <1>6, <2>1, <2>2, PutIs
<1>8. c_start' \in 0..(Step + 11)
  BY <1>5, <1>7, Sizes
<1> QED
  BY <1>1, <1>2, <1>7, <1>8 DEF EncryptInv

\* decrypt does not encrypt.
LEMMA GotIs ==
  ASSUME NEW tape, NEW x, Got(read_from_buffer(tape, x))
  PROVE  mode' # "encrypt"
<1>1. PICK g : g = read_from_buffer(tape, x)
  OBVIOUS
<1>2. g.kind \in {"end", "code", "error"}
  BY <1>1 DEF read_from_buffer
<1> QED
  BY <1>1, <1>2 DEF Got

\* Every step keeps the start of the last digit near, and the tape behind it empty.
LEMMA NextEncrypt == RoomAssumption /\ EncryptInv /\ [Next]_vars => EncryptInv'
<1> SUFFICES ASSUME RoomAssumption, EncryptInv, [Next]_vars PROVE EncryptInv'
  OBVIOUS
<1>1. CASE Encrypt
  BY <1>1, EncryptStep
<1>2. CASE EncryptRoll
  BY <1>2, EncryptRollStep
<1>3. CASE EncryptEnd
  <2>1. text' = text
    BY <1>3 DEF EncryptEnd
  <2>2. PICK tape : Got(read_from_buffer(tape, 0))
    BY <1>3 DEF EncryptEnd
  <2> QED
    BY <2>1, <2>2, GotIs DEF EncryptInv
<1>4. CASE Decrypt
  <2>1. text' = text /\ Got(read_from_buffer(buffer, c_start))
    BY <1>4 DEF Decrypt
  <2> QED
    BY <2>1, GotIs DEF EncryptInv
<1>5. CASE DecryptRoll
  BY <1>5 DEF DecryptRoll, EncryptInv
<1>6. CASE UNCHANGED vars
  BY <1>6 DEF vars, EncryptInv, EmptyBehind
<1> QED
  BY <1>1, <1>2, <1>3, <1>4, <1>5, <1>6 DEF Next, Finished

\* The invariant leaves room for the end of the last code.
LEMMA InvRoom ==
  ASSUME RoomAssumption, EncryptInv
  PROVE  RoomToEncrypt
<1> SUFFICES ASSUME mode = "encrypt"
             PROVE  buffer[BLOCKSIZE] = {} /\ FirstEmpty(buffer, c_start) < BLOCKSIZE
  BY DEF RoomToEncrypt
<1>1. c_start \in 0..(Step + 11) /\ EmptyBehind(buffer, c_start)
  BY DEF EncryptInv
<1>2. c_start \in Nat /\ c_start + 11 <= BLOCKSIZE /\ BLOCKSIZE \in (c_start + 11)..BLOCKSIZE
  BY <1>1, Sizes
<1>3. buffer[BLOCKSIZE] = {}
  BY <1>1, <1>2 DEF EmptyBehind
<1>4. PICK f : f = FirstEmpty(buffer, c_start)
  OBVIOUS
<1>5. f \in c_start..(c_start + 11)
  BY <1>1, <1>2, <1>4, FirstEmptyIs
<1>6. f < BLOCKSIZE
  BY <1>1, <1>5, Sizes
<1> QED
  BY <1>3, <1>4, <1>6

\* encrypt writes nothing behind its buffer, whatever the text.
THEOREM StaysInBuffer == ASSUME RoomAssumption PROVE Spec => []RoomToEncrypt
<1>1. Init => EncryptInv
  BY InitEncrypt
<1>2. EncryptInv /\ [Next]_vars => EncryptInv'
  BY NextEncrypt
<1>3. EncryptInv => RoomToEncrypt
  BY InvRoom
<1> QED
  BY <1>1, <1>2, <1>3, PTL DEF Spec

-----------------------------------------------------------------------------
(* The codes of a text on a tape without end                               *)
(*                                                                         *)
(* S[k] is where the digit of the k-th code starts, S[0] the start of the  *)
(* tape.                                                                   *)

CodeOf(t, k) == to_full_code(t[k])

\* Where the key "1" is down for the k-th code, and where its digit is.
OnesOf(t, S, k) == (S[k] - CodeOf(t, k).ones)..(S[k] - 1)
DigitsOf(t, S, k) == S[k]..(S[k] + CodeOf(t, k).count - 1)

\* The first n codes of t can be told apart: no code starts before the digit of
\* the one before, nor with it unless both have ones; and digits that are the
\* same have a gap between them.
Apart(t, n, S) ==
  /\ t \in Seq(Byte) /\ n \in 0..Len(t)
  /\ S \in [0..n -> Nat] /\ S[0] = 0
  /\ \A j, k \in 0..n : j < k => S[j] < S[k]
  /\ \A k \in 1..n :
       /\ S[k] <= S[k - 1] + 12
       /\ S[k - 1] <= S[k] - CodeOf(t, k).ones
       /\ k > 1 /\ CodeOf(t, k).ones > 0 /\ CodeOf(t, k - 1).ones = 0
            => S[k - 1] < S[k] - CodeOf(t, k).ones
  /\ \A j, k \in 1..n :
       j < k /\ CodeOf(t, j).digit = CodeOf(t, k).digit
         => S[j] + CodeOf(t, j).count < S[k]

\* The bits at position i.
On(t, n, S, i) ==
  {b \in Bit : \E k \in 1..n : \/ b = One /\ i \in OnesOf(t, S, k)
                               \/ b = CodeOf(t, k).digit /\ i \in DigitsOf(t, S, k)}

\* S with the next digit at p.
Longer(S, n, p) == [k \in 0..(n + 1) |-> IF k <= n THEN S[k] ELSE p]

\* The codes of a text.
LEMMA CodeOfIs ==
  ASSUME NEW t \in Seq(Byte), NEW k \in 1..Len(t)
  PROVE  /\ t[k] \in Byte
         /\ CodeOf(t, k).ones \in 0..3 /\ CodeOf(t, k).digit \in Digit
         /\ CodeOf(t, k).count \in 1..11
<1>1. t[k] \in Byte
  OBVIOUS
<1> QED
  BY <1>1, FullCodeIs, DigitIs DEF CodeOf

\* Codes that are apart have their numbers and places.
LEMMA ApartIs ==
  ASSUME NEW t, NEW n, NEW S, Apart(t, n, S), NEW k \in 1..n
  PROVE  /\ n \in Nat /\ k \in 1..Len(t) /\ k \in 0..n /\ k - 1 \in 0..n
         /\ S[k] \in Nat /\ S[k - 1] \in Nat /\ S[k - 1] < S[k] /\ S[k] <= S[n]
         /\ CodeOf(t, k).ones \in 0..3 /\ CodeOf(t, k).digit \in Digit
         /\ CodeOf(t, k).count \in 1..11
<1>1. t \in Seq(Byte) /\ n \in 0..Len(t) /\ Len(t) \in Nat
  BY DEF Apart
<1>2. n \in Nat /\ k \in 1..Len(t) /\ k \in 0..n /\ k - 1 \in 0..n /\ n \in 0..n
  BY <1>1
<1>3. S[k] \in Nat /\ S[k - 1] \in Nat /\ S[n] \in Nat
  BY <1>2 DEF Apart
<1>4. S[k - 1] < S[k]
  <2>1. k - 1 < k
    OBVIOUS
  <2> QED
    BY <1>2, <2>1 DEF Apart
<1>5. S[k] <= S[n]
  <2>1. CASE k = n
    BY <1>3, <2>1
  <2>2. CASE k < n
    BY <1>2, <1>3, <2>2 DEF Apart
  <2> QED
    BY <1>2, <2>1, <2>2
<1> QED
  BY <1>1, <1>2, <1>3, <1>4, <1>5, CodeOfIs

\* No codes.
LEMMA NoneApart ==
  ASSUME NEW t \in Seq(Byte)
  PROVE  /\ Apart(t, 0, [k \in 0..0 |-> 0])
         /\ \A i : On(t, 0, [k \in 0..0 |-> 0], i) = {}
  BY DEF Apart, On

\* The next code, if its digit is not where the same digit was just before.
LEMMA LongerApart ==
  ASSUME NEW t, NEW n, NEW S, Apart(t, n, S), n + 1 \in 1..Len(t), NEW p \in Nat,
         S[n] < p, p <= S[n] + 12, S[n] <= p - CodeOf(t, n + 1).ones,
         n > 0 /\ CodeOf(t, n + 1).ones > 0 /\ CodeOf(t, n).ones = 0
           => S[n] < p - CodeOf(t, n + 1).ones,
         CodeOf(t, n + 1).digit \notin On(t, n, S, p - 1)
  PROVE  Apart(t, n + 1, Longer(S, n, p))
<1>1. PICK R : R = Longer(S, n, p)
  OBVIOUS
<1>2. t \in Seq(Byte) /\ n \in Nat /\ n + 1 \in 0..Len(t)
  BY DEF Apart
<1>3. R \in [0..(n + 1) -> Nat] /\ R[n + 1] = p /\ \A k \in 0..n : R[k] = S[k] /\ S[k] \in Nat
  BY <1>1, <1>2 DEF Longer, Apart
<1>4. R[0] = 0
  BY <1>2, <1>3 DEF Apart
<1>5. ASSUME NEW j \in 0..(n + 1), NEW k \in 0..(n + 1), j < k
      PROVE  R[j] < R[k]
  <2>1. CASE k <= n
    <3>1. j \in 0..n /\ k \in 0..n
      BY <1>2, <1>5, <2>1
    <3>2. S[j] < S[k]
      BY <1>5, <3>1 DEF Apart
    <3> QED
      BY <1>3, <3>1, <3>2
  <2>2. CASE k = n + 1
    <3>1. j \in 0..n /\ n \in 0..n
      BY <1>2, <1>5, <2>2
    <3>2. S[j] <= S[n]
      <4>1. j = n \/ j < n
        BY <1>2, <3>1
      <4> QED
        BY <1>3, <3>1, <4>1 DEF Apart
    <3> QED
      BY <1>3, <2>2, <3>1, <3>2
  <2> QED
    BY <1>2, <2>1, <2>2
<1>6. ASSUME NEW k \in 1..(n + 1)
      PROVE  /\ R[k] <= R[k - 1] + 12
             /\ R[k - 1] <= R[k] - CodeOf(t, k).ones
             /\ k > 1 /\ CodeOf(t, k).ones > 0 /\ CodeOf(t, k - 1).ones = 0
                  => R[k - 1] < R[k] - CodeOf(t, k).ones
  <2>1. CASE k <= n
    <3>1. k \in 1..n /\ k \in 0..n /\ k - 1 \in 0..n
      BY <1>2, <2>1
    <3> QED
      BY <1>3, <3>1 DEF Apart
  <2>2. CASE k = n + 1
    <3>1. k - 1 = n /\ n \in 0..n /\ (k > 1 => n > 0)
      BY <1>2, <2>2
    <3>2. R[k] = p /\ R[k - 1] = S[n]
      BY <1>3, <2>2, <3>1
    <3> QED
      BY <2>2, <3>1, <3>2
  <2> QED
    BY <1>2, <2>1, <2>2
<1>7. ASSUME NEW j \in 1..(n + 1), NEW k \in 1..(n + 1), j < k,
             CodeOf(t, j).digit = CodeOf(t, k).digit
      PROVE  R[j] + CodeOf(t, j).count < R[k]
  <2>1. CASE k <= n
    <3>1. j \in 1..n /\ k \in 1..n /\ j \in 0..n /\ k \in 0..n
      BY <1>2, <1>7, <2>1
    <3>2. S[j] + CodeOf(t, j).count < S[k]
      BY <1>7, <3>1 DEF Apart
    <3> QED
      BY <1>3, <3>1, <3>2
  <2>2. CASE k = n + 1
    <3>1. j \in 1..n /\ j \in 0..n
      BY <1>2, <1>7, <2>2
    <3>2. S[j] \in Nat /\ S[j] <= S[n] /\ S[n] \in Nat
          /\ CodeOf(t, j).count \in 1..11 /\ CodeOf(t, j).digit \in Digit
      BY <1>2, <1>3, <3>1, ApartIs
    <3>3. R[j] = S[j] /\ R[k] = p
      BY <1>3, <2>2, <3>1
    <3>4. PICK c, a, z : c = CodeOf(t, j).count /\ a = S[j] /\ z = S[n]
      OBVIOUS
    <3>5. CASE S[j] + c < p
      BY <3>3, <3>4, <3>5
    <3>6. CASE ~(S[j] + c < p)
      <4>1. p - 1 \in S[j]..(S[j] + c - 1)
        <5>1. a \in Nat /\ z \in Nat /\ c \in 1..11 /\ a <= z /\ z < p /\ ~(a + c < p)
          BY <3>2, <3>4, <3>6
        <5>2. p - 1 \in a..(a + c - 1)
          BY <5>1
        <5> QED
          BY <3>4, <5>2
      <4>2. CodeOf(t, n + 1).digit = CodeOf(t, j).digit
        BY <1>7, <2>2
      <4> QED
        BY <3>1, <3>2, <3>4, <4>1, <4>2 DEF On, DigitsOf, Digit
    <3> QED
      BY <3>5, <3>6
  <2> QED
    BY <1>2, <2>1, <2>2
<1> QED
  BY <1>1, <1>2, <1>3, <1>4, <1>5, <1>6, <1>7 DEF Apart

\* The bits that the next code adds.
LEMMA LongerOn ==
  ASSUME NEW t, NEW n, NEW S, Apart(t, n, S), n + 1 \in 1..Len(t), NEW p \in Nat, NEW i
  PROVE  On(t, n + 1, Longer(S, n, p), i) =
           On(t, n, S, i)
             \cup (IF i \in (p - CodeOf(t, n + 1).ones)..(p - 1) THEN {One} ELSE {})
             \cup (IF i \in p..(p + CodeOf(t, n + 1).count - 1)
                     THEN {CodeOf(t, n + 1).digit} ELSE {})
<1>1. PICK R : R = Longer(S, n, p)
  OBVIOUS
<1>2. t \in Seq(Byte) /\ n \in Nat
  BY DEF Apart
<1>3. R[n + 1] = p /\ \A k \in 1..n : R[k] = S[k]
  BY <1>1, <1>2 DEF Longer
<1>4. /\ OnesOf(t, R, n + 1) = (p - CodeOf(t, n + 1).ones)..(p - 1)
      /\ DigitsOf(t, R, n + 1) = p..(p + CodeOf(t, n + 1).count - 1)
  BY <1>3 DEF OnesOf, DigitsOf
<1>5. \A k \in 1..n : OnesOf(t, R, k) = OnesOf(t, S, k) /\ DigitsOf(t, R, k) = DigitsOf(t, S, k)
  BY <1>3 DEF OnesOf, DigitsOf
<1>6. One \in Bit /\ CodeOf(t, n + 1).digit \in Bit
  BY <1>2, CodeOfIs DEF Digit, Bit, One
<1>7. \A k : k \in 1..(n + 1) <=> k \in 1..n \/ k = n + 1
  BY <1>2
<1> QED
  BY <1>1, <1>4, <1>5, <1>6, <1>7 DEF On

\* Nothing is on the tape 11 bytes behind the last digit's start, nor behind a
\* byte that is empty there.
LEMMA OffBehind ==
  ASSUME NEW t, NEW n, NEW S, Apart(t, n, S), NEW i \in Nat
  PROVE  /\ i >= S[n] + 11 => On(t, n, S, i) = {}
         /\ \A l \in Nat : S[n] <= l /\ l <= i /\ On(t, n, S, l) = {} => On(t, n, S, i) = {}
<1>1. ASSUME NEW b \in On(t, n, S, i), i >= S[n]
      PROVE  /\ i < S[n] + 11
             /\ \A l \in Nat : S[n] <= l /\ l <= i => b \in On(t, n, S, l)
  <2>1. PICK k \in 1..n : \/ b = One /\ i \in OnesOf(t, S, k)
                          \/ b = CodeOf(t, k).digit /\ i \in DigitsOf(t, S, k)
    BY DEF On
  <2>2. /\ S[k] \in Nat /\ S[k] <= S[n] /\ S[n] \in Nat
        /\ CodeOf(t, k).ones \in 0..3 /\ CodeOf(t, k).count \in 1..11
    <3>1. n \in 0..n /\ n \in Nat
      BY DEF Apart
    <3> QED
      BY <3>1, ApartIs DEF Apart
  <2>3. b = CodeOf(t, k).digit /\ i \in DigitsOf(t, S, k)
    BY <1>1, <2>1, <2>2 DEF OnesOf
  <2>4. i < S[n] + 11
    BY <1>1, <2>2, <2>3 DEF DigitsOf
  <2>5. ASSUME NEW l \in Nat, S[n] <= l, l <= i PROVE b \in On(t, n, S, l)
    <3>1. l \in DigitsOf(t, S, k)
      BY <2>2, <2>3, <2>5 DEF DigitsOf
    <3>2. b \in Bit
      BY DEF On
    <3> QED
      BY <2>3, <3>1, <3>2 DEF On
  <2> QED
    BY <2>4, <2>5
<1>2. S[n] \in Nat
  BY DEF Apart
<1>3. i >= S[n] + 11 => On(t, n, S, i) = {}
  BY <1>1, <1>2
<1>4. ASSUME NEW l \in Nat, S[n] <= l, l <= i, On(t, n, S, l) = {} PROVE On(t, n, S, i) = {}
  BY <1>1, <1>2, <1>4
<1> QED
  BY <1>3, <1>4

\* No ones are right before a digit that has none.
LEMMA NoOneBefore ==
  ASSUME NEW t, NEW n, NEW S, Apart(t, n, S), n > 0, CodeOf(t, n).ones = 0
  PROVE  One \notin On(t, n, S, S[n] - 1)
<1> SUFFICES ASSUME One \in On(t, n, S, S[n] - 1) PROVE FALSE
  OBVIOUS
<1>1. n \in Nat /\ n \in 1..n
  BY DEF Apart
<1>2. PICK k \in 1..n : \/ S[n] - 1 \in OnesOf(t, S, k)
                        \/ One = CodeOf(t, k).digit
  BY DEF On
<1>3. /\ S[k] \in Nat /\ S[k] <= S[n] /\ S[n] \in Nat /\ CodeOf(t, k).ones \in 0..3
      /\ CodeOf(t, k).digit \in Digit
  BY <1>1, ApartIs
<1>4. S[n] - 1 \in OnesOf(t, S, k)
  BY <1>2, <1>3 DEF Digit
<1>5. S[k] >= S[n]
  BY <1>3, <1>4 DEF OnesOf
<1>6. k = n
  <2>1. k \in 0..n /\ n \in 0..n /\ (k < n => S[k] < S[n])
    BY <1>1 DEF Apart
  <2> QED
    BY <1>3, <1>5, <2>1
<1> QED
  BY <1>3, <1>4, <1>6 DEF OnesOf

-----------------------------------------------------------------------------
(* encrypt lays the codes of the text *)

\* A code of count 11 is put on or right behind no run of its digit, though
\* where_to_write_in_buffer looks for another (README, departures).
ElevenApart(tape, b, s) ==
  to_full_code(b).count = 11 =>
    to_full_code(b).digit \notin tape[where_to_write_in_buffer(tape, b, s) - 1]

\* What encrypt does at a character tells it apart from those before: of the
\* departures, neither a code of count 11 joins another, nor do ones at the
\* first byte of a block start with the digit of a code that has none.
ToldApart ==
  /\ Encrypt => ElevenApart(buffer, text[taken + 1], c_start)
  /\ EncryptRoll =>
       /\ ElevenApart(Rolled(buffer), text[taken + 1], c_start - Step)
       /\ c_start = Step /\ Ones(text[taken + 1]) > 0 /\ One \notin buffer[Step - 1]
            => where_to_write_in_buffer(Rolled(buffer), text[taken + 1], 0) > 0

\* A tape that begins at position off has the first n codes, and so have the
\* bytes that went out.
Shows(tape, off, t, n, S) == \A i \in 0..BLOCKSIZE : tape[i] = On(t, n, S, off + i)
Sent(bytes, t, n, S) ==
  /\ bytes \in Seq(SUBSET Bit)
  /\ \A i \in 1..Len(bytes) : bytes[i] = On(t, n, S, i - 1)

\* The next code can be put, from s on.
Ready(tape, off, s, t, n, S) ==
  /\ Apart(t, n, S) /\ n + 1 \in 1..Len(t)
  /\ off \in Nat /\ s \in Nat /\ off + s = S[n] /\ s + 22 < BLOCKSIZE
  /\ Shows(tape, off, t, n, S) /\ tape[-1] = Full /\ EmptyBehind(tape, s)
  /\ ElevenApart(tape, t[n + 1], s)
  /\ s = 0 /\ n > 0 /\ CodeOf(t, n + 1).ones > 0 /\ CodeOf(t, n).ones = 0
       => where_to_write_in_buffer(tape, t[n + 1], s) > 0

\* What is on the tape, and what has gone out, are the first codes of the text.
Laid(S) ==
  /\ Apart(text, taken, S)
  /\ Sent(ciphertext, text, taken, S)
  /\ Shows(buffer, Len(ciphertext), text, taken, S) /\ buffer[-1] = Full
  /\ Len(ciphertext) + c_start = S[taken]
  /\ taken > 0 => c_start > 0

\* While encrypt runs its tape shows the codes of what it has taken.
LaidInv == mode = "encrypt" => \E S : Laid(S)

\* Where the next code is put it is apart from the others.
LEMMA PlaceApart ==
  ASSUME NEW tape, NEW off, NEW s, NEW t, NEW n, NEW S, Ready(tape, off, s, t, n, S)
  PROVE  LET w == where_to_write_in_buffer(tape, t[n + 1], s)
             p == w + CodeOf(t, n + 1).ones
         IN /\ w \in s..(s + 12) /\ p \in (s + 1)..(s + 12)
            /\ Apart(t, n + 1, Longer(S, n, off + p))
<1>0. /\ Apart(t, n, S) /\ n + 1 \in 1..Len(t)
      /\ off \in Nat /\ s \in Nat /\ off + s = S[n] /\ s + 22 < BLOCKSIZE
      /\ \A i \in 0..BLOCKSIZE : tape[i] = On(t, n, S, off + i)
      /\ tape[-1] = Full /\ EmptyBehind(tape, s)
      /\ ElevenApart(tape, t[n + 1], s)
      /\ s = 0 /\ n > 0 /\ CodeOf(t, n + 1).ones > 0 /\ CodeOf(t, n).ones = 0
           => where_to_write_in_buffer(tape, t[n + 1], s) > 0
  BY DEF Ready, Shows
<1> USE <1>0
<1>1. PICK w : w = where_to_write_in_buffer(tape, t[n + 1], s)
  OBVIOUS
<1>2. PICK o : o = CodeOf(t, n + 1).ones
  OBVIOUS
<1>3. PICK d : d = CodeOf(t, n + 1).digit
  OBVIOUS
<1>4. PICK b : b = t[n + 1]
  OBVIOUS
<1>5. t \in Seq(Byte) /\ n \in Nat /\ S[n] \in Nat /\ BLOCKSIZE \in Nat
  BY SizeAssumption DEF Apart
<1>6. b \in Byte /\ o \in 0..3 /\ o = Ones(b) /\ d \in Digit /\ d = to_full_code(b).digit
  BY <1>2, <1>3, <1>4, <1>5, CodeOfIs, FullCodeIs DEF CodeOf
<1>7. /\ w \in s..(s + 12) /\ w + o \in s..(s + 12)
      /\ o = 0 \/ One \notin tape[s - 1] => w > s
      /\ DigitBit(b) \notin tape[w + o - 1]
  <2>1. s + 11 <= BLOCKSIZE
    BY <1>5
  <2> QED
    BY <1>1, <1>4, <1>6, <2>1, WhereIs
<1>8. w + o > s
  BY <1>6, <1>7
<1>9. w + o - 1 \in 0..BLOCKSIZE
  <2>1. BLOCKSIZE \in Nat /\ o \in 0..3 /\ w \in s..(s + 12)
    BY <1>5, <1>6, <1>7
  <2>2. w + o <= s + 12
    BY <1>7, <2>1
  <2> QED
    BY <1>8, <2>1, <2>2
<1>10. d \notin tape[w + o - 1]
  <2>1. CASE to_full_code(b).count # 11
    BY <1>6, <1>7, <2>1, DigitIs
  <2>2. CASE to_full_code(b).count = 11
    <3>1. o = 0
      BY <1>2, <1>4, <1>6, <2>2, DigitIs, FullCodeIs
    <3>2. w + o - 1 = w - 1
      BY <1>7, <3>1
    <3> QED
      BY <1>1, <1>4, <1>6, <2>2, <3>2 DEF ElevenApart
  <2> QED
    BY <2>1, <2>2
<1>11. PICK p \in Nat : p = w + o
  BY <1>6, <1>7
<1>12. off + p \in Nat /\ S[n] < off + p /\ off + p <= S[n] + 12 /\ S[n] <= off + p - o
  <2>1. PICK z : z = S[n]
    OBVIOUS
  <2>2. z \in Nat /\ off + s = z /\ o \in 0..3 /\ w \in s..(s + 12) /\ w + o > s /\ w + o <= s + 12
    BY <1>5, <1>6, <1>7, <1>8, <2>1
  <2>3. off + p \in Nat /\ z < off + p /\ off + p <= z + 12 /\ z <= off + p - o
    BY <1>11, <2>2
  <2> QED
    BY <2>1, <2>3
<1>13. d \notin On(t, n, S, off + p - 1)
  <2>1. off + (w + o - 1) = off + p - 1
    BY <1>6, <1>7, <1>11
  <2>2. tape[w + o - 1] = On(t, n, S, off + (w + o - 1))
    BY <1>9
  <2> QED
    BY <1>10, <2>1, <2>2
<1>14. ASSUME n > 0, o > 0, CodeOf(t, n).ones = 0
       PROVE  S[n] < off + p - o
  <2>1. w > s
    <3>1. CASE s = 0
      BY <1>1, <1>2, <1>14, <3>1
    <3>2. CASE s > 0
      <4>1. s - 1 \in 0..BLOCKSIZE /\ off + (s - 1) = S[n] - 1
        BY <1>5, <3>2
      <4>2. One \notin On(t, n, S, S[n] - 1)
        BY <1>14, NoOneBefore
      <4>3. tape[s - 1] = On(t, n, S, off + (s - 1))
        BY <4>1
      <4> QED
        BY <1>7, <4>1, <4>2, <4>3
    <3> QED
      BY <3>1, <3>2
  <2>2. w \in Nat /\ o \in 0..3 /\ p = w + o /\ off \in Nat /\ s \in Nat /\ off + s = S[n]
    BY <1>6, <1>7, <1>11
  <2>3. off + s < off + p - o
    BY <2>1, <2>2
  <2> QED
    BY <2>2, <2>3
<1>15. Apart(t, n + 1, Longer(S, n, off + p))
  <2>1. PICK q : q = off + p
    OBVIOUS
  <2>2. q \in Nat /\ S[n] < q /\ q <= S[n] + 12 /\ S[n] <= q - CodeOf(t, n + 1).ones
    <3>1. q \in Nat /\ S[n] < q /\ q <= S[n] + 12 /\ S[n] <= q - o
      BY <1>5, <1>6, <1>12, <2>1
    <3> QED
      BY <1>2, <3>1
  <2>3. n > 0 /\ CodeOf(t, n + 1).ones > 0 /\ CodeOf(t, n).ones = 0
          => S[n] < q - CodeOf(t, n + 1).ones
    <3>1. n > 0 /\ o > 0 /\ CodeOf(t, n).ones = 0 => S[n] < q - o
      BY <1>5, <1>6, <1>14, <2>1
    <3> QED
      BY <1>2, <3>1
  <2>4. CodeOf(t, n + 1).digit \notin On(t, n, S, q - 1)
    <3>1. d \notin On(t, n, S, q - 1)
      BY <1>13, <2>1
    <3> QED
      BY <1>3, <3>1
  <2> QED
    BY <2>1, <2>2, <2>3, <2>4, LongerApart
<1> QED
  BY <1>1, <1>2, <1>7, <1>8, <1>11, <1>15

\* What encrypt writes for a character is that code, and leaves the others.
LEMMA PutLaid ==
  ASSUME NEW tape, NEW off, NEW s, NEW t, NEW n, NEW S, Ready(tape, off, s, t, n, S),
         Put(tape, t[n + 1], s)
  PROVE  \E R : /\ Apart(t, n + 1, R)
                /\ c_start' \in Nat /\ c_start' > 0 /\ off + c_start' = R[n + 1]
                /\ \A i \in 0..(off - 1) : On(t, n + 1, R, i) = On(t, n, S, i)
                /\ Shows(buffer', off, t, n + 1, R) /\ buffer'[-1] = Full
<1>0. /\ Apart(t, n, S) /\ n + 1 \in 1..Len(t)
      /\ off \in Nat /\ s \in Nat /\ off + s = S[n] /\ s + 22 < BLOCKSIZE
      /\ \A i \in 0..BLOCKSIZE : tape[i] = On(t, n, S, off + i)
      /\ tape[-1] = Full /\ EmptyBehind(tape, s)
      /\ ElevenApart(tape, t[n + 1], s)
      /\ s = 0 /\ n > 0 /\ CodeOf(t, n + 1).ones > 0 /\ CodeOf(t, n).ones = 0
           => where_to_write_in_buffer(tape, t[n + 1], s) > 0
  BY DEF Ready, Shows
<1> USE <1>0
<1>1. PICK w : w = where_to_write_in_buffer(tape, t[n + 1], s)
  OBVIOUS
<1>2. PICK c : c = CodeOf(t, n + 1)
  OBVIOUS
<1>3. PICK p : p = w + c.ones
  OBVIOUS
<1>4. PICK R : R = Longer(S, n, off + p)
  OBVIOUS
<1>5. PICK o, d, m : o = c.ones /\ d = c.digit /\ m = c.count
  OBVIOUS
<1>6. /\ t \in Seq(Byte) /\ n \in Nat /\ BLOCKSIZE \in Nat
      /\ o \in 0..3 /\ m \in 1..11
  BY <1>2, <1>5, SizeAssumption, CodeOfIs DEF Apart
<1>7. w \in s..(s + 12) /\ p \in (s + 1)..(s + 12) /\ p = w + o /\ Apart(t, n + 1, R)
  BY <1>1, <1>2, <1>3, <1>4, <1>5, PlaceApart
<1>8. c_start' = p /\ buffer' = write_to_buffer(tape, c, w)
  BY <1>1, <1>2, <1>3 DEF Put, CodeOf
<1>9. R[n + 1] = off + p
  BY <1>4, <1>6 DEF Longer
<1>10. ASSUME NEW i
       PROVE  On(t, n + 1, R, i) =
                On(t, n, S, i)
                  \cup (IF i \in (off + p - o)..(off + p - 1) THEN {One} ELSE {})
                  \cup (IF i \in (off + p)..(off + p + m - 1) THEN {d} ELSE {})
  <2>1. PICK q : q = off + p
    OBVIOUS
  <2>2. q \in Nat /\ p \in Nat
    BY <1>7, <2>1
  <2>3. /\ o = CodeOf(t, n + 1).ones /\ d = CodeOf(t, n + 1).digit
        /\ m = CodeOf(t, n + 1).count
    BY <1>2, <1>5
  <2>4. On(t, n + 1, Longer(S, n, q), i) =
          On(t, n, S, i) \cup (IF i \in (q - o)..(q - 1) THEN {One} ELSE {})
                         \cup (IF i \in q..(q + m - 1) THEN {d} ELSE {})
    BY <2>2, <2>3, LongerOn
  <2> QED
    BY <1>4, <1>6, <2>1, <2>2, <2>4
<1>11. ASSUME NEW i \in 0..(off - 1) PROVE On(t, n + 1, R, i) = On(t, n, S, i)
  <2>1. i \notin (off + p - o)..(off + p - 1)
    <3>1. i < off /\ off + p - o = off + w
      BY <1>6, <1>7
    <3> QED
      BY <1>7, <3>1
  <2>2. i \notin (off + p)..(off + p + m - 1)
    BY <1>7
  <2> QED
    BY <1>10, <2>1, <2>2
<1>12. ASSUME NEW i \in Positions
       PROVE  buffer'[i] =
                tape[i] \cup (IF i \in w..(w + o - 1) THEN {One} ELSE {})
                        \cup (IF i \in p..(p + m - 1) THEN {d} ELSE {})
  BY <1>5, <1>7, <1>8 DEF write_to_buffer
<1>13. ASSUME NEW i \in 0..BLOCKSIZE PROVE buffer'[i] = On(t, n + 1, R, off + i)
  <2>1. i \in Positions /\ i \in Nat
    BY DEF Positions
  <2>2. off + i \in (off + p - o)..(off + p - 1) <=> i \in w..(w + o - 1)
    <3>1. off + p - o = off + w /\ off + p - 1 = off + (w + o - 1)
      BY <1>6, <1>7
    <3>2. w \in Nat /\ w + o - 1 \in Int
      BY <1>6, <1>7
    <3> QED
      BY <2>1, <3>1, <3>2
  <2>3. off + i \in (off + p)..(off + p + m - 1) <=> i \in p..(p + m - 1)
    <3>1. off + p + m - 1 = off + (p + m - 1) /\ p \in Nat /\ p + m - 1 \in Int
      BY <1>6, <1>7
    <3> QED
      BY <2>1, <3>1
  <2> QED
    BY <1>10, <1>12, <2>1, <2>2, <2>3
<1>14. buffer'[-1] = Full
  <2>1. -1 \in Positions
    BY <1>6 DEF Positions
  <2>2. -1 \notin w..(w + o - 1) /\ -1 \notin p..(p + m - 1)
    BY <1>6, <1>7
  <2> QED
    BY <1>12, <2>1, <2>2
<1>15. p \in Nat /\ p > 0
  BY <1>7
<1> QED
  BY <1>7, <1>8, <1>9, <1>11, <1>13, <1>14, <1>15 DEF Shows

\* Bytes that go out.
LEMMA WrittenIs ==
  ASSUME NEW t, NEW n, NEW S, NEW out, Sent(out, t, n, S), NEW off, off = Len(out),
         NEW tape, Shows(tape, off, t, n, S), NEW m \in 0..BLOCKSIZE
  PROVE  /\ Sent(out \o Written(tape, m), t, n, S)
         /\ Len(out \o Written(tape, m)) = off + m
<1>0. /\ out \in Seq(SUBSET Bit) /\ off \in Nat
      /\ \A i \in 1..off : out[i] = On(t, n, S, i - 1)
      /\ \A i \in 0..BLOCKSIZE : tape[i] = On(t, n, S, off + i)
  BY DEF Sent, Shows
<1> USE <1>0
<1>1. PICK more : more = Written(tape, m)
  OBVIOUS
<1>2. m \in Nat /\ BLOCKSIZE \in Nat
  BY SizeAssumption
<1>3. ASSUME NEW i \in 1..m PROVE more[i] = On(t, n, S, off + i - 1) /\ more[i] \in SUBSET Bit
  <2>1. i - 1 \in 0..BLOCKSIZE /\ off + (i - 1) = off + i - 1
    BY <1>2
  <2>2. more[i] = tape[i - 1]
    BY <1>1 DEF Written
  <2>3. tape[i - 1] = On(t, n, S, off + (i - 1))
    BY <2>1
  <2> QED
    BY <2>1, <2>2, <2>3 DEF On
<1>4. more \in Seq(SUBSET Bit) /\ Len(more) = m
  <2>1. more = [i \in 1..m |-> more[i]]
    BY <1>1 DEF Written
  <2>2. more \in [1..m -> SUBSET Bit]
    BY <1>3, <2>1
  <2> QED
    BY <1>2, <2>2
<1>5. /\ out \o more \in Seq(SUBSET Bit) /\ Len(out \o more) = off + m
      /\ \A i \in 1..(off + m) :
           (out \o more)[i] = IF i <= off THEN out[i] ELSE more[i - off]
  BY <1>4, ConcatProperties
<1>6. ASSUME NEW i \in 1..(off + m) PROVE (out \o more)[i] = On(t, n, S, i - 1)
  <2>1. i \in Nat /\ i >= 1 /\ i <= off + m
    BY <1>2
  <2>2. CASE i <= off
    <3>1. i \in 1..off /\ (out \o more)[i] = out[i]
      BY <1>5, <2>1, <2>2
    <3> QED
      BY <3>1
  <2>3. CASE ~(i <= off)
    <3>1. i - off \in 1..m /\ off + (i - off) - 1 = i - 1
      BY <1>2, <2>1, <2>3
    <3>2. (out \o more)[i] = more[i - off]
      BY <1>5, <2>3
    <3> QED
      BY <1>3, <3>1, <3>2
  <2> QED
    BY <2>2, <2>3
<1> QED
  BY <1>1, <1>5, <1>6 DEF Sent

\* The next code changes nothing of what went out.
LEMMA SentStays ==
  ASSUME NEW bytes, NEW t, NEW n, NEW S, NEW R, NEW off, off = Len(bytes),
         Sent(bytes, t, n, S),
         \A i \in 0..(off - 1) : On(t, n + 1, R, i) = On(t, n, S, i)
  PROVE  Sent(bytes, t, n + 1, R)
<1>1. bytes \in Seq(SUBSET Bit) /\ off \in Nat
  BY DEF Sent
<1>2. ASSUME NEW i \in 1..off PROVE bytes[i] = On(t, n + 1, R, i - 1)
  <2>1. i - 1 \in 0..(off - 1)
    BY <1>1
  <2>2. bytes[i] = On(t, n, S, i - 1)
    BY DEF Sent
  <2> QED
    BY <2>1, <2>2
<1> QED
  BY <1>1, <1>2 DEF Sent

\* At the start no code is on the tape.
LEMMA InitLaid ==
  ASSUME RoomAssumption, Init
  PROVE  LaidInv
<1>1. /\ text \in Seq(Byte) /\ taken = 0 /\ c_start = 0 /\ ciphertext = <<>>
      /\ buffer = [Empty EXCEPT ![-1] = Full]
  BY TextsAssumption DEF Init
<1>2. PICK S : S = [k \in 0..0 |-> 0]
  OBVIOUS
<1>3. Apart(text, 0, S) /\ \A i : On(text, 0, S, i) = {}
  BY <1>1, <1>2, NoneApart
<1>4. ASSUME NEW i \in 0..BLOCKSIZE PROVE buffer[i] = {}
  <2>1. i \in Positions /\ i # -1
    BY Sizes DEF Positions
  <2> QED
    BY <1>1, <2>1 DEF Empty
<1>5. buffer[-1] = Full
  <2>1. -1 \in Positions
    BY Sizes DEF Positions
  <2> QED
    BY <1>1, <2>1 DEF Empty
<1>6. S[0] = 0 /\ Len(ciphertext) = 0 /\ ciphertext \in Seq(SUBSET Bit)
  BY <1>1, <1>2
<1>7. Shows(buffer, Len(ciphertext), text, 0, S)
  BY <1>3, <1>4 DEF Shows
<1>8. Len(ciphertext) + c_start = S[0]
  BY <1>1, <1>6
<1>9. Sent(ciphertext, text, 0, S)
  BY <1>6 DEF Sent
<1>10. Laid(S)
  BY <1>1, <1>3, <1>5, <1>6, <1>7, <1>8, <1>9 DEF Laid
<1> QED
  BY <1>10 DEF LaidInv

\* The next character.
LEMMA EncryptLaid ==
  ASSUME RoomAssumption, EncryptInv, LaidInv, Encrypt, ToldApart
  PROVE  LaidInv'
<1>1. /\ mode = "encrypt" /\ taken < Len(text) /\ taken' = taken + 1 /\ c_start < Step
      /\ text' = text /\ ciphertext' = ciphertext
      /\ Put(buffer, text[taken + 1], c_start)
  BY DEF Encrypt
<1>2. PICK S : Laid(S)
  BY <1>1 DEF LaidInv
<1>3. PICK n, off : n = taken /\ off = Len(ciphertext)
  OBVIOUS
<1>4. Apart(text, n, S) /\ n \in 0..Len(text) /\ off \in Nat
  BY <1>2, <1>3 DEF Laid, Apart
<1>5. n + 1 \in 1..Len(text)
  BY <1>1, <1>3, <1>4
<1>6. PICK s : s = c_start
  OBVIOUS
<1>7. s \in Nat /\ s + 22 < BLOCKSIZE /\ EmptyBehind(buffer, s) /\ off + s = S[n]
  BY <1>1, <1>2, <1>3, <1>6, Sizes DEF EncryptInv, Laid
<1>8. ~(s = 0 /\ n > 0) /\ buffer[-1] = Full
  BY <1>2, <1>3, <1>6 DEF Laid
<1>9. Shows(buffer, off, text, n, S)
  BY <1>2, <1>3 DEF Laid
<1>10. ElevenApart(buffer, text[n + 1], s)
  BY <1>3, <1>6 DEF ToldApart
<1>11. Ready(buffer, off, s, text, n, S)
  BY <1>4, <1>5, <1>7, <1>8, <1>9, <1>10 DEF Ready
<1>12. PICK R : /\ Apart(text, n + 1, R)
                /\ c_start' \in Nat /\ c_start' > 0 /\ off + c_start' = R[n + 1]
                /\ \A i \in 0..(off - 1) : On(text, n + 1, R, i) = On(text, n, S, i)
                /\ Shows(buffer', off, text, n + 1, R) /\ buffer'[-1] = Full
  <2>1. Put(buffer, text[n + 1], s)
    BY <1>1, <1>3, <1>6
  <2> QED
    BY <1>11, <2>1, PutLaid
<1>13. Sent(ciphertext, text, n + 1, R)
  BY <1>2, <1>3, <1>4, <1>12, SentStays DEF Laid
<1>15. Laid(R)'
  BY <1>1, <1>3, <1>12, <1>13 DEF Laid
<1> QED
  BY <1>15 DEF LaidInv

\* The next character, on the tape that was rolled: nothing moves on the tape
\* without end.
LEMMA EncryptRollLaid ==
  ASSUME RoomAssumption, EncryptInv, LaidInv, EncryptRoll, ToldApart
  PROVE  LaidInv'
<1>1. /\ mode = "encrypt" /\ taken < Len(text) /\ taken' = taken + 1 /\ c_start >= Step
      /\ text' = text /\ ciphertext' = ciphertext \o Written(buffer, Step)
      /\ Put(Rolled(buffer), text[taken + 1], c_start - Step)
  BY DEF EncryptRoll
<1>2. PICK S : Laid(S)
  BY <1>1 DEF LaidInv
<1>3. PICK n, old, off : n = taken /\ old = Len(ciphertext) /\ off = old + Step
  OBVIOUS
<1>4. Apart(text, n, S) /\ n \in 0..Len(text) /\ old \in Nat /\ off \in Nat /\ S[n] \in Nat
  BY <1>2, <1>3, Sizes DEF Laid, Apart
<1>5. n + 1 \in 1..Len(text)
  BY <1>1, <1>3, <1>4
<1>6. PICK s, tape : s = c_start - Step /\ tape = Rolled(buffer)
  OBVIOUS
<1>7. c_start \in 0..(Step + 11) /\ EmptyBehind(buffer, c_start) /\ old + c_start = S[n]
  BY <1>1, <1>2, <1>3 DEF EncryptInv, Laid
<1>8. s \in 0..11 /\ s + 22 < BLOCKSIZE /\ off + s = S[n] /\ c_start = s + Step
  <2>1. PICK z, x : z = S[n] /\ x = c_start
    OBVIOUS
  <2>2. /\ x \in 0..(Step + 11) /\ x >= Step /\ z \in Nat /\ old + x = z /\ old \in Nat
        /\ off = old + Step /\ s = x - Step
    BY <1>1, <1>3, <1>4, <1>6, <1>7, <2>1
  <2>3. s \in 0..11 /\ s + 22 < BLOCKSIZE /\ off + s = z /\ x = s + Step
    BY <2>2, Sizes
  <2> QED
    BY <2>1, <2>3
<1>9. EmptyBehind(tape, s)
  BY <1>1, <1>6, <1>7, RolledEmpty
<1>10. Shows(buffer, old, text, n, S)
  BY <1>2, <1>3 DEF Laid
<1>11. tape[-1] = Full
  <2>1. -1 \in Positions
    BY Sizes DEF Positions
  <2> QED
    BY <1>2, <1>6, <2>1 DEF Rolled, Laid
<1>12. Shows(tape, off, text, n, S)
  <2> SUFFICES ASSUME NEW i \in 0..BLOCKSIZE PROVE tape[i] = On(text, n, S, off + i)
    BY DEF Shows
  <2>1. i \in Positions /\ i # -1 /\ i \in Nat
    BY Sizes DEF Positions
  <2>2. CASE i # BLOCKSIZE /\ i < BUFFER_SIZE
    <3>1. i + Step \in 0..BLOCKSIZE /\ old + (i + Step) = off + i
      BY <1>3, <1>4, <2>1, <2>2, Sizes
    <3>2. tape[i] = buffer[i + Step]
      BY <1>6, <2>1, <2>2 DEF Rolled
    <3>3. buffer[i + Step] = On(text, n, S, old + (i + Step))
      BY <1>10, <3>1 DEF Shows
    <3> QED
      BY <3>1, <3>2, <3>3
  <2>3. CASE i = BLOCKSIZE \/ ~(i < BUFFER_SIZE)
    <3>1. tape[i] = {}
      <4>1. CASE i = BLOCKSIZE
        <5>1. i \in (s + 11)..BLOCKSIZE
          BY <1>8, <2>1, <4>1, Sizes
        <5> QED
          BY <1>9, <5>1 DEF EmptyBehind
      <4>2. CASE i # BLOCKSIZE
        BY <1>6, <2>1, <2>3, <4>2 DEF Rolled
      <4> QED
        BY <4>1, <4>2
    <3>2. off + i \in Nat /\ off + i >= S[n] + 11
      <4>1. i >= s + 11
        <5>1. BLOCKSIZE \in Nat /\ BUFFER_SIZE \in Nat /\ BUFFER_SIZE >= 23 /\ BLOCKSIZE > s + 22
          BY <1>8, Sizes
        <5>2. s \in 0..11 /\ i \in Nat /\ (i = BLOCKSIZE \/ ~(i < BUFFER_SIZE))
          BY <1>8, <2>1, <2>3
        <5> QED
          BY <5>1, <5>2
      <4>2. off \in Nat /\ s \in 0..11 /\ i \in Nat /\ off + s = S[n]
        BY <1>4, <1>8, <2>1
      <4>3. off + i \in Nat /\ off + i >= off + s + 11
        BY <4>1, <4>2
      <4> QED
        BY <4>2, <4>3
    <3> QED
      BY <1>4, <3>1, <3>2, OffBehind
  <2> QED
    BY <2>2, <2>3
<1>13. ElevenApart(tape, text[n + 1], s)
  BY <1>3, <1>6 DEF ToldApart
<1>14. ASSUME s = 0, n > 0, CodeOf(text, n + 1).ones > 0, CodeOf(text, n).ones = 0
       PROVE  where_to_write_in_buffer(tape, text[n + 1], s) > 0
  <2>1. One \notin On(text, n, S, S[n] - 1)
    BY <1>4, <1>14, NoOneBefore
  <2>2. Step - 1 \in 0..BLOCKSIZE /\ old + (Step - 1) = S[n] - 1
    <3>1. Step \in Nat /\ Step >= 12 /\ BLOCKSIZE \in Nat /\ BLOCKSIZE >= Step
      BY Sizes
    <3>2. old \in Nat /\ old + Step = S[n]
      BY <1>3, <1>4, <1>8, <1>14, <3>1
    <3> QED
      BY <3>1, <3>2
  <2>3. One \notin buffer[Step - 1]
    BY <1>10, <2>1, <2>2 DEF Shows
  <2>4. Ones(text[n + 1]) > 0
    <3>1. text \in Seq(Byte)
      BY <1>4 DEF Apart
    <3>2. text[n + 1] \in Byte
      BY <1>5, <3>1, CodeOfIs
    <3> QED
      BY <1>14, <3>2, FullCodeIs DEF CodeOf
  <2>5. c_start = Step
    BY <1>8, <1>14, Sizes
  <2> QED
    BY <1>3, <1>6, <1>14, <2>3, <2>4, <2>5 DEF ToldApart
<1>15. Ready(tape, off, s, text, n, S)
  <2>1. s \in Nat
    BY <1>8
  <2> QED
    BY <1>4, <1>5, <1>8, <1>9, <1>11, <1>12, <1>13, <1>14, <2>1 DEF Ready
<1>16. PICK R : /\ Apart(text, n + 1, R)
                /\ c_start' \in Nat /\ c_start' > 0 /\ off + c_start' = R[n + 1]
                /\ \A i \in 0..(off - 1) : On(text, n + 1, R, i) = On(text, n, S, i)
                /\ Shows(buffer', off, text, n + 1, R) /\ buffer'[-1] = Full
  <2>1. Put(tape, text[n + 1], s)
    BY <1>1, <1>3, <1>6
  <2> QED
    BY <1>15, <2>1, PutLaid
<1>17. Sent(ciphertext', text, n, S) /\ Len(ciphertext') = off
  <2>1. PICK out, m : out = ciphertext /\ m = Step
    OBVIOUS
  <2>2. Sent(out, text, n, S) /\ old = Len(out) /\ m \in 0..BLOCKSIZE
    BY <1>2, <1>3, <2>1, Sizes DEF Laid
  <2>3. /\ Sent(out \o Written(buffer, m), text, n, S)
        /\ Len(out \o Written(buffer, m)) = old + m
    BY <1>10, <2>2, WrittenIs
  <2> QED
    BY <1>1, <1>3, <2>1, <2>3
<1>18. Sent(ciphertext', text, n + 1, R)
  BY <1>16, <1>17, SentStays
<1>19. Laid(R)'
  BY <1>1, <1>3, <1>16, <1>17, <1>18 DEF Laid
<1> QED
  BY <1>19 DEF LaidInv

\* A step that tells the characters apart keeps them so.
LEMMA NextLaid ==
  ASSUME RoomAssumption, EncryptInv, LaidInv, [Next]_vars, [ToldApart]_vars
  PROVE  LaidInv'
<1>1. CASE UNCHANGED vars
  BY <1>1 DEF vars, LaidInv, Laid
<1>2. CASE Next /\ ToldApart
  <2>1. CASE Encrypt
    BY <1>2, <2>1, EncryptLaid
  <2>2. CASE EncryptRoll
    BY <1>2, <2>2, EncryptRollLaid
  <2>3. CASE EncryptEnd
    <3>1. PICK tape : Got(read_from_buffer(tape, 0))
      BY <2>3 DEF EncryptEnd
    <3> QED
      BY <3>1, GotIs DEF LaidInv
  <2>4. CASE Decrypt
    <3>1. Got(read_from_buffer(buffer, c_start))
      BY <2>4 DEF Decrypt
    <3> QED
      BY <3>1, GotIs DEF LaidInv
  <2>5. CASE DecryptRoll
    BY <2>5 DEF DecryptRoll, LaidInv
  <2>6. CASE Finished
    BY <2>6 DEF Finished, vars, LaidInv, Laid
  <2> QED
    BY <1>2, <2>1, <2>2, <2>3, <2>4, <2>5, <2>6 DEF Next
<1> QED
  BY <1>1, <1>2

-----------------------------------------------------------------------------
(* Reading a code *)

\* A code that starts later than the k-th is behind it, and the ones of those
\* behind the next are behind the next.
LEMMA LaterIs ==
  ASSUME NEW t, NEW n, NEW S, Apart(t, n, S), NEW k \in 0..n, NEW j \in 1..n
  PROVE  /\ S[j] > S[k] => j > k
         /\ j > k => S[j] - CodeOf(t, j).ones >= S[k] /\ S[j] > S[k]
<1>1. n \in Nat /\ j \in 0..n /\ j - 1 \in 0..n
  BY DEF Apart
<1>2. PICK a, b, c, o : a = S[k] /\ b = S[j] /\ c = S[j - 1] /\ o = CodeOf(t, j).ones
  OBVIOUS
<1>3. a \in Nat /\ b \in Nat /\ c \in Nat /\ o \in 0..3 /\ c <= b - o
  <2>1. o \in 0..3
    BY <1>2, ApartIs
  <2> QED
    BY <1>1, <1>2, <2>1 DEF Apart
<1>4. ASSUME j <= k PROVE b <= a
  <2>1. CASE j = k
    BY <1>2, <1>3, <2>1
  <2>2. CASE j < k
    BY <1>1, <1>2, <1>3, <2>2 DEF Apart
  <2> QED
    BY <1>1, <1>4, <2>1, <2>2
<1>5. ASSUME j > k PROVE a <= c /\ a < b
  <2>1. a < b
    BY <1>1, <1>2, <1>5 DEF Apart
  <2>2. CASE k = j - 1
    BY <1>2, <1>3, <2>1, <2>2
  <2>3. CASE k < j - 1
    BY <1>1, <1>2, <1>3, <2>1, <2>3 DEF Apart
  <2> QED
    BY <1>1, <1>5, <2>2, <2>3
<1> QED
  BY <1>1, <1>2, <1>3, <1>4, <1>5

\* A bit that is new at p starts the ones of a code, or is its digit.
LEMMA NewBitIs ==
  ASSUME NEW t, NEW n, NEW S, Apart(t, n, S), NEW p \in Nat, p > 0,
         NEW b \in On(t, n, S, p), b \notin On(t, n, S, p - 1)
  PROVE  \E j \in 1..n :
           \/ b = One /\ CodeOf(t, j).ones > 0 /\ p = S[j] - CodeOf(t, j).ones
           \/ b = CodeOf(t, j).digit /\ p = S[j]
<1>1. PICK j \in 1..n : \/ b = One /\ p \in OnesOf(t, S, j)
                        \/ b = CodeOf(t, j).digit /\ p \in DigitsOf(t, S, j)
  BY DEF On
<1>2. PICK s, o, c : s = S[j] /\ o = CodeOf(t, j).ones /\ c = CodeOf(t, j).count
  OBVIOUS
<1>3. s \in Nat /\ o \in 0..3 /\ c \in 1..11
  BY <1>2, ApartIs
<1>4. b \in Bit
  BY DEF On
<1>5. CASE b = One /\ p \in OnesOf(t, S, j)
  <2>1. p \in (s - o)..(s - 1) /\ p - 1 \notin (s - o)..(s - 1)
    BY <1>2, <1>4, <1>5 DEF On, OnesOf
  <2>2. o > 0 /\ p = s - o
    BY <1>3, <2>1
  <2> QED
    BY <1>2, <1>5, <2>2
<1>6. CASE b = CodeOf(t, j).digit /\ p \in DigitsOf(t, S, j)
  <2>1. p \in s..(s + c - 1) /\ p - 1 \notin s..(s + c - 1)
    BY <1>2, <1>4, <1>6 DEF On, DigitsOf
  <2>2. p = s
    BY <1>3, <2>1
  <2> QED
    BY <1>2, <1>6, <2>2
<1> QED
  BY <1>1, <1>5, <1>6

\* Between the digits of two codes bits are new only where the second's ones start.
LEMMA NothingNew ==
  ASSUME NEW t, NEW n, NEW S, Apart(t, n, S), NEW k \in 0..n, NEW p \in Nat, S[k] < p,
         k < n => /\ p < S[k + 1]
                  /\ CodeOf(t, k + 1).ones > 0 => p # S[k + 1] - CodeOf(t, k + 1).ones
  PROVE  On(t, n, S, p) \subseteq On(t, n, S, p - 1)
<1> SUFFICES ASSUME NEW b \in On(t, n, S, p), b \notin On(t, n, S, p - 1) PROVE FALSE
  OBVIOUS
<1>1. n \in Nat /\ S[k] \in Nat /\ p > 0
  <2>1. n \in Nat /\ S[k] \in Nat
    BY DEF Apart
  <2> QED
    BY <2>1
<1>2. PICK j \in 1..n : \/ b = One /\ CodeOf(t, j).ones > 0 /\ p = S[j] - CodeOf(t, j).ones
                        \/ b = CodeOf(t, j).digit /\ p = S[j]
  BY <1>1, NewBitIs
<1>3. PICK s, o : s = S[j] /\ o = CodeOf(t, j).ones
  OBVIOUS
<1>4. s \in Nat /\ o \in 0..3 /\ p >= s - o /\ p <= s /\ (p < s => o > 0 /\ p = s - o)
  <2>1. s \in Nat /\ o \in 0..3
    BY <1>3, ApartIs
  <2> QED
    BY <1>2, <1>3, <2>1
<1>5. j > k
  <2>1. s > S[k]
    BY <1>1, <1>4
  <2> QED
    BY <1>3, <2>1, LaterIs
<1>6. k < n /\ k + 1 \in 0..n
  BY <1>1, <1>5
<1>7. CASE j = k + 1
  BY <1>3, <1>4, <1>6, <1>7
<1>8. CASE j # k + 1
  <2>1. j > k + 1
    BY <1>5, <1>8
  <2>2. PICK z : z = S[k + 1]
    OBVIOUS
  <2>3. s - o >= z /\ z \in Nat
    BY <1>3, <1>6, <2>1, <2>2, LaterIs DEF Apart
  <2>4. p < z
    BY <1>6, <2>2
  <2> QED
    BY <1>4, <2>3, <2>4
<1> QED
  BY <1>7, <1>8

\* Ones behind the k-th digit are those of a later code.
LEMMA OneIs ==
  ASSUME NEW t, NEW n, NEW S, Apart(t, n, S), NEW k \in 0..n, NEW p \in Nat, S[k] <= p,
         One \in On(t, n, S, p)
  PROVE  \E j \in (k + 1)..n : p \in OnesOf(t, S, j)
<1>1. PICK j \in 1..n : \/ p \in OnesOf(t, S, j)
                        \/ One = CodeOf(t, j).digit
  BY DEF On
<1>2. PICK s, o : s = S[j] /\ o = CodeOf(t, j).ones
  OBVIOUS
<1>3. s \in Nat /\ o \in 0..3 /\ CodeOf(t, j).digit # One
  BY <1>2, ApartIs DEF Digit
<1>4. p \in OnesOf(t, S, j) /\ s > p
  BY <1>1, <1>2, <1>3 DEF OnesOf
<1>5. S[k] \in Nat /\ n \in Nat
  BY DEF Apart
<1>6. j > k
  <2>1. s > S[k]
    BY <1>3, <1>4, <1>5
  <2> QED
    BY <1>2, <2>1, LaterIs
<1>7. j \in (k + 1)..n
  BY <1>5, <1>6
<1> QED
  BY <1>4, <1>7

\* There are none before those of the next code.
LEMMA NoOneYet ==
  ASSUME NEW t, NEW n, NEW S, Apart(t, n, S), NEW k \in 0..n, NEW p \in Nat, S[k] <= p,
         k < n => p < S[k + 1] - CodeOf(t, k + 1).ones
  PROVE  One \notin On(t, n, S, p)
<1> SUFFICES ASSUME One \in On(t, n, S, p) PROVE FALSE
  OBVIOUS
<1>1. PICK j \in (k + 1)..n : p \in OnesOf(t, S, j)
  BY OneIs
<1>2. n \in Nat /\ j \in 1..n /\ k < n /\ k + 1 \in 0..n /\ k + 1 \in 1..n
  BY DEF Apart
<1>3. PICK s, o, z, a : s = S[j] /\ o = CodeOf(t, j).ones /\ z = S[k + 1]
                        /\ a = CodeOf(t, k + 1).ones
  OBVIOUS
<1>4. s \in Nat /\ o \in 0..3 /\ z \in Nat /\ a \in 0..3 /\ p >= s - o /\ p < z - a
  <2>1. s \in Nat /\ o \in 0..3 /\ z \in Nat /\ a \in 0..3
    BY <1>2, <1>3, ApartIs
  <2>2. p \in (s - o)..(s - 1)
    BY <1>1, <1>3 DEF OnesOf
  <2> QED
    BY <1>2, <1>3, <2>1, <2>2
<1>5. CASE j = k + 1
  BY <1>3, <1>4, <1>5
<1>6. CASE j # k + 1
  <2>1. j > k + 1
    BY <1>2, <1>6
  <2>2. s - o >= z
    BY <1>2, <1>3, <2>1, LaterIs
  <2> QED
    BY <1>4, <2>2
<1> QED
  BY <1>5, <1>6

\* Where a digit without ones starts no ones are.
LEMMA NoOneThere ==
  ASSUME NEW t, NEW n, NEW S, Apart(t, n, S), NEW k \in 1..n, CodeOf(t, k).ones = 0
  PROVE  One \notin On(t, n, S, S[k])
<1>1. n \in Nat /\ k \in 0..n /\ S[k] \in Nat
  BY ApartIs
<1>2. CASE k = n
  BY <1>1, <1>2, NoOneYet
<1>3. CASE k < n
  <2>1. k + 1 \in 1..n /\ k + 1 > 1 /\ (k + 1) - 1 = k
    BY <1>1, <1>3
  <2>2. PICK z, o, s : z = S[k + 1] /\ o = CodeOf(t, k + 1).ones /\ s = S[k]
    OBVIOUS
  <2>3. z \in Nat /\ o \in 0..3 /\ s \in Nat /\ s < z
    BY <2>1, <2>2, ApartIs
  <2>4. o > 0 => s < z - o
    <3>1. o > 0 => S[(k + 1) - 1] < S[k + 1] - CodeOf(t, k + 1).ones
      BY <2>1, <2>2 DEF Apart
    <3> QED
      BY <2>1, <2>2, <3>1
  <2>5. s < z - o
    BY <2>3, <2>4
  <2> QED
    BY <1>1, <1>3, <2>2, <2>5, NoOneYet
<1> QED
  BY <1>1, <1>2, <1>3

\* The places of two codes are in the order of the codes.
LEMMA OrderIs ==
  ASSUME NEW t, NEW n, NEW S, Apart(t, n, S), NEW j \in 1..n, NEW k \in 1..n
  PROVE  /\ S[j] < S[k] <=> j < k
         /\ S[j] = S[k] => j = k
<1>1. n \in Nat /\ j \in 0..n /\ k \in 0..n /\ S[j] \in Nat /\ S[k] \in Nat
  BY ApartIs
<1>2. (j < k => S[j] < S[k]) /\ (k < j => S[k] < S[j])
  BY <1>1 DEF Apart
<1> QED
  BY <1>1, <1>2

\* Where a digit starts it is the one bit that is new.
LEMMA DigitNew ==
  ASSUME NEW t, NEW n, NEW S, Apart(t, n, S), NEW k \in 1..n
  PROVE  On(t, n, S, S[k]) \ On(t, n, S, S[k] - 1) = {CodeOf(t, k).digit}
<1>1. PICK q, d, m, o : /\ q = S[k] /\ d = CodeOf(t, k).digit /\ m = CodeOf(t, k).count
                        /\ o = CodeOf(t, k).ones
  OBVIOUS
<1>2. /\ n \in Nat /\ q \in Nat /\ q > 0 /\ d \in Bit /\ d # One /\ m \in 1..11 /\ o \in 0..3
      /\ k \in 0..n
  <2>1. S[k - 1] \in Nat /\ S[k - 1] < S[k]
    BY ApartIs
  <2>2. q \in Nat /\ d \in Digit /\ m \in 1..11 /\ o \in 0..3 /\ n \in Nat /\ k \in 0..n
    BY <1>1, ApartIs
  <2>3. q > 0
    BY <1>1, <2>1, <2>2
  <2> QED
    BY <2>2, <2>3 DEF Digit
<1>3. d \in On(t, n, S, q)
  <2>1. q \in DigitsOf(t, S, k)
    BY <1>1, <1>2 DEF DigitsOf
  <2> QED
    BY <1>1, <1>2, <2>1 DEF On
<1>4. ASSUME d \in On(t, n, S, q - 1) PROVE FALSE
  <2>1. PICK j \in 1..n : d = CodeOf(t, j).digit /\ q - 1 \in DigitsOf(t, S, j)
    BY <1>2, <1>4 DEF On
  <2>2. PICK s, c : s = S[j] /\ c = CodeOf(t, j).count
    OBVIOUS
  <2>3. s \in Nat /\ c \in 1..11 /\ s <= q - 1 /\ q - 1 <= s + c - 1
    <3>1. s \in Nat /\ c \in 1..11
      BY <2>2, ApartIs
    <3>2. q - 1 \in s..(s + c - 1)
      BY <2>1, <2>2 DEF DigitsOf
    <3> QED
      BY <1>2, <3>1, <3>2
  <2>4. j < k
    <3>1. s < q
      BY <1>2, <2>3
    <3> QED
      BY <1>1, <2>2, <3>1, OrderIs
  <2>5. s + c < q
    BY <1>1, <2>1, <2>2, <2>4 DEF Apart
  <2> QED
    BY <1>2, <2>3, <2>5
<1>5. ASSUME NEW b \in On(t, n, S, q), b \notin On(t, n, S, q - 1) PROVE b = d
  <2>1. PICK j \in 1..n : \/ b = One /\ CodeOf(t, j).ones > 0 /\ q = S[j] - CodeOf(t, j).ones
                          \/ b = CodeOf(t, j).digit /\ q = S[j]
    BY <1>2, <1>5, NewBitIs
  <2>2. CASE b = CodeOf(t, j).digit /\ q = S[j]
    <3>1. S[j] = S[k]
      BY <1>1, <2>2
    <3>2. j = k
      BY <3>1, OrderIs
    <3> QED
      BY <1>1, <2>2, <3>2
  <2>3. CASE b = One /\ CodeOf(t, j).ones > 0 /\ q = S[j] - CodeOf(t, j).ones
    <3>1. PICK s, a : s = S[j] /\ a = CodeOf(t, j).ones
      OBVIOUS
    <3>2. s \in Nat /\ a \in 1..3 /\ q = s - a
      <4>1. s \in Nat /\ a \in 0..3
        BY <3>1, ApartIs
      <4> QED
        BY <2>3, <3>1, <4>1
    <3>3. j > k
      <4>1. q < s
        BY <1>2, <3>2
      <4> QED
        BY <1>1, <3>1, <4>1, OrderIs
    <3>4. CASE j = k + 1
      <4>1. j > 1 /\ j - 1 = k
        BY <1>2, <3>4
      <4>2. CASE o = 0
        <5>1. S[j - 1] < S[j] - CodeOf(t, j).ones
          BY <1>1, <2>3, <4>1, <4>2 DEF Apart
        <5>2. q < s - a
          BY <1>1, <3>1, <4>1, <5>1
        <5> QED
          BY <3>2, <5>2
      <4>3. CASE o # 0
        <5>1. q - 1 \in (q - o)..(q - 1)
          BY <1>2, <4>3
        <5>2. One \in On(t, n, S, q - 1)
          BY <1>1, <5>1 DEF On, OnesOf, One, Bit
        <5> QED
          BY <1>5, <2>3, <5>2
      <4> QED
        BY <4>2, <4>3
    <3>5. CASE j # k + 1
      <4>1. j > k + 1 /\ k + 1 \in 0..n /\ k + 1 \in 1..n
        BY <1>2, <3>3, <3>5
      <4>2. PICK z : z = S[k + 1]
        OBVIOUS
      <4>3. s - a >= z
        BY <3>1, <4>1, <4>2, LaterIs
      <4>4. q < z /\ z \in Nat
        <5>1. k < k + 1
          BY <1>2
        <5> QED
          BY <1>1, <4>1, <4>2, <5>1, OrderIs, ApartIs
      <4> QED
        BY <1>2, <3>2, <4>3, <4>4
    <3> QED
      BY <3>4, <3>5
  <2> QED
    BY <2>1, <2>2, <2>3
<1>6. On(t, n, S, q) \ On(t, n, S, q - 1) = {d}
  BY <1>3, <1>4, <1>5
<1> QED
  BY <1>1, <1>6

\* The digit is there as often as it is pressed, and then not.
LEMMA DigitEnds ==
  ASSUME NEW t, NEW n, NEW S, Apart(t, n, S), NEW k \in 1..n
  PROVE  /\ \A p \in DigitsOf(t, S, k) : CodeOf(t, k).digit \in On(t, n, S, p)
         /\ CodeOf(t, k).digit \notin On(t, n, S, S[k] + CodeOf(t, k).count)
<1>1. PICK q, d, m : q = S[k] /\ d = CodeOf(t, k).digit /\ m = CodeOf(t, k).count
  OBVIOUS
<1>2. n \in Nat /\ q \in Nat /\ d \in Bit /\ d # One /\ m \in 1..11
  BY <1>1, ApartIs DEF Digit
<1>3. \A p \in DigitsOf(t, S, k) : d \in On(t, n, S, p)
  BY <1>1, <1>2 DEF On
<1>4. ASSUME d \in On(t, n, S, q + m) PROVE FALSE
  <2>1. PICK j \in 1..n : d = CodeOf(t, j).digit /\ q + m \in DigitsOf(t, S, j)
    BY <1>2, <1>4 DEF On
  <2>2. PICK s, c : s = S[j] /\ c = CodeOf(t, j).count
    OBVIOUS
  <2>3. s \in Nat /\ c \in 1..11 /\ s <= q + m /\ q + m < s + c
    <3>1. s \in Nat /\ c \in 1..11
      BY <2>2, ApartIs
    <3>2. q + m \in s..(s + c - 1)
      BY <2>1, <2>2 DEF DigitsOf
    <3> QED
      BY <1>2, <3>1, <3>2
  <2>4. CASE j < k
    <3>1. s + c < q
      BY <1>1, <2>1, <2>2, <2>4 DEF Apart
    <3> QED
      BY <1>2, <2>3, <3>1
  <2>5. CASE j = k
    <3>1. s = q /\ c = m
      BY <1>1, <2>2, <2>5
    <3> QED
      BY <1>2, <2>3, <3>1
  <2>6. CASE j > k
    <3>1. q + m < s
      BY <1>1, <2>1, <2>2, <2>6 DEF Apart
    <3> QED
      BY <1>2, <2>3, <3>1
  <2> QED
    BY <1>2, <2>4, <2>5, <2>6
<1> QED
  BY <1>1, <1>3, <1>4

\* The tape of decrypt begins at position base, and no code is taken for its end.
Reads(tape, base, t, n, S) ==
  /\ \A i \in 0..(BLOCKSIZE - 1) : tape[i] = On(t, n, S, base + i) /\ tape[i] # Full
  /\ tape[BLOCKSIZE] = Full

\* What is raised on it.
LEMMA RaisedIs ==
  ASSUME NEW t, NEW n, NEW S, NEW base \in Nat, NEW tape, Reads(tape, base, t, n, S),
         NEW i \in 1..(BLOCKSIZE - 1)
  PROVE  Raised(tape, i) = On(t, n, S, base + i) \ On(t, n, S, base + i - 1)
<1>1. i \in 0..(BLOCKSIZE - 1) /\ i - 1 \in 0..(BLOCKSIZE - 1) /\ base + (i - 1) = base + i - 1
  BY SizeAssumption
<1>2. tape[i] = On(t, n, S, base + i) /\ tape[i - 1] = On(t, n, S, base + (i - 1))
  BY <1>1 DEF Reads
<1> QED
  BY <1>1, <1>2 DEF Raised

\* Behind the last digit decrypt finds the end.
LEMMA ReadEnd ==
  ASSUME NEW t, NEW n, NEW S, Apart(t, n, S), NEW base \in Nat, NEW tape,
         Reads(tape, base, t, n, S), NEW x \in 0..(BLOCKSIZE - 1), base + x = S[n]
  PROVE  read_from_buffer(tape, x) = [kind |-> "end"]
<1>1. BLOCKSIZE \in Nat /\ n \in 0..n /\ S[n] \in Nat /\ n \in Nat /\ x \in Nat
  BY SizeAssumption DEF Apart
<1>2. One \notin tape[x]
  <2>1. One \notin On(t, n, S, base + x)
    BY <1>1, NoOneYet
  <2> QED
    BY <2>1 DEF Reads
<1>3. PICK T : T = {i \in (x + 1)..BLOCKSIZE : Raised(tape, i) # {}}
  OBVIOUS
<1>4. ASSUME NEW i \in T PROVE i >= BLOCKSIZE
  <2>1. i \in (x + 1)..BLOCKSIZE /\ Raised(tape, i) # {}
    BY <1>3
  <2> SUFFICES ASSUME i < BLOCKSIZE PROVE FALSE
    BY <1>1, <2>1
  <2>2. i \in 1..(BLOCKSIZE - 1) /\ base + i \in Nat /\ base + i > S[n]
    BY <1>1, <2>1
  <2>3. On(t, n, S, base + i) \subseteq On(t, n, S, base + i - 1)
    BY <1>1, <2>2, NothingNew
  <2>4. Raised(tape, i) = On(t, n, S, base + i) \ On(t, n, S, base + i - 1)
    BY <2>2, RaisedIs
  <2> QED
    BY <2>1, <2>3, <2>4
<1>5. BLOCKSIZE \in T
  <2>1. BLOCKSIZE - 1 \in 0..(BLOCKSIZE - 1) /\ BLOCKSIZE \in (x + 1)..BLOCKSIZE
    BY <1>1
  <2>2. tape[BLOCKSIZE - 1] \subseteq Bit /\ tape[BLOCKSIZE - 1] # Bit /\ tape[BLOCKSIZE] = Bit
    BY <2>1 DEF Reads, On, Full
  <2>3. Raised(tape, BLOCKSIZE) # {}
    BY <2>2 DEF Raised
  <2> QED
    BY <1>3, <2>1, <2>3
<1>6. Min(T \cup {BLOCKSIZE + 1}) = BLOCKSIZE
  <2>1. x + 1 \in Nat /\ T \in SUBSET ((x + 1)..BLOCKSIZE)
    BY <1>1, <1>3
  <2>2. \A i \in T : BLOCKSIZE <= i
    BY <1>1, <1>4, <2>1
  <2> QED
    BY <1>5, <2>1, <2>2, StopsAt
<1>7. First(x + 1, LAMBDA i : Raised(tape, i) # {}) = BLOCKSIZE
  BY <1>3, <1>6 DEF First
<1>8. tape[BLOCKSIZE] = Full
  BY DEF Reads
<1> QED
  BY <1>2, <1>7, <1>8 DEF read_from_buffer, CodeStart

\* What read_from_buffer finds, from where it stops.
LEMMA ReadIs ==
  ASSUME NEW tape, NEW x, NEW new, NEW r, NEW end, NEW d \in Digit,
         new = CodeStart(tape, x), r = DigitStart(tape, new), end = DigitEnd(tape, r),
         tape[new] # Full, Raised(tape, r) = {d}
  PROVE  read_from_buffer(tape, x) =
           [kind |-> "code", at |-> r, code |-> Pack(r - new, d, end - r - 1)]
<1>1. (CHOOSE e \in Digit : Raised(tape, r) = {e}) = d
  OBVIOUS
<1>2. \E e \in Digit : Raised(tape, r) = {e}
  OBVIOUS
<1> QED
  BY <1>1, <1>2 DEF read_from_buffer

\* From the place of a digit decrypt reads the code behind it.
LEMMA ReadCode ==
  ASSUME NEW t, NEW n, NEW S, Apart(t, n, S), NEW base \in Nat, NEW tape,
         Reads(tape, base, t, n, S), NEW k \in 1..n,
         NEW x \in Nat, x + 23 < BLOCKSIZE, base + x = S[k - 1]
  PROVE  /\ read_from_buffer(tape, x) = [kind |-> "code", at |-> S[k] - base, code |-> t[k]]
         /\ S[k] - base \in (x + 1)..(x + 12)
<1>1. PICK q, d, m, o : /\ q = S[k] /\ d = CodeOf(t, k).digit /\ m = CodeOf(t, k).count
                        /\ o = CodeOf(t, k).ones
  OBVIOUS
<1>2. PICK y : y = q - base
  OBVIOUS
<1>3. /\ n \in Nat /\ BLOCKSIZE \in Nat /\ q \in Nat /\ d \in Digit /\ m \in 1..11 /\ o \in 0..3
      /\ k - 1 \in 0..n /\ (k - 1) + 1 = k /\ S[k - 1] = base + x /\ k - 1 \in Nat
  <2>1. q \in Nat /\ d \in Digit /\ m \in 1..11 /\ o \in 0..3 /\ n \in Nat /\ k - 1 \in 0..n
    BY <1>1, ApartIs
  <2> QED
    BY <2>1, SizeAssumption
<1>4. q > base + x /\ q <= base + x + 12 /\ base + x <= q - o
  <2>1. S[k - 1] < S[k]
    BY ApartIs
  <2>2. S[k] <= S[k - 1] + 12 /\ S[k - 1] <= S[k] - CodeOf(t, k).ones
    BY DEF Apart
  <2> QED
    BY <1>1, <1>3, <2>1, <2>2
<1>5. y \in (x + 1)..(x + 12) /\ base + y = q /\ x <= y - o /\ y + m < BLOCKSIZE
  BY <1>2, <1>3, <1>4
<1>6. PICK w : w = y - o
  OBVIOUS
<1>7. w \in x..y /\ base + w = q - o
  BY <1>3, <1>5, <1>6
\* Bits are new at the ones' start and the digit's start only.
<1>8. ASSUME NEW i \in (x + 1)..(y - 1), o > 0 => i # w PROVE Raised(tape, i) = {}
  <2>1. i \in 1..(BLOCKSIZE - 1) /\ base + i \in Nat
    BY <1>3, <1>5
  <2>2. S[k - 1] < base + i /\ base + i < S[(k - 1) + 1]
        /\ (CodeOf(t, (k - 1) + 1).ones > 0 =>
              base + i # S[(k - 1) + 1] - CodeOf(t, (k - 1) + 1).ones)
    <3>1. base + x < base + i /\ base + i < q /\ (o > 0 => base + i # q - o)
      BY <1>3, <1>5, <1>6, <1>7, <1>8
    <3> QED
      BY <1>1, <1>3, <3>1
  <2>3. On(t, n, S, base + i) \subseteq On(t, n, S, base + i - 1)
    <3>1. PICK p, j : p = base + i /\ j = k - 1
      OBVIOUS
    <3>2. /\ p \in Nat /\ j \in 0..n /\ S[j] < p
          /\ j < n => /\ p < S[j + 1]
                      /\ CodeOf(t, j + 1).ones > 0 => p # S[j + 1] - CodeOf(t, j + 1).ones
      BY <1>3, <2>1, <2>2, <3>1
    <3>3. On(t, n, S, p) \subseteq On(t, n, S, p - 1)
      BY <3>2, NothingNew
    <3> QED
      BY <3>1, <3>3
  <2>4. Raised(tape, i) = On(t, n, S, base + i) \ On(t, n, S, base + i - 1)
    BY <2>1, RaisedIs
  <2> QED
    BY <2>3, <2>4
<1>9. Raised(tape, y) = {d}
  <2>1. y \in 1..(BLOCKSIZE - 1)
    BY <1>3, <1>5
  <2>2. Raised(tape, y) = On(t, n, S, base + y) \ On(t, n, S, base + y - 1)
    BY <2>1, RaisedIs
  <2> QED
    BY <1>1, <1>5, <2>2, DigitNew
\* Before the ones there are none.
<1>10. ASSUME NEW i \in x..(w - 1) PROVE One \notin tape[i]
  <2>1. i \in 0..(BLOCKSIZE - 1) /\ base + i \in Nat
    BY <1>3, <1>5, <1>7
  <2>2. One \notin On(t, n, S, base + i)
    <3>1. PICK p, j : p = base + i /\ j = k - 1
      OBVIOUS
    <3>2. base + x <= base + i /\ base + i < q - o
      BY <1>3, <1>5, <1>7
    <3>3. p \in Nat /\ j \in 0..n /\ S[j] <= p /\ (j < n => p < S[j + 1] - CodeOf(t, j + 1).ones)
      BY <1>1, <1>3, <2>1, <3>1, <3>2
    <3> QED
      BY <3>1, <3>3, NoOneYet
  <2> QED
    BY <2>1, <2>2 DEF Reads
<1>11. PICK new : new = CodeStart(tape, x)
  OBVIOUS
<1>12. PICK r : r = DigitStart(tape, new)
  OBVIOUS
<1>13. PICK end : end = DigitEnd(tape, r)
  OBVIOUS
\* A search from position a finds b if nothing is raised between them.
<1>14. ASSUME NEW a \in (x + 1)..y, NEW b \in a..y, Raised(tape, b) # {},
              \A i \in a..(b - 1) : Raised(tape, i) = {}
       PROVE  First(a, LAMBDA i : Raised(tape, i) # {}) = b
  <2>1. PICK T : T = {i \in a..BLOCKSIZE : Raised(tape, i) # {}}
    OBVIOUS
  <2>2. a \in Nat /\ T \in SUBSET (a..BLOCKSIZE) /\ b \in T
    BY <1>3, <1>5, <1>14, <2>1
  <2>3. ASSUME NEW i \in T PROVE b <= i
    BY <1>3, <1>14, <2>1
  <2>4. Min(T \cup {BLOCKSIZE + 1}) = b
    BY <2>2, <2>3, StopsAt
  <2> QED
    BY <2>1, <2>4 DEF First
<1>15. new = w /\ r = y
  <2>1. CASE o = 0
    <3>1. w = y /\ x \in x..(w - 1) /\ y \in 0..(BLOCKSIZE - 1)
      BY <1>3, <1>5, <1>6, <2>1
    <3>2. One \notin tape[x]
      BY <1>10, <3>1
    <3>3. One \notin tape[y]
      <4>1. One \notin On(t, n, S, q)
        BY <1>1, <2>1, NoOneThere
      <4> QED
        BY <1>5, <3>1, <4>1 DEF Reads
    <3>4. First(x + 1, LAMBDA i : Raised(tape, i) # {}) = y
      <4>1. x + 1 \in (x + 1)..y /\ y \in (x + 1)..y
        BY <1>5
      <4>2. \A i \in (x + 1)..(y - 1) : Raised(tape, i) = {}
        BY <1>8, <2>1
      <4> QED
        BY <1>9, <1>14, <4>1, <4>2
    <3>5. new = y
      BY <1>11, <3>2, <3>4 DEF CodeStart
    <3>6. r = y
      BY <1>12, <3>3, <3>5 DEF DigitStart
    <3> QED
      BY <3>1, <3>5, <3>6
  <2>2. CASE o > 0
    <3>1. w < y /\ w \in 0..(BLOCKSIZE - 1) /\ w + 1 \in (x + 1)..y /\ y \in (w + 1)..y /\ w \in Nat
      BY <1>3, <1>5, <1>6, <1>7, <2>2
    <3>2. One \in tape[w]
      <4>1. q - o \in OnesOf(t, S, k)
        BY <1>1, <1>3, <2>2 DEF OnesOf
      <4>2. One \in On(t, n, S, q - o)
        BY <4>1 DEF On, One, Bit
      <4> QED
        BY <1>7, <3>1, <4>2 DEF Reads
    <3>3. new = w
      <4>1. CASE w = x
        BY <1>11, <3>2, <4>1 DEF CodeStart
      <4>2. CASE w # x
        <5>1. /\ w \in (x + 1)..y /\ x \in x..(w - 1) /\ w - 1 \in x..(w - 1)
              /\ x + 1 \in (x + 1)..y
          BY <1>5, <1>7, <4>2
        <5>2. One \notin tape[x] /\ One \notin tape[w - 1]
          BY <1>10, <5>1
        <5>3. Raised(tape, w) # {}
          BY <3>2, <5>2 DEF Raised
        <5>4. ASSUME NEW i \in (x + 1)..(w - 1) PROVE Raised(tape, i) = {}
          <6>1. i \in (x + 1)..(y - 1) /\ i # w
            BY <1>5, <1>7
          <6> QED
            BY <1>8, <6>1
        <5>5. First(x + 1, LAMBDA i : Raised(tape, i) # {}) = w
          BY <1>14, <5>1, <5>3, <5>4
        <5> QED
          BY <1>11, <5>2, <5>5 DEF CodeStart
      <4> QED
        BY <4>1, <4>2
    <3>4. ASSUME NEW i \in (w + 1)..(y - 1) PROVE Raised(tape, i) = {}
      <4>1. i \in (x + 1)..(y - 1) /\ i # w
        BY <1>5, <1>7, <3>1
      <4> QED
        BY <1>8, <4>1
    <3>5. First(w + 1, LAMBDA i : Raised(tape, i) # {}) = y
      BY <1>9, <1>14, <3>1, <3>4
    <3>6. r = y
      BY <1>12, <3>2, <3>3, <3>5 DEF DigitStart
    <3> QED
      BY <3>3, <3>6
  <2> QED
    BY <1>3, <2>1, <2>2
<1>16. end = y + m
  <2>1. PICK T : T = {i \in (y + 1)..BLOCKSIZE : tape[i] \cap Raised(tape, y) = {}}
    OBVIOUS
  <2>2. y + 1 \in Nat /\ T \in SUBSET ((y + 1)..BLOCKSIZE)
    BY <1>5, <2>1
  <2>3. y + m \in T
    <3>1. y + m \in 0..(BLOCKSIZE - 1) /\ y + m \in (y + 1)..BLOCKSIZE /\ base + (y + m) = q + m
      BY <1>3, <1>5
    <3>2. d \notin On(t, n, S, q + m)
      BY <1>1, DigitEnds
    <3>3. d \notin tape[y + m]
      BY <3>1, <3>2 DEF Reads
    <3> QED
      BY <1>9, <2>1, <3>1, <3>3
  <2>4. ASSUME NEW i \in T PROVE y + m <= i
    <3>1. i \in (y + 1)..BLOCKSIZE /\ d \notin tape[i]
      BY <1>9, <2>1
    <3> SUFFICES ASSUME i < y + m PROVE FALSE
      BY <1>3, <1>5, <3>1
    <3>2. i \in 0..(BLOCKSIZE - 1) /\ base + i \in q..(q + m - 1)
      BY <1>3, <1>5, <3>1
    <3>3. d \in On(t, n, S, base + i)
      BY <1>1, <3>2, DigitEnds DEF DigitsOf
    <3> QED
      BY <3>1, <3>2, <3>3 DEF Reads
  <2>5. Min(T \cup {BLOCKSIZE + 1}) = y + m
    BY <2>2, <2>3, <2>4, StopsAt
  <2> QED
    BY <1>13, <1>15, <2>1, <2>5 DEF DigitEnd, First
<1>17. tape[new] # Full
  <2>1. w \in 0..(BLOCKSIZE - 1)
    BY <1>3, <1>5, <1>7
  <2> QED
    BY <1>15, <2>1 DEF Reads
<1>18. read_from_buffer(tape, x) =
         [kind |-> "code", at |-> r, code |-> Pack(r - new, d, end - r - 1)]
  <2>1. Raised(tape, r) = {d} /\ d \in Digit
    BY <1>3, <1>9, <1>15
  <2> QED
    BY <1>11, <1>12, <1>13, <1>17, <2>1, ReadIs
<1>19. r - new = o /\ end - r - 1 = m - 1
  BY <1>3, <1>5, <1>6, <1>15, <1>16
<1>20. Pack(o, d, m - 1) = t[k]
  <2>1. t[k] \in Byte
    <3>1. k \in 1..Len(t) /\ t \in Seq(Byte)
      BY ApartIs DEF Apart
    <3> QED
      BY <3>1
  <2> QED
    BY <1>1, <2>1, CodeOfByte DEF to_byte_code, CodeOf
<1> QED
  BY <1>1, <1>2, <1>5, <1>15, <1>18, <1>19, <1>20

-----------------------------------------------------------------------------
(* decrypt *)

\* A byte of ciphertext with all its bits would be taken for the end.
NeverFull == \A i \in DOMAIN ciphertext : ciphertext[i] # Full

\* The first m characters of t have been put.
PutAre(p, t, m) == p \in Seq(Byte) /\ Len(p) = m /\ \A i \in 1..m : p[i] = t[i]

\* All codes of t are in the bytes.
AllSent(bytes, t, S) ==
  /\ Apart(t, Len(t), S)
  /\ Sent(bytes, t, Len(t), S)
  /\ \A i \in Nat : i >= Len(bytes) => On(t, Len(t), S, i) = {}

\* decrypt has put m characters, and holds the next; its tape begins at base.
Held(S, m, base) ==
  /\ AllSent(ciphertext, text, S)
  /\ m + 1 \in 1..Len(text) /\ m \in Nat
  /\ PutAre(plaintext, text, m) /\ code = text[m + 1]
  /\ base \in Nat /\ consumed = base + BLOCKSIZE
  /\ base + c_start = S[m + 1] /\ c_start \in 0..(Step + 11)
  /\ Reads(buffer, base, text, Len(text), S)

\* All codes have gone out when decrypt starts; it holds the one behind those it
\* has put, until it has put them all.
ReadInv ==
  /\ text \in Seq(Byte)
  /\ mode = "encrypt" => plaintext = <<>>
  /\ mode # "encrypt" => \E S : AllSent(ciphertext, text, S)
  /\ NeverFull =>
       /\ mode \in {"encrypt", "decrypt", "done"}
       /\ mode = "decrypt" => \E S, m, base : Held(S, m, base)
       /\ mode = "done" => plaintext = text

\* The bytes that fill the tape go on where those on it end.
LEMMA FilledReads ==
  ASSUME NEW t, NEW S, NEW bytes, AllSent(bytes, t, S),
         \A i \in DOMAIN bytes : bytes[i] # Full,
         NEW base \in Nat, NEW at \in 0..BLOCKSIZE, NEW cnt \in Nat, at + cnt = BLOCKSIZE,
         NEW had, had = base + at, NEW tape,
         \A i \in 0..(at - 1) : tape[i] = On(t, Len(t), S, base + i) /\ tape[i] # Full,
         \A i \in at..(BLOCKSIZE - 1) : tape[i] = {},
         tape[BLOCKSIZE] = Full
  PROVE  Reads(Filled(tape, bytes, had, at, cnt), base, t, Len(t), S)
<1>1. BLOCKSIZE \in Nat /\ at \in Nat
  BY SizeAssumption
<1>2. PICK n, l : n = Len(t) /\ l = Len(bytes)
  OBVIOUS
<1>3. /\ l \in Nat /\ DOMAIN bytes = 1..l
      /\ \A i \in 1..l : bytes[i] = On(t, n, S, i - 1)
      /\ \A i \in Nat : i >= l => On(t, n, S, i) = {}
  BY <1>2 DEF AllSent, Sent
<1>4. PICK new : new = Filled(tape, bytes, had, at, cnt)
  OBVIOUS
<1>5. ASSUME NEW i \in 0..BLOCKSIZE
      PROVE  new[i] = IF i \in at..(at + cnt - 1) /\ had + i - at < l
                        THEN bytes[had + i - at + 1] ELSE tape[i]
  <2>1. i \in Positions
    BY <1>1 DEF Positions
  <2> QED
    BY <1>2, <1>4, <2>1 DEF Filled
<1>6. ASSUME NEW i \in 0..(BLOCKSIZE - 1)
      PROVE  new[i] = On(t, n, S, base + i) /\ new[i] # Full
  <2>1. i \in Nat /\ i \in 0..BLOCKSIZE /\ had + i - at = base + i /\ base + i \in Nat
    BY <1>1
  <2>2. CASE i < at
    <3>1. i \in 0..(at - 1) /\ i \notin at..(at + cnt - 1)
      BY <1>1, <2>1, <2>2
    <3> QED
      BY <1>2, <1>5, <2>1, <3>1
  <2>3. CASE i >= at /\ base + i < l
    <3>1. i \in at..(at + cnt - 1) /\ base + i + 1 \in 1..l /\ (base + i + 1) - 1 = base + i
      BY <1>1, <1>3, <2>1, <2>3
    <3>2. new[i] = bytes[base + i + 1]
      BY <1>5, <2>1, <2>3, <3>1
    <3> QED
      BY <1>3, <3>1, <3>2
  <2>4. CASE i >= at /\ ~(base + i < l)
    <3>1. i \in at..(BLOCKSIZE - 1) /\ base + i >= l
      BY <1>1, <1>3, <2>1, <2>4
    <3>2. new[i] = {}
      BY <1>5, <2>1, <2>4, <3>1
    <3>3. On(t, n, S, base + i) = {} /\ {} # Full
      BY <1>3, <2>1, <3>1 DEF Full, Bit
    <3> QED
      BY <3>2, <3>3
  <2> QED
    BY <1>1, <2>1, <2>2, <2>3, <2>4
<1>7. new[BLOCKSIZE] = Full
  <2>1. BLOCKSIZE \in 0..BLOCKSIZE /\ BLOCKSIZE \notin at..(at + cnt - 1)
    BY <1>1
  <2> QED
    BY <1>5, <2>1
<1> QED
  BY <1>2, <1>4, <1>6, <1>7 DEF Reads

\* From the place of the m-th digit decrypt gets the next code, or the end.
LEMMA GetNext ==
  ASSUME NEW t, NEW S, Apart(t, Len(t), S), NEW base \in Nat, NEW tape,
         Reads(tape, base, t, Len(t), S), NEW m \in 0..Len(t),
         NEW x \in Nat, x + 23 < BLOCKSIZE, base + x = S[m],
         Got(read_from_buffer(tape, x))
  PROVE  \/ m = Len(t) /\ mode' = "done"
         \/ /\ m + 1 \in 1..Len(t) /\ mode' = "decrypt" /\ code' = t[m + 1]
            /\ c_start' \in (x + 1)..(x + 12) /\ base + c_start' = S[m + 1]
<1>1. PICK n : n = Len(t)
  OBVIOUS
<1>2. n \in Nat /\ m \in Nat /\ BLOCKSIZE \in Nat /\ S \in [0..n -> Nat]
  BY <1>1, SizeAssumption DEF Apart
<1>3. CASE m = n
  <2>1. x \in 0..(BLOCKSIZE - 1) /\ base + x = S[n]
    BY <1>2, <1>3
  <2>2. read_from_buffer(tape, x) = [kind |-> "end"]
    BY <1>1, <2>1, ReadEnd
  <2> QED
    BY <1>1, <1>3, <2>2 DEF Got
<1>4. CASE m # n
  <2>1. m + 1 \in 1..n /\ (m + 1) - 1 = m /\ m + 1 \in 0..n
    BY <1>1, <1>2, <1>4
  <2>2. PICK k, y : k = m + 1 /\ y = S[m + 1] - base
    OBVIOUS
  <2>3. k \in 1..n /\ base + x = S[k - 1]
    BY <2>1, <2>2
  <2>4. /\ read_from_buffer(tape, x) = [kind |-> "code", at |-> S[k] - base, code |-> t[k]]
        /\ S[k] - base \in (x + 1)..(x + 12)
    BY <1>1, <2>3, ReadCode
  <2>5. mode' = "decrypt" /\ code' = t[k] /\ c_start' = y
    BY <2>2, <2>4 DEF Got
  <2>6. y \in (x + 1)..(x + 12) /\ base + y = S[m + 1]
    <3>1. PICK z : z = S[m + 1]
      OBVIOUS
    <3>2. z \in Nat
      BY <1>2, <2>1, <3>1
    <3>3. base + (z - base) = z
      BY <3>2
    <3> QED
      BY <2>2, <2>4, <3>1, <3>3
  <2> QED
    BY <1>1, <2>1, <2>2, <2>5, <2>6
<1> QED
  BY <1>3, <1>4

\* A text of which all characters are put is the text.
LEMMA AllPut ==
  ASSUME NEW t \in Seq(Byte), NEW p, PutAre(p, t, Len(t))
  PROVE  p = t
  BY SeqEqual DEF PutAre

\* The end of the text.
LEMMA EndRead ==
  ASSUME RoomAssumption, EncryptInv, LaidInv, ReadInv, EncryptEnd
  PROVE  ReadInv'
<1>1. /\ mode = "encrypt" /\ taken = Len(text) /\ text' = text /\ plaintext' = plaintext
      /\ ciphertext' = ciphertext \o Written(buffer, FirstEmpty(buffer, c_start))
      /\ buffer' = Filled([Empty EXCEPT ![BLOCKSIZE] = Full], ciphertext', 0, 0, BLOCKSIZE)
      /\ Got(read_from_buffer(buffer', 0)) /\ consumed' = BLOCKSIZE
  BY DEF EncryptEnd
<1>2. text \in Seq(Byte) /\ plaintext' = <<>>
  BY <1>1 DEF ReadInv
<1>3. mode' # "encrypt"
  BY <1>1, GotIs
<1>4. PICK S : Laid(S)
  BY <1>1 DEF LaidInv
<1>5. PICK n, off, x, f : /\ n = Len(text) /\ off = Len(ciphertext) /\ x = c_start
                          /\ f = FirstEmpty(buffer, c_start)
  OBVIOUS
<1>6. /\ Apart(text, n, S) /\ Sent(ciphertext, text, n, S) /\ Shows(buffer, off, text, n, S)
      /\ off + x = S[n]
  BY <1>1, <1>4, <1>5 DEF Laid
<1>7. n \in Nat /\ off \in Nat /\ S \in [0..n -> Nat] /\ S[0] = 0 /\ BLOCKSIZE \in Nat
  BY <1>2, <1>5, <1>6, Sizes DEF Apart, Sent
<1>8. x \in 0..(Step + 11) /\ EmptyBehind(buffer, x)
  BY <1>1, <1>5 DEF EncryptInv
<1>9. f \in x..(x + 11) /\ f \in 0..BLOCKSIZE /\ buffer[f] = {}
  <2>1. x \in Nat /\ x + 11 <= BLOCKSIZE
    BY <1>8, Sizes
  <2>2. f \in x..(x + 11) /\ buffer[f] = {}
    BY <1>5, <1>8, <2>1, FirstEmptyIs
  <2>3. f \in 0..BLOCKSIZE
    BY <1>7, <2>1, <2>2
  <2> QED
    BY <2>2, <2>3
<1>10. Sent(ciphertext', text, n, S) /\ Len(ciphertext') = off + f
  <2>1. PICK out : out = ciphertext
    OBVIOUS
  <2>2. Sent(out, text, n, S) /\ off = Len(out)
    BY <1>5, <1>6, <2>1
  <2>3. Sent(out \o Written(buffer, f), text, n, S) /\ Len(out \o Written(buffer, f)) = off + f
    BY <1>6, <1>9, <2>2, WrittenIs
  <2> QED
    BY <1>1, <1>5, <2>1, <2>3
<1>11. ASSUME NEW i \in Nat, i >= off + f PROVE On(text, n, S, i) = {}
  <2>1. On(text, n, S, off + f) = {}
    BY <1>6, <1>9 DEF Shows
  <2>2. off + f \in Nat /\ S[n] <= off + f
    BY <1>6, <1>7, <1>8, <1>9
  <2> QED
    BY <1>6, <1>11, <2>1, <2>2, OffBehind
<1>12. AllSent(ciphertext', text, S)
  BY <1>5, <1>6, <1>10, <1>11 DEF AllSent
<1>13. ASSUME NeverFull'
       PROVE  /\ mode' \in {"decrypt", "done"}
              /\ mode' = "decrypt" => Held(S, 0, 0)'
              /\ mode' = "done" => plaintext' = text
  <2>1. PICK tape : tape = [Empty EXCEPT ![BLOCKSIZE] = Full]
    OBVIOUS
  <2>2. (\A i \in 0..(BLOCKSIZE - 1) : tape[i] = {}) /\ tape[BLOCKSIZE] = Full
    BY <1>7, <2>1 DEF Empty, Positions
  <2>3. Reads(buffer', 0, text, n, S)
    <3>1. \A i \in DOMAIN ciphertext' : ciphertext'[i] # Full
      BY <1>13 DEF NeverFull
    <3>2. PICK bytes, at, had, cnt : /\ bytes = ciphertext' /\ at = 0 /\ had = 0
                                     /\ cnt = BLOCKSIZE
      OBVIOUS
    <3>3. at \in 0..BLOCKSIZE /\ cnt \in Nat /\ at + cnt = BLOCKSIZE /\ had = 0 + at /\ 0 \in Nat
      BY <1>7, <3>2
    <3>4. Reads(Filled(tape, bytes, had, at, cnt), 0, text, Len(text), S)
      <4>1. AllSent(bytes, text, S) /\ \A i \in DOMAIN bytes : bytes[i] # Full
        BY <1>12, <3>1, <3>2
      <4>2. \A i \in 0..(at - 1) : tape[i] = On(text, Len(text), S, 0 + i) /\ tape[i] # Full
        BY <3>2
      <4>3. \A i \in at..(BLOCKSIZE - 1) : tape[i] = {}
        BY <2>2, <3>2
      <4> QED
        BY <2>2, <3>3, <4>1, <4>2, <4>3, FilledReads
    <3> QED
      BY <1>1, <1>5, <2>1, <3>2, <3>4
  <2>4. \/ 0 = n /\ mode' = "done"
        \/ /\ 0 + 1 \in 1..n /\ mode' = "decrypt" /\ code' = text[0 + 1]
           /\ c_start' \in (0 + 1)..(0 + 12) /\ 0 + c_start' = S[0 + 1]
    <3>1. PICK tp, y, b, m : tp = buffer' /\ y = 0 /\ b = 0 /\ m = 0
      OBVIOUS
    <3>2. /\ y \in Nat /\ y + 23 < BLOCKSIZE /\ b \in Nat /\ m \in 0..Len(text) /\ b + y = S[m]
          /\ Apart(text, Len(text), S) /\ Reads(tp, b, text, Len(text), S)
          /\ Got(read_from_buffer(tp, y))
      BY <1>1, <1>5, <1>6, <1>7, <2>3, <3>1, Sizes
    <3>3. \/ m = Len(text) /\ mode' = "done"
          \/ /\ m + 1 \in 1..Len(text) /\ mode' = "decrypt" /\ code' = text[m + 1]
             /\ c_start' \in (y + 1)..(y + 12) /\ b + c_start' = S[m + 1]
      BY <3>2, GetNext
    <3> QED
      BY <1>5, <3>1, <3>3
  <2>5. PutAre(plaintext', text, 0)
    BY <1>2 DEF PutAre
  <2>6. CASE 0 = n /\ mode' = "done"
    <3>1. plaintext' = text
      BY <1>2, <1>5, <2>5, <2>6, AllPut
    <3> QED
      BY <2>6, <3>1
  <2>7. CASE /\ 0 + 1 \in 1..n /\ mode' = "decrypt" /\ code' = text[0 + 1]
             /\ c_start' \in (0 + 1)..(0 + 12) /\ 0 + c_start' = S[0 + 1]
    <3>1. c_start' \in 0..(Step + 11) /\ consumed' = 0 + BLOCKSIZE
      BY <1>1, <2>7, Sizes
    <3> QED
      BY <1>1, <1>5, <1>12, <2>3, <2>5, <2>7, <3>1 DEF Held
  <2> QED
    BY <2>4, <2>6, <2>7
<1> QED
  BY <1>1, <1>2, <1>3, <1>12, <1>13 DEF ReadInv

\* The code decrypt holds is put, and the next one read.
LEMMA DecryptRead ==
  ASSUME RoomAssumption, ReadInv, Decrypt
  PROVE  ReadInv'
<1>1. /\ mode = "decrypt" /\ c_start < Step /\ plaintext' = Append(plaintext, code)
      /\ Got(read_from_buffer(buffer, c_start)) /\ text' = text /\ buffer' = buffer
      /\ ciphertext' = ciphertext /\ consumed' = consumed
  BY DEF Decrypt
<1>2. text \in Seq(Byte) /\ mode' # "encrypt"
  BY <1>1, GotIs DEF ReadInv
<1>3. ASSUME NeverFull'
      PROVE  /\ mode' \in {"decrypt", "done"}
             /\ mode' = "decrypt" => \E S, m, base : Held(S, m, base)'
             /\ mode' = "done" => plaintext' = text
  <2>1. NeverFull
    BY <1>1, <1>3 DEF NeverFull
  <2>2. PICK S, k, base : Held(S, k, base)
    BY <1>1, <2>1 DEF ReadInv
  <2>3. PICK n, x, m : n = Len(text) /\ x = c_start /\ m = k + 1
    OBVIOUS
  <2>4. /\ Apart(text, n, S) /\ m \in 1..n /\ k \in Nat /\ m \in Nat /\ n \in Nat
        /\ PutAre(plaintext, text, k) /\ code = text[m]
        /\ base \in Nat /\ consumed = base + BLOCKSIZE
        /\ base + x = S[m] /\ x \in 0..(Step + 11) /\ x < Step
        /\ Reads(buffer, base, text, n, S) /\ AllSent(ciphertext, text, S)
    BY <1>1, <1>2, <2>2, <2>3 DEF Held, AllSent
  <2>5. \/ m = n /\ mode' = "done"
        \/ /\ m + 1 \in 1..n /\ mode' = "decrypt" /\ code' = text[m + 1]
           /\ c_start' \in (x + 1)..(x + 12) /\ base + c_start' = S[m + 1]
    <3>1. PICK tape : tape = buffer
      OBVIOUS
    <3>2. /\ x \in Nat /\ x + 23 < BLOCKSIZE /\ m \in 0..Len(text)
          /\ Apart(text, Len(text), S) /\ Reads(tape, base, text, Len(text), S)
          /\ Got(read_from_buffer(tape, x))
      <4>1. BLOCKSIZE \in Nat /\ Step \in Nat /\ BLOCKSIZE >= Step + 23
        BY Sizes
      <4>2. x \in Nat /\ x < Step /\ m \in 0..n
        BY <2>4
      <4>3. x \in Nat /\ x + 23 < BLOCKSIZE
        BY <4>1, <4>2
      <4> QED
        BY <1>1, <2>3, <2>4, <3>1, <4>2, <4>3
    <3>3. \/ m = Len(text) /\ mode' = "done"
          \/ /\ m + 1 \in 1..Len(text) /\ mode' = "decrypt" /\ code' = text[m + 1]
             /\ c_start' \in (x + 1)..(x + 12) /\ base + c_start' = S[m + 1]
      BY <2>4, <3>2, GetNext
    <3> QED
      BY <2>3, <3>3
  <2>6. PutAre(plaintext', text, m)
    <3>1. PICK p, c : p = plaintext /\ c = code
      OBVIOUS
    <3>2. p \in Seq(Byte) /\ Len(p) = k /\ (\A i \in 1..k : p[i] = text[i])
          /\ c = text[m] /\ c \in Byte
      BY <1>2, <2>3, <2>4, <3>1 DEF PutAre
    <3>3. /\ Append(p, c) \in Seq(Byte) /\ Len(Append(p, c)) = k + 1
          /\ \A i \in 1..k : Append(p, c)[i] = p[i]
          /\ Append(p, c)[k + 1] = c
      BY <3>2, AppendProperties
    <3>4. \A i \in 1..m : i \in 1..k \/ i = k + 1
      BY <2>3, <2>4
    <3>5. \A i \in 1..m : Append(p, c)[i] = text[i]
      BY <2>3, <3>2, <3>3, <3>4
    <3> QED
      BY <1>1, <2>3, <3>1, <3>3, <3>5 DEF PutAre
  <2>7. CASE m = n /\ mode' = "done"
    <3>1. plaintext' = text
      BY <1>2, <2>3, <2>6, <2>7, AllPut
    <3> QED
      BY <2>7, <3>1
  <2>8. CASE /\ m + 1 \in 1..n /\ mode' = "decrypt" /\ code' = text[m + 1]
             /\ c_start' \in (x + 1)..(x + 12) /\ base + c_start' = S[m + 1]
    <3>1. c_start' \in 0..(Step + 11)
      BY <2>4, <2>8, Sizes
    <3>2. Held(S, m, base)'
      BY <1>1, <2>3, <2>4, <2>6, <2>8, <3>1 DEF Held
    <3> QED
      BY <2>8, <3>2
  <2> QED
    BY <2>5, <2>7, <2>8
<1> QED
  BY <1>1, <1>2, <1>3 DEF ReadInv

\* The tape is rolled: nothing moves on the tape without end.
LEMMA DecryptRollRead ==
  ASSUME RoomAssumption, ReadInv, DecryptRoll
  PROVE  ReadInv'
<1>1. /\ mode = "decrypt" /\ c_start >= Step /\ c_start' = c_start - Step
      /\ buffer' = Filled(Rolled(buffer), ciphertext, consumed, BUFFER_SIZE, Step)
      /\ consumed' = consumed + Step /\ text' = text /\ mode' = mode
      /\ ciphertext' = ciphertext /\ code' = code /\ plaintext' = plaintext
  BY DEF DecryptRoll
<1>2. text \in Seq(Byte)
  BY DEF ReadInv
<1>3. ASSUME NeverFull'
      PROVE  \E S, m, base : Held(S, m, base)'
  <2>1. NeverFull
    BY <1>1, <1>3 DEF NeverFull
  <2>2. PICK S, m, old : Held(S, m, old)
    BY <1>1, <2>1 DEF ReadInv
  <2>3. PICK n, x, base : n = Len(text) /\ x = c_start /\ base = old + Step
    OBVIOUS
  <2>4. /\ m + 1 \in 1..n /\ m \in Nat /\ PutAre(plaintext, text, m) /\ code = text[m + 1]
        /\ old \in Nat /\ consumed = old + BLOCKSIZE
        /\ old + x = S[m + 1] /\ x \in 0..(Step + 11) /\ x >= Step
        /\ Reads(buffer, old, text, n, S) /\ AllSent(ciphertext, text, S)
    BY <1>1, <2>2, <2>3 DEF Held
  <2>5. base \in Nat /\ consumed = base + BUFFER_SIZE /\ consumed' = base + BLOCKSIZE
    <3>1. /\ BLOCKSIZE \in Nat /\ BUFFER_SIZE \in Nat /\ Step \in Nat
          /\ BLOCKSIZE = Step + BUFFER_SIZE
      BY Sizes
    <3>2. base = old + Step /\ old \in Nat /\ consumed = old + BLOCKSIZE
      BY <2>3, <2>4
    <3>3. base \in Nat /\ consumed = base + BUFFER_SIZE /\ consumed + Step = base + BLOCKSIZE
      BY <3>1, <3>2
    <3> QED
      BY <1>1, <3>3
  <2>6. c_start' \in 0..(Step + 11) /\ base + c_start' = S[m + 1]
    <3>1. x - Step \in 0..(Step + 11) /\ base + (x - Step) = old + x
      <4>1. Step \in Nat /\ base = old + Step /\ old \in Nat /\ x \in 0..(Step + 11) /\ x >= Step
        BY <2>3, <2>4, Sizes
      <4> QED
        BY <4>1
    <3> QED
      BY <1>1, <2>3, <2>4, <3>1
  <2>7. Reads(buffer', base, text, n, S)
    <3>1. PICK tape, at, cnt, had : /\ tape = Rolled(buffer) /\ at = BUFFER_SIZE /\ cnt = Step
                                    /\ had = consumed
      OBVIOUS
    <3>2. at \in 0..BLOCKSIZE /\ cnt \in Nat /\ at + cnt = BLOCKSIZE /\ had = base + at
      BY <2>5, <3>1, Sizes
    <3>3. ASSUME NEW i \in 0..(at - 1)
          PROVE  tape[i] = On(text, Len(text), S, base + i) /\ tape[i] # Full
      <4>1. /\ i \in Positions /\ i # -1 /\ i # BLOCKSIZE /\ i < BUFFER_SIZE
            /\ i + Step \in 0..(BLOCKSIZE - 1) /\ old + (i + Step) = base + i
        <5>1. /\ BLOCKSIZE \in Nat /\ BUFFER_SIZE \in Nat /\ Step \in Nat
              /\ BLOCKSIZE = Step + BUFFER_SIZE /\ Step >= 12
          BY Sizes
        <5>2. base = old + Step /\ old \in Nat /\ i \in 0..(BUFFER_SIZE - 1)
          BY <2>3, <2>4, <3>1
        <5> QED
          BY <5>1, <5>2 DEF Positions
      <4>2. tape[i] = buffer[i + Step]
        BY <3>1, <4>1 DEF Rolled
      <4>3. buffer[i + Step] = On(text, n, S, old + (i + Step)) /\ buffer[i + Step] # Full
        BY <2>4, <4>1 DEF Reads
      <4> QED
        BY <2>3, <4>1, <4>2, <4>3
    <3>4. ASSUME NEW i \in at..(BLOCKSIZE - 1) PROVE tape[i] = {}
      <4>1. i \in Positions /\ i # -1 /\ i # BLOCKSIZE /\ ~(i < BUFFER_SIZE)
        BY <3>1, Sizes DEF Positions
      <4> QED
        BY <3>1, <4>1 DEF Rolled
    <3>5. tape[BLOCKSIZE] = Full
      <4>1. BLOCKSIZE \in Positions
        BY Sizes DEF Positions
      <4> QED
        BY <2>4, <3>1, <4>1 DEF Rolled, Reads
    <3>6. \A i \in DOMAIN ciphertext : ciphertext[i] # Full
      BY <2>1 DEF NeverFull
    <3>7. PICK bytes : bytes = ciphertext
      OBVIOUS
    <3>8. AllSent(bytes, text, S) /\ \A i \in DOMAIN bytes : bytes[i] # Full
      BY <2>4, <3>6, <3>7
    <3>9. Reads(Filled(tape, bytes, had, at, cnt), base, text, Len(text), S)
      BY <2>5, <3>2, <3>3, <3>4, <3>5, <3>8, FilledReads
    <3> QED
      BY <1>1, <2>3, <3>1, <3>7, <3>9
  <2>8. Held(S, m, base)'
    BY <1>1, <2>3, <2>4, <2>5, <2>6, <2>7 DEF Held
  <2> QED
    BY <2>8
<1> QED
  BY <1>1, <1>2, <1>3 DEF ReadInv

\* At the start nothing has been read.
LEMMA InitRead ==
  ASSUME Init
  PROVE  ReadInv
<1>1. mode = "encrypt" /\ plaintext = <<>> /\ text \in Seq(Byte)
  BY TextsAssumption DEF Init
<1> QED
  BY <1>1 DEF ReadInv

\* Every step of decrypt puts the next character of the text.
LEMMA NextRead ==
  ASSUME RoomAssumption, EncryptInv, LaidInv, ReadInv, [Next]_vars
  PROVE  ReadInv'
<1>1. CASE Encrypt
  BY <1>1 DEF Encrypt, ReadInv
<1>2. CASE EncryptRoll
  BY <1>2 DEF EncryptRoll, ReadInv
<1>3. CASE EncryptEnd
  BY <1>3, EndRead
<1>4. CASE Decrypt
  BY <1>4, DecryptRead
<1>5. CASE DecryptRoll
  BY <1>5, DecryptRollRead
<1>6. CASE UNCHANGED vars
  <2>1. /\ text' = text /\ mode' = mode /\ buffer' = buffer /\ c_start' = c_start
        /\ ciphertext' = ciphertext /\ consumed' = consumed /\ code' = code
        /\ plaintext' = plaintext
    BY <1>6 DEF vars
  <2>2. ASSUME NEW S, NEW m, NEW base, Held(S, m, base) PROVE Held(S, m, base)'
    BY <2>1, <2>2 DEF Held
  <2> QED
    BY <2>1, <2>2 DEF ReadInv, NeverFull
<1> QED
  BY <1>1, <1>2, <1>3, <1>4, <1>5, <1>6 DEF Next, Finished

\* What has been put is the first of the text, and all of it at the end.
LEMMA ReadRoundTrip ==
  ASSUME ReadInv, NeverFull
  PROVE  RoundTrip
<1>1. /\ text \in Seq(Byte) /\ mode # "thrown" /\ (mode = "done" => plaintext = text)
      /\ mode \in {"encrypt", "decrypt", "done"}
  BY DEF ReadInv
<1>2. PICK m \in 0..Len(text) : PutAre(plaintext, text, m)
  <2>1. CASE mode = "encrypt"
    <3>1. plaintext = <<>>
      BY <2>1 DEF ReadInv
    <3>2. PutAre(plaintext, text, 0) /\ 0 \in 0..Len(text)
      BY <1>1, <3>1 DEF PutAre
    <3> QED
      BY <3>2
  <2>2. CASE mode = "decrypt"
    <3>1. PICK S, k, base : Held(S, k, base)
      BY <2>2 DEF ReadInv
    <3>2. k \in 0..Len(text) /\ PutAre(plaintext, text, k)
      BY <1>1, <3>1 DEF Held
    <3> QED
      BY <3>2
  <2>3. CASE mode = "done"
    <3>1. PutAre(plaintext, text, Len(text)) /\ Len(text) \in 0..Len(text)
      BY <1>1, <2>3 DEF PutAre
    <3> QED
      BY <3>1
  <2> QED
    BY <1>1, <2>1, <2>2, <2>3
<1>3. IsPrefix(plaintext, text)
  <2>1. PICK p, t, n : p = plaintext /\ t = text /\ n = Len(text)
    OBVIOUS
  <2>2. /\ p \in Seq(Byte) /\ t \in Seq(Byte) /\ Len(p) = m /\ n = Len(t) /\ n \in Nat
        /\ m \in 0..n /\ \A i \in 1..m : p[i] = t[i]
    BY <1>1, <1>2, <2>1 DEF PutAre
  <2>3. SubSeq(p, 1, m) = SubSeq(t, 1, m)
    <3>1. \A i \in 1..m : p[i] \in Byte /\ t[i] \in Byte
      BY <2>2
    <3>2. m \in Int /\ 1 \in Int /\ m - 1 + 1 = m /\ (1 <= m <=> m # 0)
      BY <2>2
    <3>3. /\ SubSeq(p, 1, m) \in Seq(Byte) /\ Len(SubSeq(p, 1, m)) = IF 1 <= m THEN m - 1 + 1 ELSE 0
          /\ \A i \in 1..(m - 1 + 1) : SubSeq(p, 1, m)[i] = p[1 + i - 1]
      BY <3>1, <3>2, SubSeqProperties
    <3>4. /\ SubSeq(t, 1, m) \in Seq(Byte) /\ Len(SubSeq(t, 1, m)) = IF 1 <= m THEN m - 1 + 1 ELSE 0
          /\ \A i \in 1..(m - 1 + 1) : SubSeq(t, 1, m)[i] = t[1 + i - 1]
      BY <3>1, <3>2, SubSeqProperties
    <3>5. Len(SubSeq(p, 1, m)) = m /\ Len(SubSeq(t, 1, m)) = m
      BY <3>2, <3>3, <3>4
    <3>6. ASSUME NEW i \in 1..m PROVE SubSeq(p, 1, m)[i] = SubSeq(t, 1, m)[i]
      <4>1. 1 + i - 1 = i /\ i \in 1..(m - 1 + 1)
        BY <2>2
      <4> QED
        BY <2>2, <3>3, <3>4, <4>1
    <3> QED
      BY <3>3, <3>4, <3>5, <3>6, SeqEqual
  <2> QED
    BY <2>1, <2>2, <2>3 DEF IsPrefix
<1> QED
  BY <1>1, <1>3 DEF RoundTrip

\* The digit of the code that decrypt holds has ended before the tape does.
LEMMA ReadRoom ==
  ASSUME RoomAssumption, ReadInv, NeverFull
  PROVE  RoomToDecrypt
<1> SUFFICES ASSUME mode = "decrypt"
             PROVE  First(c_start, LAMBDA i : to_full_code(code).digit \notin buffer[i])
                      < BLOCKSIZE
  BY DEF RoomToDecrypt
<1>1. PICK S, k, base : Held(S, k, base)
  BY DEF ReadInv
<1>2. PICK n, x, m, c : n = Len(text) /\ x = c_start /\ m = k + 1 /\ c = CodeOf(text, k + 1)
  OBVIOUS
<1>3. /\ Apart(text, n, S) /\ m \in 1..n /\ base \in Nat /\ base + x = S[m]
      /\ x \in 0..(Step + 11) /\ Reads(buffer, base, text, n, S) /\ c = to_full_code(code)
      /\ c = CodeOf(text, m)
  BY <1>1, <1>2 DEF Held, AllSent, CodeOf
<1>4. c.count \in 1..11 /\ BLOCKSIZE \in Nat
  BY <1>3, ApartIs, Sizes
<1>5. PICK y : y = x + c.count
  OBVIOUS
<1>6. /\ y \in 0..(BLOCKSIZE - 1) /\ y \in x..BLOCKSIZE /\ x \in Nat
      /\ base + y = S[m] + c.count
  <2>1. PICK a : a = c.count
    OBVIOUS
  <2>2. a \in 1..11 /\ y = x + a
    BY <1>4, <1>5, <2>1
  <2>3. y \in 0..(BLOCKSIZE - 1) /\ y \in x..BLOCKSIZE /\ x \in Nat /\ base + y = (base + x) + a
    BY <1>3, <2>2, Sizes
  <2> QED
    BY <1>3, <2>1, <2>3
<1>7. c.digit \notin buffer[y]
  <2>1. c.digit \notin On(text, n, S, S[m] + c.count)
    BY <1>3, DigitEnds
  <2>2. buffer[y] = On(text, n, S, base + y)
    BY <1>3, <1>6 DEF Reads
  <2> QED
    BY <1>6, <2>1, <2>2
<1>8. PICK T : T = {i \in x..BLOCKSIZE : c.digit \notin buffer[i]}
  OBVIOUS
<1>9. PICK f : f = Min(T \cup {BLOCKSIZE + 1})
  OBVIOUS
<1>10. f \in x..y
  <2>1. y \in T /\ T \in SUBSET (x..BLOCKSIZE)
    BY <1>6, <1>7, <1>8
  <2> QED
    BY <1>4, <1>6, <1>9, <2>1, FoundIs
<1>11. f < BLOCKSIZE
  BY <1>6, <1>10, Sizes
<1>12. First(c_start, LAMBDA i : to_full_code(code).digit \notin buffer[i]) = f
  BY <1>2, <1>3, <1>8, <1>9 DEF First
<1> QED
  BY <1>11, <1>12

\* What holds of every step that tells the characters apart.
LEMMA LaidAndRead ==
  ASSUME RoomAssumption
  PROVE  Spec /\ [][ToldApart]_vars => [](EncryptInv /\ LaidInv /\ ReadInv)
<1>1. Init => EncryptInv /\ LaidInv /\ ReadInv
  BY InitEncrypt, InitLaid, InitRead
<1>2. EncryptInv /\ LaidInv /\ ReadInv /\ [Next]_vars /\ [ToldApart]_vars
        => (EncryptInv /\ LaidInv /\ ReadInv)'
  BY NextEncrypt, NextLaid, NextRead
<1> QED
  BY <1>1, <1>2, PTL DEF Spec

\* Whatever the texts and the sizes, a text comes out as it went in, unless a
\* character was not told apart from those before or 0xFF was written.
THEOREM ComesBack ==
  ASSUME RoomAssumption
  PROVE  Spec /\ [][ToldApart]_vars => [](NeverFull => RoundTrip)
<1>1. EncryptInv /\ LaidInv /\ ReadInv => (NeverFull => RoundTrip)
  BY ReadRoundTrip
<1> QED
  BY <1>1, LaidAndRead, PTL

\* Likewise, decrypt finds the end of every digit inside its buffer.
THEOREM ReadsInBuffer ==
  ASSUME RoomAssumption
  PROVE  Spec /\ [][ToldApart]_vars => [](NeverFull => RoomToDecrypt)
<1>1. EncryptInv /\ LaidInv /\ ReadInv => (NeverFull => RoomToDecrypt)
  BY ReadRoom
<1> QED
  BY <1>1, LaidAndRead, PTL

\* A text whose characters are told apart whatever the tape: no code of count
\* 11, no ones right behind a code that has none, and one key is never pressed.
Clear(t) ==
  /\ \A i \in 1..Len(t) : CodeOf(t, i).count # 11
  /\ \A i \in 2..Len(t) : CodeOf(t, i).ones > 0 => CodeOf(t, i - 1).ones > 0
  /\ \E b \in Bit : \A i \in 1..Len(t) :
       b # CodeOf(t, i).digit /\ (b = One => CodeOf(t, i).ones = 0)

\* A key that is never pressed is on no byte.
LEMMA NeverPressed ==
  ASSUME NEW t, Clear(t), NEW n, NEW S, Apart(t, n, S), NEW i
  PROVE  On(t, n, S, i) # Full
<1>1. PICK b \in Bit : \A k \in 1..Len(t) :
        b # CodeOf(t, k).digit /\ (b = One => CodeOf(t, k).ones = 0)
  BY DEF Clear
<1>2. ASSUME b \in On(t, n, S, i) PROVE FALSE
  <2>1. PICK k \in 1..n : (b = One /\ i \in OnesOf(t, S, k)) \/ b = CodeOf(t, k).digit
    BY <1>2 DEF On
  <2>2. k \in 1..Len(t) /\ S[k] \in Nat
    BY ApartIs
  <2>3. CodeOf(t, k).ones = 0 /\ i \in OnesOf(t, S, k)
    BY <1>1, <2>1, <2>2
  <2> QED
    BY <2>2, <2>3 DEF OnesOf
<1> QED
  BY <1>2 DEF Full

\* Nor is it on a byte that has gone out.
LEMMA ClearNeverFull ==
  ASSUME Clear(text), LaidInv, ReadInv
  PROVE  NeverFull
<1>1. PICK n, S : Apart(text, n, S) /\ Sent(ciphertext, text, n, S)
  BY DEF LaidInv, Laid, ReadInv, AllSent
<1>2. ASSUME NEW i \in DOMAIN ciphertext PROVE ciphertext[i] # Full
  <2>1. i \in 1..Len(ciphertext)
    BY <1>1 DEF Sent
  <2>2. ciphertext[i] = On(text, n, S, i - 1)
    BY <1>1, <2>1 DEF Sent
  <2> QED
    BY <1>1, <2>2, NeverPressed
<1> QED
  BY <1>2 DEF NeverFull

\* encrypt tells the next character of a text that is clear apart.
LEMMA ClearToldApart ==
  ASSUME RoomAssumption, Clear(text), EncryptInv, LaidInv
  PROVE  ToldApart
<1>1. ASSUME mode = "encrypt", taken < Len(text), NEW tape, NEW s
      PROVE  ElevenApart(tape, text[taken + 1], s)
  <2>1. taken \in 0..Len(text) /\ text \in Seq(Byte)
    BY <1>1, TextsAssumption DEF EncryptInv
  <2>2. taken + 1 \in 1..Len(text)
    BY <1>1, <2>1
  <2> QED
    BY <2>2 DEF Clear, CodeOf, ElevenApart
<1>2. ASSUME mode = "encrypt", taken < Len(text), c_start = Step, Ones(text[taken + 1]) > 0
      PROVE  One \in buffer[Step - 1]
  <2>1. PICK S : Laid(S)
    BY <1>2 DEF LaidInv
  <2>2. PICK n, off, q : n = taken /\ off = Len(ciphertext) /\ q = S[taken]
    OBVIOUS
  <2>3. /\ Apart(text, n, S) /\ n \in 0..Len(text) /\ off \in Nat /\ S \in [0..n -> Nat]
        /\ S[0] = 0 /\ Shows(buffer, off, text, n, S) /\ off + Step = q /\ q = S[n]
        /\ text \in Seq(Byte) /\ n < Len(text)
    BY <1>2, <2>1, <2>2 DEF Laid, Apart, Sent
  <2>4. n > 0
    <3>1. n # 0
      BY <2>3, Sizes
    <3> QED
      BY <2>3, <3>1
  <2>5. CodeOf(text, n).ones > 0
    <3>1. n + 1 \in 2..Len(text) /\ n + 1 \in 1..Len(text) /\ (n + 1) - 1 = n
      BY <2>3, <2>4
    <3>2. CodeOf(text, n + 1).ones > 0
      <4>1. text[n + 1] \in Byte
        BY <2>3, <3>1
      <4> QED
        BY <1>2, <2>2, <4>1, FullCodeIs DEF CodeOf
    <3> QED
      BY <3>1, <3>2 DEF Clear
  <2>6. n \in 1..n
    BY <2>3, <2>4
  <2>7. q - 1 \in OnesOf(text, S, n)
    <3>1. PICK o : o = CodeOf(text, n).ones
      OBVIOUS
    <3>2. o \in 0..3 /\ o > 0 /\ q \in Nat
      BY <2>3, <2>5, <2>6, <3>1, ApartIs
    <3>3. q - 1 \in (q - o)..(q - 1)
      BY <3>2
    <3> QED
      BY <2>3, <3>1, <3>3 DEF OnesOf
  <2>8. One \in On(text, n, S, q - 1)
    BY <2>6, <2>7 DEF On, One, Bit
  <2>9. Step - 1 \in 0..BLOCKSIZE /\ off + (Step - 1) = q - 1
    BY <2>3, Sizes
  <2> QED
    BY <2>3, <2>8, <2>9 DEF Shows
<1> QED
  BY <1>1, <1>2 DEF ToldApart, Encrypt, EncryptRoll

\* A step that encrypts texts that are clear tells their characters apart.
LEMMA ClearLaidAndRead ==
  ASSUME RoomAssumption, \A t \in Texts : Clear(t)
  PROVE  Spec => [](EncryptInv /\ LaidInv /\ ReadInv)
<1>1. Init => EncryptInv /\ LaidInv /\ ReadInv
  BY InitEncrypt, InitLaid, InitRead
<1>2. EncryptInv /\ LaidInv /\ ReadInv /\ [Next]_vars => (EncryptInv /\ LaidInv /\ ReadInv)'
  <2> SUFFICES ASSUME EncryptInv, LaidInv, ReadInv, [Next]_vars
               PROVE  (EncryptInv /\ LaidInv /\ ReadInv)'
    OBVIOUS
  <2>1. ToldApart
    BY ClearToldApart DEF EncryptInv
  <2> QED
    BY <2>1, NextEncrypt, NextLaid, NextRead
<1> QED
  BY <1>1, <1>2, PTL DEF Spec

\* Every text that is clear comes out as it went in.
THEOREM ClearComesBack ==
  ASSUME RoomAssumption, \A t \in Texts : Clear(t)
  PROVE  Spec => []RoundTrip
<1>1. EncryptInv /\ LaidInv /\ ReadInv => RoundTrip
  BY ClearNeverFull, ReadRoundTrip DEF EncryptInv
<1> QED
  BY <1>1, ClearLaidAndRead, PTL

\* Likewise, decrypt finds the end of every digit of it inside its buffer.
THEOREM ClearReadsInBuffer ==
  ASSUME RoomAssumption, \A t \in Texts : Clear(t)
  PROVE  Spec => []RoomToDecrypt
<1>1. EncryptInv /\ LaidInv /\ ReadInv => RoomToDecrypt
  BY ClearNeverFull, ReadRoom DEF EncryptInv
<1> QED
  BY <1>1, ClearLaidAndRead, PTL
=============================================================================
