------------------------------- MODULE Cipher -------------------------------
(***************************************************************************)
(* encrypt and decrypt (src/crypt/encrypt.cpp): a text is written press by *)
(* press on a tape of bytes, each code starting as early as it can be told *)
(* apart from the one before; a block of tape at a time goes to the        *)
(* ciphertext, and decrypt reads it back the same way.                     *)
(*                                                                         *)
(* A codebook is a permutation of the bytes, so a character is identified  *)
(* here with its byte code, codebook*p; codebook+p is its full code.  A    *)
(* byte of tape is the set of its bits.  Position -1 is the byte 0xFF that *)
(* encrypt keeps before its buffer, BLOCKSIZE the one decrypt keeps behind *)
(* it.  A step is one turn of a loop of encrypt or decrypt.                *)
(***************************************************************************)
EXTENDS Codes, Integers, SequencesExt

CONSTANTS
  BLOCKSIZE,    \* bytes in the buffer (256)
  BUFFER_SIZE,  \* bytes kept when a block is written (32)
  Texts         \* the texts that are encrypted: sequences of bytes

ASSUME SizeAssumption ==
  /\ BLOCKSIZE \in Nat /\ BUFFER_SIZE \in Nat \ {0}
  /\ BLOCKSIZE > BUFFER_SIZE

ASSUME TextsAssumption == \A t \in Texts : t \in Seq(Byte)

VARIABLES
  text,       \* the text being encrypted
  taken,      \* how many characters encrypt has got from it
  mode,       \* "encrypt", "decrypt", "done" or "thrown"
  buffer,     \* the tape
  c_start,    \* where the next code may start
  ciphertext, \* the bytes written
  consumed,   \* how many of them decrypt has read
  code,       \* the code decrypt holds and has not put yet
  plaintext   \* the characters decrypt has put

vars == <<text, taken, mode, buffer, c_start, ciphertext, consumed, code, plaintext>>

Full == Bit                        \* the byte 0xFF
Step == BLOCKSIZE - BUFFER_SIZE    \* what goes out with a block
Positions == (-1)..BLOCKSIZE
Empty == [i \in Positions |-> {}]

\* The first position from x on where P holds, as a loop finds it; past the
\* buffer if there is none.
First(x, P(_)) == Min({i \in x..BLOCKSIZE : P(i)} \cup {BLOCKSIZE + 1})

Init ==
  /\ text \in Texts
  /\ taken = 0
  /\ mode = "encrypt"
  /\ buffer = [Empty EXCEPT ![-1] = Full]
  /\ c_start = 0
  /\ ciphertext = <<>>
  /\ consumed = 0
  /\ code = 0
  /\ plaintext = <<>>

-----------------------------------------------------------------------------
(* encrypt *)

\* The number of ones and the bit of the digit, as where_to_write_in_buffer
\* takes them from the byte code.
Ones(b) == IF DDD(b) # 0 THEN OO(b) ELSE IF CCC(b) # 0 THEN OO(b) \div 2 ELSE 0
DigitBit(b) == IF DDD(b) # 0 THEN DDD(b) ELSE IF CCC(b) # 0 THEN CCC(b) ELSE OO(b)

\* Mutated: a digit may start right behind a run of the same digit.
where_to_write_in_buffer_Touching(tape, b, start) ==
  LET dig_start == First(start + Ones(b), LAMBDA i : DigitBit(b) \notin tape[i])
      one_start == IF Ones(b) = 0 \/ One \notin tape[start - 1] THEN start + 1 ELSE start
  IN Max({dig_start - Ones(b), one_start})

where_to_write_in_buffer(tape, b, start) ==
  LET free == First(start + Ones(b), LAMBDA i : DigitBit(b) \notin tape[i])
      dig_start == IF DigitBit(b) \in tape[free - 1] THEN free + 1 ELSE free
      one_start == IF Ones(b) = 0 \/ One \notin tape[start - 1] THEN start + 1 ELSE start
  IN Max({dig_start - Ones(b), one_start})

\* The tape with full code c at position where.
write_to_buffer(tape, c, where) ==
  [i \in Positions |->
     tape[i] \cup (IF i \in where..(where + c.ones - 1) THEN {One} ELSE {})
             \cup (IF i \in (where + c.ones)..(where + c.ones + c.count - 1)
                     THEN {c.digit} ELSE {})]

\* The tape and the start that a character leaves.
Put(tape, b, start) ==
  LET where == where_to_write_in_buffer(tape, b, start)
  IN /\ buffer' = write_to_buffer(tape, to_full_code(b), where)
     /\ c_start' = where + to_full_code(b).ones

\* The first empty byte from x on.
FirstEmpty(tape, x) == First(x, LAMBDA i : tape[i] = {})

\* The bytes of the tape from 0 to n - 1.
Written(tape, n) == [i \in 1..n |-> tape[i - 1]]

\* The last BUFFER_SIZE bytes come first, and zeros follow.
Rolled(tape) ==
  [i \in Positions |-> IF i = -1 \/ i = BLOCKSIZE THEN tape[i]
                       ELSE IF i < BUFFER_SIZE THEN tape[i + Step] ELSE {}]

\* Mutated: a block is not written before the buffer is full.
Encrypt_Late ==
  /\ mode = "encrypt"
  /\ taken < Len(text)
  /\ c_start < BLOCKSIZE
  /\ Put(buffer, text[taken + 1], c_start)
  /\ taken' = taken + 1
  /\ UNCHANGED <<text, mode, ciphertext, consumed, code, plaintext>>

Encrypt ==
  /\ mode = "encrypt"
  /\ taken < Len(text)
  /\ c_start < Step
  /\ Put(buffer, text[taken + 1], c_start)
  /\ taken' = taken + 1
  /\ UNCHANGED <<text, mode, ciphertext, consumed, code, plaintext>>

EncryptRoll ==
  /\ mode = "encrypt"
  /\ taken < Len(text)
  /\ c_start >= Step
  /\ ciphertext' = ciphertext \o Written(buffer, Step)
  /\ Put(Rolled(buffer), text[taken + 1], c_start - Step)
  /\ taken' = taken + 1
  /\ UNCHANGED <<text, mode, consumed, code, plaintext>>

-----------------------------------------------------------------------------
(* decrypt *)

\* n more of the bytes at position at of the tape, of which decrypt has had some.
Filled(tape, bytes, had, at, n) ==
  [i \in Positions |-> IF i \in at..(at + n - 1) /\ had + i - at < Len(bytes)
                         THEN bytes[had + i - at + 1] ELSE tape[i]]

\* New bits at position i, where a sequence, or its digit, starts.
Raised(tape, i) == tape[i] \ tape[i - 1]

\* Where the next code starts, where its digit, and where that ends.
CodeStart(tape, where) ==
  IF One \in tape[where] THEN where ELSE First(where + 1, LAMBDA i : Raised(tape, i) # {})
DigitStart(tape, new) ==
  IF One \in tape[new] THEN First(new + 1, LAMBDA i : Raised(tape, i) # {}) ELSE new
DigitEnd(tape, r) == First(r + 1, LAMBDA i : tape[i] \cap Raised(tape, r) = {})

\* The end of the tape, or the next code, and where the one after may start.
\* Bits that no code has are an error.
read_from_buffer(tape, where) ==
  LET new == CodeStart(tape, where)
      r == DigitStart(tape, new)
      end == DigitEnd(tape, r)
  IN IF tape[new] = Full THEN [kind |-> "end"]
     ELSE IF \E d \in Digit : Raised(tape, r) = {d}
       THEN [kind |-> "code", at |-> r,
             code |-> Pack(r - new, CHOOSE d \in Digit : Raised(tape, r) = {d}, end - r - 1)]
       ELSE [kind |-> "error"]

\* What decrypt does with what it has read from the tape.
Got(g) ==
  CASE g.kind = "end"   -> mode' = "done" /\ UNCHANGED <<code, c_start>>
    [] g.kind = "error" -> mode' = "thrown" /\ UNCHANGED <<code, c_start>>
    [] g.kind = "code"  -> mode' = "decrypt" /\ code' = g.code /\ c_start' = g.at

\* The text is at its end: encrypt writes up to the first empty byte, and
\* decrypt starts on the result.
EncryptEnd ==
  /\ mode = "encrypt"
  /\ taken = Len(text)
  /\ ciphertext' = ciphertext \o
       Written(buffer, FirstEmpty(buffer, c_start))
  /\ LET tape == Filled([Empty EXCEPT ![BLOCKSIZE] = Full], ciphertext', 0, 0, BLOCKSIZE)
     IN buffer' = tape /\ Got(read_from_buffer(tape, 0))
  /\ consumed' = BLOCKSIZE
  /\ UNCHANGED <<text, taken, plaintext>>

\* Mutated: the tape is read to its end before it is rolled.
Decrypt_Late ==
  /\ mode = "decrypt"
  /\ c_start < BLOCKSIZE
  /\ plaintext' = Append(plaintext, code)
  /\ Got(read_from_buffer(buffer, c_start))
  /\ UNCHANGED <<text, taken, buffer, ciphertext, consumed>>

Decrypt ==
  /\ mode = "decrypt"
  /\ c_start < Step
  /\ plaintext' = Append(plaintext, code)
  /\ Got(read_from_buffer(buffer, c_start))
  /\ UNCHANGED <<text, taken, buffer, ciphertext, consumed>>

DecryptRoll ==
  /\ mode = "decrypt"
  /\ c_start >= Step
  /\ buffer' = Filled(Rolled(buffer), ciphertext, consumed, BUFFER_SIZE, Step)
  /\ c_start' = c_start - Step
  /\ consumed' = consumed + Step
  /\ UNCHANGED <<text, taken, mode, ciphertext, code, plaintext>>

Finished == mode \in {"done", "thrown"} /\ UNCHANGED vars

Next == Encrypt \/ EncryptRoll \/ EncryptEnd \/ Decrypt \/ DecryptRoll \/ Finished

Spec == Init /\ [][Next]_vars

-----------------------------------------------------------------------------
(* Properties *)

\* What is decrypted is what was encrypted: decrypt never puts a character the
\* text does not have there, never meets bits that are no code, and stops at
\* the end of the text and no sooner, however codes overlap on the tape and
\* wherever the blocks fall ("starting each sequence of raised bits as soon as
\* it is possible to do so without ambiguity", doc/millennium.tex:23).
RoundTrip ==
  /\ IsPrefix(plaintext, text)
  /\ mode # "thrown"
  /\ mode = "done" => plaintext = text

\* BUFFER_SIZE bytes are enough room behind the last start of a code: encrypt
\* writes nothing behind its buffer, and finds the end of the last press inside
\* it, though codes are placed before it looks whether the block is full.
RoomToEncrypt ==
  mode = "encrypt" => buffer[BLOCKSIZE] = {} /\ FirstEmpty(buffer, c_start) < BLOCKSIZE

\* Likewise, decrypt finds where the digit of the code it holds was last pressed
\* before the byte 0xFF behind its buffer.
RoomToDecrypt ==
  mode = "decrypt" =>
    First(c_start, LAMBDA i : to_full_code(code).digit \notin buffer[i]) < BLOCKSIZE
=============================================================================
