--------------------------- MODULE CodebookProofs ---------------------------
(***************************************************************************)
(* Theorems about Codebook, for any keywords, files and strings: the loops *)
(* stay inside the arrays; unless a call returned false the three tables   *)
(* agree; and the strings that were given are kept.                        *)
(*                                                                         *)
(* They rest on two facts about numbers.  257 is prime, so that a probe    *)
(* from a byte is a byte again; what TLC cannot say for every number is    *)
(* proved from least elements.  And to_byte_code undoes to_full_code       *)
(* (CodesProofs).                                                          *)
(***************************************************************************)
EXTENDS Codebook, CodesProofs, SequenceTheorems

-----------------------------------------------------------------------------
(* Numbers *)

\* Quotient and remainder.
LEMMA Division ==
  ASSUME NEW a \in Nat, NEW g \in Nat \ {0}
  PROVE  a = (a \div g) * g + (a % g) /\ a \div g \in Nat /\ a % g \in 0..(g - 1)
  OBVIOUS

\* No number up to 256 divides 257: one of two factors would be at most 16.
LEMMA NoFactor ==
  ASSUME NEW g \in 2..256
  PROVE  257 % g # 0
<1> DEFINE q == 257 \div g
<1>1. q * g + (257 % g) = 257 /\ q \in Nat
  BY Division
<1> SUFFICES ASSUME q * g = 257 PROVE FALSE
  BY <1>1
<1> HIDE DEF q
<1>2. ASSUME NEW x \in 2..16, NEW y \in Nat, x * y = 257 PROVE FALSE
  <2>1. \/ x = 2 \/ x = 3 \/ x = 4 \/ x = 5 \/ x = 6 \/ x = 7 \/ x = 8 \/ x = 9
        \/ x = 10 \/ x = 11 \/ x = 12 \/ x = 13 \/ x = 14 \/ x = 15 \/ x = 16
    OBVIOUS
  <2> QED
    BY <1>2, <2>1, SMTT(60)
<1>3. g > 16 => q <= 16
  <2> SUFFICES ASSUME g > 16, q > 16 PROVE FALSE
    BY <1>1
  <2>1. q * g >= 17 * g
    BY <1>1
  <2> QED
    BY <2>1
<1>4. q # 0 /\ q # 1
  OBVIOUS
<1> QED
  BY <1>1, <1>2, <1>3, <1>4

\* 257 is prime.  Otherwise let g be the least number that some x takes to a
\* multiple of 257: the remainder of 257 by g, which is less than g, is another.
LEMMA Prime257 ==
  ASSUME NEW a \in 1..256, NEW b \in 1..256
  PROVE  (a * b) % 257 # 0
<1> DEFINE T == {g \in 1..256 : \E x \in 1..256 : (x * g) % 257 = 0}
<1> SUFFICES ASSUME T # {} PROVE FALSE
  OBVIOUS
<1>1. PICK g \in T : \A h \in T : g <= h
  <2>1. T \in SUBSET Nat
    OBVIOUS
  <2> HIDE DEF T
  <2> QED
    BY <2>1, LeastIs
<1>2. PICK x \in 1..256 : (x * g) % 257 = 0
  OBVIOUS
<1>3. g # 1
  BY <1>2
<1> DEFINE q == 257 \div g
           r == 257 % g
           k == (x * g) \div 257
<1>4. 257 = q * g + r /\ q \in Nat /\ r \in 0..(g - 1) /\ r # 0
  <2>1. g \in 2..256
    BY <1>3
  <2>2. 257 % g # 0
    BY <2>1, NoFactor
  <2>3. /\ 257 = (257 \div g) * g + (257 % g) /\ 257 \div g \in Nat
        /\ 257 % g \in 0..(g - 1)
    BY SMTT(30), <2>1, Division
  <2> QED
    BY <2>2, <2>3
<1>5. x * g = k * 257 /\ k \in Nat
  <2>1. x * g \in Nat
    OBVIOUS
  <2> QED
    BY <1>2, <2>1, Division
<1>6. g \in 1..256
  OBVIOUS
<1> HIDE DEF q, r, k
<1>7. x * r = (x - q * k) * 257
  <2>1. x * 257 = x * (q * g) + x * r
    BY <1>4, <1>6
  <2>2. x * (q * g) = q * (x * g)
    BY <1>4, <1>6
  <2>3. q * (k * 257) = (q * k) * 257
    BY <1>4, <1>5
  <2>4. q * (x * g) = (q * k) * 257
    BY <1>5, <2>3
  <2>5. q * k \in Nat /\ x * r \in Nat
    BY <1>4, <1>5
  <2>6. x * 257 = (q * k) * 257 + x * r
    BY <2>1, <2>2, <2>4
  <2>7. PICK m, y : m = q * k /\ y = x * r
    OBVIOUS
  <2>8. m \in Nat /\ y \in Nat /\ x * 257 = m * 257 + y
    BY <2>5, <2>6, <2>7
  <2>9. y = (x - m) * 257
    BY <2>8
  <2> QED
    BY <2>7, <2>9
<1>8. (x * r) % 257 = 0
  <2>1. x - q * k \in Int
    BY <1>4, <1>5
  <2> DEFINE z == x - q * k
  <2> HIDE DEF z
  <2>2. z \in Int /\ x * r = z * 257
    BY <1>7, <2>1 DEF z
  <2>3. (z * 257) % 257 = 0
    BY <2>2
  <2> QED
    BY <2>2, <2>3
<1>9. r \in T
  <2>1. r \in 1..256
    BY <1>4, <1>6
  <2> QED
    BY <1>8, <2>1
<1> HIDE DEF T
<1> QED
  BY <1>1, <1>4, <1>6, <1>9

\* The greatest of a set of bytes, or of roots, is in the set.
LEMMA GreatestIs ==
  ASSUME NEW T \in SUBSET (0..256), T # {}
  PROVE  Max(T) \in T
<1> DEFINE U == {256 - x : x \in T}
<1>1. U \in SUBSET Nat /\ U # {}
  <2>1. \A x \in T : 256 - x \in Nat
    OBVIOUS
  <2> QED
    BY <2>1
<1> HIDE DEF U
<1>2. PICK u \in U : \A v \in U : u <= v
  BY <1>1, LeastIs
<1>3. PICK x \in T : u = 256 - x
  BY DEF U
<1>4. \A y \in T : x >= y
  <2> SUFFICES ASSUME NEW y \in T PROVE x >= y
    OBVIOUS
  <2>1. 256 - y \in U
    BY DEF U
  <2>2. u <= 256 - y /\ x \in 0..256 /\ y \in 0..256
    BY <1>2, <2>1
  <2> QED
    BY <1>3, <2>2
<1> QED
  BY <1>4 DEF Max

\* The multipliers of probes.
LEMMA RootsIn ==
  ASSUME NEW c \in Byte
  PROVE  roots[c] \in 2..256
<1> DEFINE T == {g \in PrimitiveRoots : g <= c + 1} \cup {3}
<1>1. T \in SUBSET (2..256) /\ T # {}
  BY DEF PrimitiveRoots
<1>2. roots[c] = Max(T)
  BY DEF roots
<1> HIDE DEF T
<1>3. T \in SUBSET (0..256)
  BY <1>1
<1> QED
  BY <1>1, <1>2, <1>3, GreatestIs

\* A probe from a byte is a byte: it never is the -1 that a remainder of 0 gives.
LEMMA ProbeIn ==
  ASSUME NEW i \in Byte, NEW g \in 2..256
  PROVE  Next257(i, g) \in Byte
<1>1. ((i + 1) * g) % 257 # 0
  <2>1. i + 1 \in 1..256 /\ g \in 1..256
    BY DEF Byte
  <2> QED
    BY <2>1, Prime257
<1>2. (i + 1) * g \in Nat
  BY DEF Byte
<1>3. ((i + 1) * g) % 257 \in 0..256
  BY <1>2
<1> QED
  BY <1>1, <1>3 DEF Next257, Byte

-----------------------------------------------------------------------------
(* Codes *)

\* The byte code of a valid readable code is a byte.
LEMMA PackIn ==
  ASSUME NEW c \in [ones : Byte, digit : Bit, count : Byte], valid_readable_code(c)
  PROVE  to_byte_code(c) \in Byte
<1>1. c.digit \in 1..7
  BY DEF valid_readable_code, Digit, Bit, One
<1>2. ((c.digit - 1) * 64) % 256 \in Byte
  BY <1>1 DEF Byte
<1> QED
  BY <1>2, OrIn DEF to_byte_code, Pack

-----------------------------------------------------------------------------
(* The tables while they are made *)

\* The types, with what a probe needs.
Typed ==
  /\ job \in Jobs
  /\ pc \in {"keyword", "place", "fill", "read_from_file", "read_from_strings",
             "refill", "replace", "done"}
  /\ codes \in [Byte -> Byte \cup {Unset}]
  /\ uncodes = [b \in Byte |-> uncodes[b]]
  /\ used \in SUBSET Byte
  /\ hare \in 0..256
  /\ pc # "done" => result = "none"
  /\ pc \in {"place", "replace"} =>
       hare < 256 /\ index \in Byte /\ multiplier \in 2..256

\* The hare has left a byte of its own in every entry behind it, and the
\* tortoise, which rests until the keyword is placed, is behind it.
ConstructorInv ==
  pc \in {"keyword", "place", "fill"} =>
    /\ \A i \in 0..(hare - 1) : codes[i] \in used
    /\ \A i, j \in 0..(hare - 1) : codes[i] = codes[j] => i = j
    /\ coded = {} /\ tortoise \in Nat
    /\ IF hare > Len(job.keyword)
         THEN pc # "keyword" /\ tortoise < hare
         ELSE /\ pc # "fill" /\ tortoise = 0
              /\ left \in Seq(0..127) /\ Len(left) = Len(job.keyword) - hare

\* A codebook that was made has all its codes, and the codes of the strings
\* given are among them.
CallsInv ==
  pc \in {"read_from_file", "read_from_strings", "refill", "replace", "done"} =>
    /\ codes \in [Byte -> Byte]
    /\ pc # "done" => tortoise \in Byte
    /\ pc = "read_from_file" => job.then # "read_from_strings"
    /\ pc = "read_from_strings" => coded \in SUBSET Given
    /\ pc \in {"refill", "replace"} => coded = Given
    /\ pc = "replace" => hare \notin coded
    /\ pc # "read_from_file" /\ job.then = "read_from_strings" /\ result # "false" =>
         \A c \in (IF pc = "read_from_strings" THEN coded ELSE Given) :
           valid_readable_code(job.strings[c]) /\ codes[c] = to_byte_code(job.strings[c])

\* When a call has not failed the tables agree.
Agree ==
  \A c \in Byte : full_codes[c] = to_full_code(codes[c]) /\ uncodes[codes[c]] = c
DoneInv == pc = "done" /\ result # "false" => Agree

Inv == Typed /\ ConstructorInv /\ CallsInv /\ DoneInv

\* What a job is.
LEMMA JobIs ==
  ASSUME Typed
  PROVE  /\ job.then \in {"nothing", "read_from_file", "read_from_strings"}
         /\ job.keyword \in Seq(0..127) /\ Len(job.keyword) \in Nat /\ Len(job.keyword) < 256
         /\ job.file \in Seq(Byte) /\ Given \in SUBSET Byte
         /\ \A c \in Given : job.strings[c] \in [ones : Byte, digit : Bit, count : Byte]
<1>1. /\ job.then \in {"nothing", "read_from_file", "read_from_strings"}
      /\ job.keyword \in Seq(0..127) /\ Len(job.keyword) < 256
      /\ job.file \in Seq(Byte) /\ Given \in SUBSET Byte
      /\ \A c \in Given : job.strings[c] \in [ones : Byte, digit : Bit, count : Byte]
  BY JobAssumption DEF Typed, Given
<1>2. Len(job.keyword) \in Nat
  BY <1>1, LenProperties
<1> QED
  BY <1>1, <1>2

\* A probe starts within the table, and goes on there.
LEMMA StartIs ==
  ASSUME NEW c \in Byte, NEW where, Start(c, where)
  PROVE  index' \in Byte /\ multiplier' \in 2..256 /\ pc' = where
  BY RootsIn, ProbeIn DEF Start

\* Bytes are numbers.
LEMMA BytesAreNat == Byte \subseteq Nat
  BY DEF Byte

\* The greatest of one byte is that byte.
LEMMA OneIs ==
  ASSUME NEW c \in Byte
  PROVE  Max({c}) = c
<1>1. {c} \in SUBSET (0..256) /\ {c} # {}
  BY DEF Byte
<1>2. Max({c}) \in {c}
  BY <1>1, GreatestIs
<1> QED
  BY <1>2

\* Codes that differ make tables that agree.
LEMMA TablesMade ==
  ASSUME get_full_codes, codes' \in [Byte -> Byte], IsInjective(codes'),
         uncodes = [b \in Byte |-> uncodes[b]]
  PROVE  Agree'
<1> SUFFICES ASSUME NEW c \in Byte
             PROVE  full_codes'[c] = to_full_code(codes'[c]) /\ uncodes'[codes'[c]] = c
  BY DEF Agree
<1>1. full_codes'[c] = to_full_code(codes'[c])
  BY DEF get_full_codes
<1>2. codes'[c] \in Byte
  OBVIOUS
<1>3. {e \in Byte : codes'[e] = codes'[c]} = {c}
  BY DEF IsInjective
<1>4. Max({c}) = c
  BY OneIs
<1>5. uncodes'[codes'[c]] = Max({c})
  BY <1>2, <1>3 DEF get_full_codes
<1> QED
  BY <1>1, <1>4, <1>5

\* A codebook before its constructor has run.
LEMMA InitInv == Init => Inv
<1> SUFFICES ASSUME Init PROVE Inv
  OBVIOUS
<1>1. Typed
  BY DEF Init, Typed
<1>2. ConstructorInv
  BY <1>1, JobIs DEF Init, ConstructorInv
<1>3. CallsInv /\ DoneInv
  BY DEF Init, CallsInv, DoneInv
<1> QED
  BY <1>1, <1>2, <1>3 DEF Inv

\* The constructor: its keyword, then entries the tortoise has passed.
LEMMA ConstructorStep ==
  ASSUME Inv, KeywordCharacter \/ KeywordEnd \/ Fill
  PROVE  Inv'
<1> USE DEF Inv
<1>1. /\ pc \in {"keyword", "fill"} /\ pc' = "place" /\ index' \in Byte /\ multiplier' \in 2..256
      /\ UNCHANGED <<job, tables, hare, tortoise, used, coded, left, result>>
  <2>1. CASE KeywordCharacter
    <3>1. left \in Seq(0..127) /\ left # <<>>
      BY <2>1 DEF KeywordCharacter, ConstructorInv
    <3>2. Head(left) \in Byte
      BY <3>1, HeadTailProperties DEF Byte
    <3> QED
      BY <2>1, <3>2, StartIs DEF KeywordCharacter
  <2>2. CASE KeywordEnd
    <3>1. 0 \in Byte
      BY DEF Byte
    <3> QED
      BY <2>2, <3>1, StartIs DEF KeywordEnd
  <2>3. CASE Fill
    <3>1. tortoise \in 0..(hare - 1)
      <4>1. pc = "fill" /\ hare \in 0..256
        BY <2>3 DEF Fill, Typed
      <4>2. tortoise \in Nat /\ tortoise < hare
        BY <4>1 DEF ConstructorInv
      <4> QED
        BY <4>1, <4>2
    <3>2. codes[tortoise] \in Byte
      BY <2>3, <3>1 DEF Fill, ConstructorInv, Typed
    <3> QED
      BY <2>3, <3>2, StartIs DEF Fill
  <2> QED
    BY <2>1, <2>2, <2>3
<1>2. hare < 256
  <2>1. CASE pc = "keyword"
    <3>1. PICK n : n = Len(job.keyword)
      OBVIOUS
    <3>2. ~(hare > n)
      BY <2>1, <3>1 DEF ConstructorInv
    <3>3. hare \in 0..256 /\ n \in Nat /\ n < 256
      BY <3>1, JobIs DEF Typed
    <3> QED
      BY <3>2, <3>3
  <2>2. CASE pc = "fill"
    BY <1>1, <2>2 DEF Fill, KeywordCharacter, KeywordEnd
  <2> QED
    BY <1>1, <2>1, <2>2
<1>3. Typed'
  BY <1>1, <1>2 DEF Typed, tables
<1>4. ConstructorInv'
  BY <1>1 DEF ConstructorInv, tables
<1>5. CallsInv' /\ DoneInv'
  BY <1>1 DEF CallsInv, DoneInv
<1> QED
  BY <1>3, <1>4, <1>5

\* A probe stays within the table.
LEMMA ProbeStep ==
  ASSUME Inv, Probe
  PROVE  Inv'
<1> USE DEF Inv
<1>1. index' \in Byte
  BY ProbeIn DEF Probe, Typed
<1>2. Typed'
  BY <1>1 DEF Typed, Probe, tables
<1>3. ConstructorInv'
  BY DEF ConstructorInv, Probe, tables
<1>4. CallsInv' /\ DoneInv'
  BY DEF CallsInv, DoneInv, Probe, tables, Given
<1> QED
  BY <1>2, <1>3, <1>4

\* An entry is given a byte that no other has.
LEMMA PlaceStep ==
  ASSUME Inv, Place
  PROVE  Inv'
<1> USE DEF Inv
<1>1. /\ hare \in 0..255 /\ index \in Byte /\ index \notin used
      /\ codes' = [codes EXCEPT ![hare] = index] /\ used' = used \cup {index}
      /\ hare' = hare + 1 /\ pc' \in {"keyword", "fill"}
      /\ UNCHANGED <<job, full_codes, uncodes, coded, probe, result>>
  BY DEF Place, Typed
<1>2. hare \in Byte /\ 0..hare \subseteq Byte
  BY <1>1 DEF Byte
<1>3. codes' \in [Byte -> Byte \cup {Unset}]
  BY <1>1, <1>2 DEF Typed
<1>4. Typed'
  <2>1. used' \in SUBSET Byte
    BY <1>1 DEF Typed
  <2>2. hare' \in 0..256
    BY <1>1
  <2>3. result' = "none"
    BY <1>1 DEF Typed, Place
  <2> QED
    BY <1>1, <1>3, <2>1, <2>2, <2>3 DEF Typed
<1>5. codes'[hare] = index /\ \A i \in 0..(hare - 1) : codes'[i] = codes[i]
  BY <1>1, <1>2 DEF Typed
<1>6. \A i \in 0..(hare - 1) : codes[i] \in used /\ codes[i] # index
  BY <1>1 DEF ConstructorInv, Place
<1>7. \A i \in 0..(hare' - 1) : i = hare \/ i \in 0..(hare - 1)
  BY <1>1
<1>8. \A i \in 0..(hare' - 1) : codes'[i] \in used'
  BY <1>1, <1>5, <1>6, <1>7
<1>9. \A i, j \in 0..(hare - 1) : codes[i] = codes[j] => i = j
  BY DEF ConstructorInv, Place
<1>10. \A i, j \in 0..(hare' - 1) : codes'[i] = codes'[j] => i = j
  BY <1>5, <1>6, <1>7, <1>9
<1>11. PICK n : n = Len(job.keyword)
  OBVIOUS
<1>12. pc = "place" /\ n \in Nat /\ hare \in Nat
  BY <1>1, <1>11, JobIs DEF Place
<1>13. ASSUME hare < n
       PROVE  /\ coded' = {} /\ pc' = "keyword" /\ tortoise' = 0 /\ ~(hare' > n)
              /\ left' \in Seq(0..127) /\ Len(left') = n - hare'
  <2>1. ~(hare > n)
    BY <1>12, <1>13
  <2>2. left \in Seq(0..127) /\ Len(left) = n - hare /\ tortoise = 0 /\ coded = {}
    BY <1>11, <1>12, <2>1 DEF ConstructorInv
  <2>3. left # <<>>
    BY <1>12, <1>13, <2>2, EmptySeq
  <2>4. Tail(left) \in Seq(0..127) /\ Len(Tail(left)) = Len(left) - 1
    BY <2>2, <2>3, HeadTailProperties
  <2>5. pc' = "keyword" /\ left' = Tail(left) /\ tortoise' = tortoise /\ coded' = coded
    BY <1>11, <1>13 DEF Place
  <2> QED
    BY <1>1, <1>12, <1>13, <2>2, <2>4, <2>5
<1>14. ASSUME ~(hare < n)
       PROVE  coded' = {} /\ pc' = "fill" /\ hare' > n /\ tortoise' \in Nat /\ tortoise' < hare'
  <2>1. coded = {} /\ tortoise \in Nat /\ (hare > n => tortoise < hare)
    BY <1>11, <1>12 DEF ConstructorInv
  <2>2. /\ pc' = "fill" /\ tortoise' = IF hare = n THEN 0 ELSE tortoise + 1
        /\ coded' = coded
    BY <1>11, <1>14 DEF Place
  <2>3. CASE hare = n
    BY <1>1, <1>12, <2>1, <2>2, <2>3
  <2>4. CASE hare > n
    BY <1>1, <1>12, <2>1, <2>2, <2>4
  <2> QED
    BY <1>12, <1>14, <2>3, <2>4
<1>15. job' = job /\ Len(job'.keyword) = n
  BY <1>1, <1>11
<1>16. ConstructorInv'
  <2>1. CASE hare < n
    BY <1>8, <1>10, <1>13, <1>15, <2>1 DEF ConstructorInv
  <2>2. CASE ~(hare < n)
    BY <1>8, <1>10, <1>14, <1>15, <2>2 DEF ConstructorInv
  <2> QED
    BY <2>1, <2>2
<1>17. CallsInv' /\ DoneInv'
  BY <1>1 DEF CallsInv, DoneInv
<1> QED
  BY <1>4, <1>16, <1>17

\* Every entry has its byte: the tables are made.
LEMMA ConstructedStep ==
  ASSUME Inv, Constructed
  PROVE  Inv'
<1> USE DEF Inv
<1>1. /\ pc = "fill" /\ hare = 256 /\ codes' = codes /\ get_full_codes
      /\ pc' = IF job.then = "nothing" THEN "done" ELSE job.then
      /\ hare' = 0 /\ tortoise' = 0 /\ used' = {}
      /\ UNCHANGED <<job, coded, left, probe, result>>
  BY DEF Constructed
<1>2. Byte = 0..(hare - 1)
  BY <1>1 DEF Byte
<1>3. /\ \A c \in Byte : codes[c] \in Byte
      /\ \A c, e \in Byte : codes[c] = codes[e] => c = e
  BY ZenonT(30), <1>1, <1>2 DEF ConstructorInv, Typed
<1>4. codes' \in [Byte -> Byte] /\ IsInjective(codes')
  BY <1>1, <1>3 DEF Typed, IsInjective
<1>5. Agree'
  BY <1>1, <1>4, TablesMade DEF Typed
<1>6. pc' \in {"read_from_file", "read_from_strings", "done"} /\ result = "none" /\ coded = {}
  BY <1>1, JobIs DEF Typed, ConstructorInv
<1>7. uncodes' = [b \in Byte |-> uncodes'[b]]
  BY <1>1 DEF get_full_codes
<1>8. Typed'
  BY <1>1, <1>4, <1>6, <1>7 DEF Typed
<1>9. ConstructorInv' /\ DoneInv'
  BY <1>5, <1>6 DEF ConstructorInv, DoneInv
<1>10. CallsInv'
  <2>1. tortoise' \in Byte /\ coded' = {}
    BY <1>1, <1>6 DEF Byte
  <2>2. pc' = "read_from_strings" \/ job.then # "read_from_strings"
    BY <1>1
  <2>3. pc' = "read_from_file" => job.then # "read_from_strings"
    BY <1>1
  <2> QED
    BY <1>1, <1>4, <1>6, <2>1, <2>2, <2>3 DEF CallsInv
<1> QED
  BY <1>8, <1>9, <1>10

\* The bytes of a file, or of its beginning, take the place of the codes.
LEMMA FileStep ==
  ASSUME Inv, ReadFromFile
  PROVE  Inv'
<1> USE DEF Inv
<1>1. /\ pc = "read_from_file" /\ pc' = "done" /\ get_full_codes
      /\ result' = IF IsInjective(codes') THEN "true" ELSE "false"
      /\ codes' = [c \in Byte |-> IF c < Len(job.file) THEN job.file[c + 1] ELSE codes[c]]
      /\ UNCHANGED <<job, hare, tortoise, used, coded, left, probe>>
  BY DEF ReadFromFile, verify
<1>2. codes' \in [Byte -> Byte]
  <2>1. codes \in [Byte -> Byte]
    BY <1>1 DEF CallsInv
  <2>2. ASSUME NEW c \in Byte, c < Len(job.file)
        PROVE  job.file[c + 1] \in Byte
    <3>1. job.file \in Seq(Byte)
      BY JobIs
    <3>2. Len(job.file) \in Nat /\ c \in Nat
      BY <3>1, LenProperties DEF Byte
    <3>3. PICK n : n = Len(job.file)
      OBVIOUS
    <3>4. c + 1 \in 1..n
      BY <2>2, <3>2, <3>3
    <3> QED
      BY <3>1, <3>3, <3>4, ElementOfSeq
  <2> QED
    BY <1>1, <2>1, <2>2
<1>3. result' # "false" => Agree'
  <2> SUFFICES ASSUME result' # "false" PROVE Agree'
    OBVIOUS
  <2>1. IsInjective(codes')
    BY <1>1
  <2> QED
    BY <1>1, <1>2, <2>1, TablesMade DEF Typed
<1>4. uncodes' = [b \in Byte |-> uncodes'[b]]
  BY <1>1 DEF get_full_codes
<1>5. Typed'
  BY <1>1, <1>2, <1>4 DEF Typed
<1>6. ConstructorInv' /\ DoneInv'
  BY <1>1, <1>3 DEF ConstructorInv, DoneInv
<1>7. CallsInv'
  BY <1>1, <1>2 DEF CallsInv
<1> QED
  BY <1>5, <1>6, <1>7

\* The next string that is given: its code, or the end of the call.
LEMMA StringStep ==
  ASSUME Inv, ReadString
  PROVE  Inv'
<1> USE DEF Inv
<1>1. PICK c : c = Min(Given \ coded)
  OBVIOUS
<1>2. PICK b : b = to_byte_code(job.strings[c])
  OBVIOUS
<1>3. /\ pc = "read_from_strings" /\ Given \ coded # {}
      /\ IF valid_readable_code(job.strings[c]) /\ b \notin used
          THEN /\ codes' = [codes EXCEPT ![c] = b]
               /\ used' = used \cup {b} /\ coded' = coded \cup {c}
               /\ pc' = pc /\ result' = result
          ELSE /\ pc' = "done" /\ result' = "false"
               /\ codes' = codes /\ used' = used /\ coded' = coded
      /\ UNCHANGED <<job, full_codes, uncodes, hare, tortoise, left, probe>>
  BY <1>1, <1>2 DEF ReadString
<1>4. c \in Given \ coded
  <2>1. Given \ coded \in SUBSET Nat
    BY JobIs, BytesAreNat
  <2>2. \E x \in Given \ coded : \A y \in Given \ coded : x <= y
    BY <1>3, <2>1, LeastIs
  <2> QED
    BY <1>1, <2>2 DEF Min
<1>5. c \in Byte /\ job.strings[c] \in [ones : Byte, digit : Bit, count : Byte]
  BY <1>4, JobIs
<1>6. codes \in [Byte -> Byte] /\ tortoise \in Byte /\ coded \in SUBSET Given
  BY <1>3 DEF CallsInv, Typed
<1>7. CASE valid_readable_code(job.strings[c]) /\ b \notin used
  <2>1. b \in Byte
    BY <1>2, <1>5, <1>7, PackIn
  <2>2. /\ codes' = [codes EXCEPT ![c] = b] /\ used' = used \cup {b}
        /\ coded' = coded \cup {c} /\ pc' = "read_from_strings" /\ result' = result
        /\ UNCHANGED <<job, full_codes, uncodes, hare, tortoise, left, probe>>
    BY <1>3, <1>7
  <2>3. codes' \in [Byte -> Byte] /\ codes'[c] = b /\ \A e \in Byte \ {c} : codes'[e] = codes[e]
    BY <1>5, <1>6, <2>1, <2>2
  <2>4. Typed'
    BY <1>3, <2>1, <2>2, <2>3 DEF Typed
  <2>5. coded' \in SUBSET Given'
    BY <1>4, <1>6, <2>2 DEF Given
  <2>6. job.then = "read_from_strings" /\ result # "false" =>
          \A e \in coded :
            valid_readable_code(job.strings[e]) /\ codes[e] = to_byte_code(job.strings[e])
    BY <1>3 DEF CallsInv
  <2>7. job.then = "read_from_strings" /\ result # "false" =>
          \A e \in coded' :
            valid_readable_code(job.strings[e]) /\ codes'[e] = to_byte_code(job.strings[e])
    <3> SUFFICES ASSUME job.then = "read_from_strings", result # "false", NEW e \in coded'
                 PROVE  valid_readable_code(job.strings[e]) /\ codes'[e] = to_byte_code(job.strings[e])
      OBVIOUS
    <3>1. CASE e = c
      BY <1>2, <1>7, <2>3, <3>1
    <3>2. CASE e # c
      <4>1. e \in coded /\ e \in Byte
        BY <1>6, <2>2, <3>2, JobIs
      <4> QED
        BY <2>3, <2>6, <3>2, <4>1
    <3> QED
      BY <3>1, <3>2
  <2>8. CallsInv'
    BY <1>6, <2>2, <2>3, <2>5, <2>7 DEF CallsInv
  <2> QED
    BY <2>2, <2>4, <2>8 DEF ConstructorInv, DoneInv
<1>8. CASE ~(valid_readable_code(job.strings[c]) /\ b \notin used)
  <2>1. /\ pc' = "done" /\ result' = "false" /\ codes' = codes /\ used' = used /\ coded' = coded
        /\ UNCHANGED <<job, full_codes, uncodes, hare, tortoise, left, probe>>
    BY <1>3, <1>8
  <2>2. Typed'
    BY <2>1 DEF Typed
  <2>3. CallsInv'
    BY <1>6, <2>1 DEF CallsInv
  <2> QED
    BY <2>1, <2>2, <2>3 DEF ConstructorInv, DoneInv
<1> QED
  BY <1>7, <1>8

\* Every string has its code: the characters that have none are next.
LEMMA StringsReadStep ==
  ASSUME Inv, StringsRead
  PROVE  Inv'
<1> USE DEF Inv
<1>1. /\ pc = "read_from_strings" /\ Given \ coded = {} /\ pc' = "refill"
      /\ UNCHANGED <<job, tables, hare, tortoise, used, coded, left, probe, result>>
  BY DEF StringsRead
<1>2. coded = Given
  BY <1>1 DEF CallsInv
<1>3. Typed'
  BY <1>1 DEF Typed, tables
<1>4. CallsInv'
  BY <1>1, <1>2 DEF CallsInv, tables, Given
<1> QED
  BY <1>1, <1>3, <1>4 DEF ConstructorInv, DoneInv

\* The hare passes a character that a string was given for, or looks for a byte.
LEMMA RefillStep ==
  ASSUME Inv, Refill
  PROVE  Inv'
<1> USE DEF Inv
<1>1. /\ pc = "refill" /\ hare < 256
      /\ UNCHANGED <<job, tables, tortoise, used, coded, left, result>>
  BY DEF Refill
<1>2. codes \in [Byte -> Byte] /\ tortoise \in Byte /\ coded = Given
  BY <1>1 DEF CallsInv
<1>3. hare \in 0..255
  BY <1>1 DEF Typed
<1>4. CASE hare \in coded
  <2>1. hare' = hare + 1 /\ pc' = "refill"
    BY <1>1, <1>4 DEF Refill
  <2>2. hare' \in 0..256
    BY <1>3, <2>1
  <2>3. Typed'
    BY <1>1, <2>1, <2>2 DEF Typed, tables
  <2>4. CallsInv'
    BY <1>1, <2>1 DEF CallsInv, tables, Given
  <2> QED
    BY <1>1, <2>1, <2>3, <2>4 DEF ConstructorInv, DoneInv
<1>5. CASE hare \notin coded
  <2>1. Start(codes[tortoise], "replace") /\ hare' = hare
    BY <1>5 DEF Refill
  <2>2. codes[tortoise] \in Byte
    BY <1>2
  <2>3. index' \in Byte /\ multiplier' \in 2..256 /\ pc' = "replace"
    BY <2>1, <2>2, StartIs
  <2>4. Typed'
    BY <1>1, <2>1, <2>3 DEF Typed, tables
  <2>5. CallsInv'
    BY <1>1, <1>5, <2>1, <2>3 DEF CallsInv, tables, Given
  <2> QED
    BY <1>1, <2>3, <2>4, <2>5 DEF ConstructorInv, DoneInv
<1> QED
  BY <1>4, <1>5

\* The byte found goes to a character that no string was given for.
LEMMA ReplaceStep ==
  ASSUME Inv, Replace
  PROVE  Inv'
<1> USE DEF Inv
<1>1. /\ pc = "replace" /\ codes' = [codes EXCEPT ![hare] = index]
      /\ used' = used \cup {index} /\ tortoise' = index /\ hare' = hare + 1 /\ pc' = "refill"
      /\ UNCHANGED <<job, full_codes, uncodes, coded, left, probe, result>>
  BY DEF Replace
<1>2. hare \in 0..255 /\ index \in Byte
  BY <1>1 DEF Typed
<1>3. hare \in Byte /\ hare' \in 0..256
  BY <1>1, <1>2 DEF Byte
<1>4. codes \in [Byte -> Byte] /\ coded = Given /\ hare \notin coded
  BY <1>1 DEF CallsInv
<1>5. codes' \in [Byte -> Byte] /\ \A c \in Byte \ {hare} : codes'[c] = codes[c]
  BY <1>1, <1>2, <1>3, <1>4
<1>6. Typed'
  BY <1>1, <1>2, <1>3, <1>5 DEF Typed
<1>7. Given' = Given /\ Given \in SUBSET Byte
  BY <1>1, JobIs DEF Given
<1>8. job.then = "read_from_strings" /\ result # "false" =>
        \A c \in Given :
          valid_readable_code(job.strings[c]) /\ codes'[c] = to_byte_code(job.strings[c])
  <2>1. job.then = "read_from_strings" /\ result # "false" =>
          \A c \in Given :
            valid_readable_code(job.strings[c]) /\ codes[c] = to_byte_code(job.strings[c])
    BY <1>1 DEF CallsInv
  <2>2. \A c \in Given : codes'[c] = codes[c]
    BY <1>4, <1>5, <1>7
  <2> QED
    BY <2>1, <2>2
<1>9. CallsInv'
  BY <1>1, <1>2, <1>4, <1>5, <1>7, <1>8 DEF CallsInv
<1> QED
  BY <1>1, <1>6, <1>9 DEF ConstructorInv, DoneInv

\* Every character has a code, and the other tables are made.
LEMMA RefilledStep ==
  ASSUME Inv, Refilled
  PROVE  Inv'
<1> USE DEF Inv
<1>1. /\ pc = "refill" /\ pc' = "done" /\ get_full_codes /\ codes' = codes
      /\ result' = IF IsInjective(codes') THEN "true" ELSE "false"
      /\ UNCHANGED <<job, hare, tortoise, used, coded, left, probe>>
  BY DEF Refilled, verify
<1>2. codes' \in [Byte -> Byte] /\ coded = Given
  BY <1>1 DEF CallsInv
<1>3. result' # "false" => Agree'
  <2> SUFFICES ASSUME result' # "false" PROVE Agree'
    OBVIOUS
  <2>1. IsInjective(codes')
    BY <1>1
  <2> QED
    BY <1>1, <1>2, <2>1, TablesMade DEF Typed
<1>4. uncodes' = [b \in Byte |-> uncodes'[b]]
  BY <1>1 DEF get_full_codes
<1>5. Typed'
  BY <1>1, <1>2, <1>4 DEF Typed
<1>6. ConstructorInv' /\ DoneInv'
  BY <1>1, <1>3 DEF ConstructorInv, DoneInv
<1>7. result # "false"
  BY <1>1 DEF Typed
<1>8. CallsInv'
  BY <1>1, <1>2, <1>7 DEF CallsInv, Given
<1> QED
  BY <1>5, <1>6, <1>8

\* The invariant of a codebook.
LEMMA NextInv == Inv /\ [Next]_vars => Inv'
<1> SUFFICES ASSUME Inv, [Next]_vars PROVE Inv'
  OBVIOUS
<1>1. CASE KeywordCharacter \/ KeywordEnd \/ Fill
  BY <1>1, ConstructorStep
<1>2. CASE Probe
  BY <1>2, ProbeStep
<1>3. CASE Place
  BY <1>3, PlaceStep
<1>4. CASE Constructed
  BY <1>4, ConstructedStep
<1>5. CASE ReadFromFile
  BY <1>5, FileStep
<1>6. CASE ReadString
  BY <1>6, StringStep
<1>7. CASE StringsRead
  BY <1>7, StringsReadStep
<1>8. CASE Refill
  BY <1>8, RefillStep
<1>9. CASE Replace
  BY <1>9, ReplaceStep
<1>10. CASE Refilled
  BY <1>10, RefilledStep
<1>11. CASE UNCHANGED vars
  BY <1>11 DEF Inv, Typed, ConstructorInv, CallsInv, DoneInv, Agree, vars, tables, probe, Given
<1> QED
  BY <1>1, <1>2, <1>3, <1>4, <1>5, <1>6, <1>7, <1>8, <1>9, <1>10, <1>11 DEF Next, Finished

\* The invariant always holds.
LEMMA InvAlways == Spec => []Inv
  BY InitInv, NextInv, PTL DEF Spec

-----------------------------------------------------------------------------
(* Theorems *)

\* The invariant keeps the loops inside the arrays.
LEMMA InvInBounds ==
  ASSUME Inv
  PROVE  InBounds
<1> USE DEF Inv
<1>1. pc \in {"place", "replace"} => index \in Byte /\ hare < 256
  BY DEF Typed
<1>2. ASSUME pc = "fill", hare < 256
      PROVE  tortoise < hare /\ codes[tortoise] # Unset
  <2>1. tortoise < hare /\ tortoise \in Nat /\ hare \in 0..256
    BY <1>2 DEF ConstructorInv, Typed
  <2>2. tortoise \in 0..(hare - 1)
    BY <2>1
  <2>3. codes[tortoise] \in Byte
    BY <1>2, <2>2 DEF ConstructorInv, Typed
  <2> QED
    BY <2>1, <2>3, UnsetAssumption
<1>3. ASSUME pc = "refill"
      PROVE  codes[tortoise] # Unset
  BY <1>3, UnsetAssumption DEF CallsInv
<1> QED
  BY <1>1, <1>2, <1>3 DEF InBounds

\* The hare, the tortoise and every probe stay inside the arrays, and nothing is
\* read that was not written, whatever the keyword, the file and the strings.
THEOREM StaysInBounds == Spec => []InBounds
  BY InvAlways, InvInBounds, PTL

\* The invariant makes the tables agree.
LEMMA InvAgree ==
  ASSUME Inv
  PROVE  TablesAgree
<1> SUFFICES ASSUME pc = "done", result # "false", NEW c \in Byte
             PROVE  to_byte_code(full_codes[c]) = codes[c] /\ uncodes[codes[c]] = c
  BY DEF TablesAgree
<1>1. codes[c] \in Byte
  BY DEF Inv, CallsInv
<1>2. full_codes[c] = to_full_code(codes[c]) /\ uncodes[codes[c]] = c
  BY DEF Inv, DoneInv, Agree
<1> QED
  BY <1>1, <1>2, CodeOfByte

\* Unless false was returned, all 256 codes differ and the three tables agree.
THEOREM Agreement == Spec => []TablesAgree
  BY InvAlways, InvAgree, PTL

\* Strings that look valid are codes, as those that a codebook was printed with
\* are; valid_readable_code would let others pass, for it does not count presses.
StringsAreCodes ==
  \A j \in Jobs : \A c \in DOMAIN j.strings :
    valid_readable_code(j.strings[c]) => \E b \in Byte : j.strings[c] = to_full_code(b)

\* When read_from_strings returns true, every string that was given is the code
\* of its character, if the strings are codes.
THEOREM StringsRemain ==
  ASSUME StringsAreCodes
  PROVE  Spec => []StringsKept
<1>1. ASSUME Inv PROVE StringsKept
  <2> SUFFICES ASSUME pc = "done", result = "true", job.then = "read_from_strings",
                      NEW c \in Given
               PROVE  full_codes[c] = job.strings[c]
    BY DEF StringsKept
  <2>1. valid_readable_code(job.strings[c]) /\ codes[c] = to_byte_code(job.strings[c])
    BY <1>1 DEF Inv, CallsInv
  <2>2. job \in Jobs /\ c \in Byte
    BY <1>1, JobIs DEF Inv, Typed
  <2>3. PICK b \in Byte : job.strings[c] = to_full_code(b)
    BY <2>1, <2>2 DEF Given, StringsAreCodes
  <2>4. codes[c] = b
    BY <2>1, <2>3, CodeOfByte
  <2>5. full_codes[c] = to_full_code(codes[c])
    BY <1>1, <2>2 DEF Inv, DoneInv, Agree
  <2> QED
    BY <2>3, <2>4, <2>5
<1>2. Spec => []Inv
  BY InvAlways
<1> QED
  BY <1>1, <1>2, PTL
=============================================================================
