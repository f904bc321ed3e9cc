------------------------------ MODULE Codebook ------------------------------
(***************************************************************************)
(* FullCodebook (src/crypt/codebook.cpp): its construction from a keyword, *)
(* and what may follow, read_from_file or read_from_strings.               *)
(*                                                                         *)
(* codes is filled by the hare, one entry after the other; what goes into  *)
(* an entry is found by probing: from a byte c the index goes on by a      *)
(* primitive root of 257 until it is one not used yet.  The byte c comes   *)
(* from the keyword, and then from the tortoise, which walks over entries  *)
(* the hare has filled.  A step is one turn of one of these loops.         *)
(***************************************************************************)
EXTENDS Codes, Sequences, FiniteSetsExt, Functions

CONSTANTS
  Unset,      \* an entry of an array that has not been written
  Jobs        \* what is asked for: [keyword, file, strings]

NoFile == <<>>           \* read_from_file of a file that is not there
NoStrings == <<>>        \* the empty map

ASSUME UnsetAssumption == Unset \notin Byte

\* keyword: ASCII characters, fewer than there are entries; file: the bytes
\* of the file to be read; strings: the readable codes of some characters, of
\* fewer than 256 presses of a key, as many as to_byte_code can count.
ASSUME JobAssumption ==
  \A j \in Jobs :
    /\ j.then \in {"nothing", "read_from_file", "read_from_strings"}
    /\ j.keyword \in Seq(0..127) /\ Len(j.keyword) < 256
    /\ j.file \in Seq(Byte) /\ DOMAIN j.strings \subseteq Byte
    /\ \A c \in DOMAIN j.strings :
         j.strings[c] \in [ones : Byte, digit : Bit, count : Byte]

VARIABLES
  job,
  pc,
  codes, full_codes, uncodes,   \* the three tables of the codebook
  hare, tortoise,               \* positions in codes
  used, coded,                  \* bytes taken; characters given by strings
  left,                         \* what is left of the keyword
  multiplier, index,            \* the probe
  result                        \* what the last call returned

vars == <<job, pc, codes, full_codes, uncodes, hare, tortoise, used, coded, left,
          multiplier, index, result>>
tables == <<codes, full_codes, uncodes>>
probe == <<multiplier, index>>

Init ==
  /\ job \in Jobs
  /\ pc = "keyword"
  /\ codes = [c \in Byte |-> Unset]
  /\ full_codes = [c \in Byte |-> Unset]
  /\ uncodes = [b \in Byte |-> Unset]
  /\ hare = 0 /\ tortoise = 0
  /\ used = {} /\ coded = {}
  /\ left = job.keyword
  /\ multiplier = 0 /\ index = 0
  /\ result = "none"

-----------------------------------------------------------------------------
(* Probing *)

\* g to the power of 128, modulo 257, by squaring.
Power128(g) ==
  LET square[n \in 0..7] == IF n = 0 THEN g ELSE (square[n - 1] * square[n - 1]) % 257
  IN square[7]

\* 257 is prime and 256 a power of two: a primitive root is what is no square.
PrimitiveRoots == {g \in 2..256 : Power128(g) = 256}

\* Mutated: the table begins with 2, whose powers are sixteen numbers only.
roots_WithTwo == [i \in Byte |-> Max({g \in PrimitiveRoots : g <= i + 1} \cup {2})]

\* The table roots: for each byte the last primitive root up to its successor.
roots == [i \in Byte |-> Max({g \in PrimitiveRoots : g <= i + 1} \cup {3})]

\* Where a probe goes on from index i, by multiplier g.
Next257(i, g) == (((i + 1) * g) % 257) - 1

\* A probe starts at byte c.
Start(c, where) ==
  /\ multiplier' = roots[c]
  /\ index' = Next257(c, roots[c])
  /\ pc' = where

Probe ==
  /\ pc \in {"place", "replace"}
  /\ index \in used
  /\ index' = Next257(index, multiplier)
  /\ UNCHANGED <<job, pc, tables, hare, tortoise, used, coded, left, multiplier, result>>

-----------------------------------------------------------------------------
(* The constructor *)

KeywordCharacter ==
  /\ pc = "keyword"
  /\ left # <<>>
  /\ Start(Head(left), "place")
  /\ UNCHANGED <<job, tables, hare, tortoise, used, coded, left, result>>

\* Mutated: the keyword's end is not given an entry.
KeywordEnd_NoTerminator ==
  /\ pc = "keyword"
  /\ left = <<>>
  /\ pc' = "fill"
  /\ UNCHANGED <<job, tables, hare, tortoise, used, coded, left, probe, result>>

\* The end of the keyword counts as a character: a null.
KeywordEnd ==
  /\ pc = "keyword"
  /\ left = <<>>
  /\ Start(0, "place")
  /\ UNCHANGED <<job, tables, hare, tortoise, used, coded, left, result>>

\* The tortoise starts once the null has its entry, and then moves each time.
Place ==
  /\ pc = "place"
  /\ index \notin used
  /\ codes' = [codes EXCEPT ![hare] = index]
  /\ used' = used \cup {index}
  /\ hare' = hare + 1
  /\ IF hare < Len(job.keyword)
       THEN pc' = "keyword" /\ left' = Tail(left) /\ UNCHANGED tortoise
       ELSE /\ pc' = "fill" /\ UNCHANGED left
            /\ tortoise' = IF hare = Len(job.keyword) THEN 0 ELSE tortoise + 1
  /\ UNCHANGED <<job, full_codes, uncodes, coded, probe, result>>

Fill ==
  /\ pc = "fill"
  /\ hare < 256
  /\ Start(codes[tortoise], "place")
  /\ UNCHANGED <<job, tables, hare, tortoise, used, coded, left, result>>

\* Mutated: what was in uncodes before stays.
get_full_codes_KeepsUncodes ==
  /\ full_codes' = [c \in Byte |-> to_full_code(codes'[c])]
  /\ uncodes' = [b \in Byte |->
       IF uncodes[b] # Unset THEN uncodes[b]
       ELSE Max({c \in Byte : codes'[c] = b} \cup {0})]

\* uncodes keeps what it has for bytes that are no code.
get_full_codes ==
  /\ full_codes' = [c \in Byte |-> to_full_code(codes'[c])]
  /\ uncodes' = [b \in Byte |-> LET chars == {c \in Byte : codes'[c] = b}
                                IN IF chars = {} THEN uncodes[b] ELSE Max(chars)]

Constructed ==
  /\ pc = "fill"
  /\ hare = 256
  /\ UNCHANGED codes
  /\ get_full_codes
  /\ pc' = IF job.then = "nothing" THEN "done" ELSE job.then
  /\ hare' = 0 /\ tortoise' = 0 /\ used' = {}
  /\ UNCHANGED <<job, coded, left, probe, result>>

-----------------------------------------------------------------------------
(* read_from_file and read_from_strings *)

\* FullCodebook's verify first brings the other tables up to date.
verify ==
  /\ get_full_codes
  /\ result' = IF IsInjective(codes') THEN "true" ELSE "false"
  /\ pc' = "done"

\* A file that is short, or absent, leaves the rest of codes as it was.
ReadFromFile ==
  /\ pc = "read_from_file"
  /\ codes' = [c \in Byte |-> IF c < Len(job.file) THEN job.file[c + 1] ELSE codes[c]]
  /\ verify
  /\ UNCHANGED <<job, hare, tortoise, used, coded, left, probe>>

Given == DOMAIN job.strings

\* The strings in the order of their characters; a string that is no code, or
\* one that is used, ends the call where it stands.
ReadString ==
  /\ pc = "read_from_strings"
  /\ Given \ coded # {}
  /\ LET c == Min(Given \ coded)
         b == to_byte_code(job.strings[c])
     IN IF valid_readable_code(job.strings[c]) /\ b \notin used
          THEN /\ codes' = [codes EXCEPT ![c] = b]
               /\ used' = used \cup {b} /\ coded' = coded \cup {c}
               /\ UNCHANGED <<pc, result>>
          ELSE /\ pc' = "done" /\ result' = "false"
               /\ UNCHANGED <<codes, used, coded>>
  /\ UNCHANGED <<job, full_codes, uncodes, hare, tortoise, left, probe>>

StringsRead ==
  /\ pc = "read_from_strings"
  /\ Given \ coded = {}
  /\ pc' = "refill"
  /\ UNCHANGED <<job, tables, hare, tortoise, used, coded, left, probe, result>>

Refill ==
  /\ pc = "refill"
  /\ hare < 256
  /\ IF hare \in coded
       THEN hare' = hare + 1 /\ UNCHANGED <<pc, probe>>
       ELSE Start(codes[tortoise], "replace") /\ UNCHANGED hare
  /\ UNCHANGED <<job, tables, tortoise, used, coded, left, result>>

Replace ==
  /\ pc = "replace"
  /\ index \notin used
  /\ codes' = [codes EXCEPT ![hare] = index]
  /\ used' = used \cup {index}
  /\ tortoise' = index
  /\ hare' = hare + 1
  /\ pc' = "refill"
  /\ UNCHANGED <<job, full_codes, uncodes, coded, left, probe, result>>

Refilled ==
  /\ pc = "refill"
  /\ hare = 256
  /\ UNCHANGED codes
  /\ verify
  /\ UNCHANGED <<job, hare, tortoise, used, coded, left, probe>>

Finished == pc = "done" /\ UNCHANGED vars

Next ==
  \/ KeywordCharacter \/ KeywordEnd \/ Fill \/ Probe \/ Place \/ Constructed
  \/ ReadFromFile
  \/ ReadString \/ StringsRead \/ Refill \/ Replace \/ Refilled
  \/ Finished

Spec == Init /\ [][Next]_vars

\* The constructor and the calls run in one thread, which nothing blocks.
FairSpec == Spec /\ WF_vars(Next)

-----------------------------------------------------------------------------
(* Properties *)

\* The loops stay inside the arrays: a probe never leaves the bytes, the hare
\* never writes behind codes[255], and the tortoise reads entries that have
\* been written only, though nothing initializes codes.
InBounds ==
  /\ pc \in {"place", "replace"} => index \in Byte /\ hare < 256
  /\ pc = "fill" /\ hare < 256 => tortoise < hare /\ codes[tortoise] # Unset
  /\ pc = "refill" => codes[tortoise] # Unset

\* Unless false was returned, every character has a code of its own, and the
\* three tables agree: operator+ gives the presses of the byte that operator*
\* gives, and operator- takes that byte back to the character.
TablesAgree ==
  pc = "done" /\ result # "false" =>
    \A c \in Byte :
      /\ to_byte_code(full_codes[c]) = codes[c]
      /\ uncodes[codes[c]] = c

\* The test of read_from_strings: "assert(to_readable_code(full_codebook+c) ==
\* s)" for each string that was given (test/codebook_test.cpp:84).
StringsKept ==
  pc = "done" /\ result = "true" /\ job.then = "read_from_strings" =>
    \A c \in Given : full_codes[c] = job.strings[c]

\* Every probe finds a byte that is not used, so that every call returns.
Ends == <>(pc = "done")
=============================================================================
