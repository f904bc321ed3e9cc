----------------------------- MODULE MCCodebook -----------------------------
(***************************************************************************)
(* Instances of Codebook for TLC: which codebooks are made.                *)
(***************************************************************************)
EXTENDS Codebook, TLC

Job(k, t, f, s) == [keyword |-> k, then |-> t, file |-> f, strings |-> s]
Keyword(k) == Job(k, "nothing", NoFile, NoStrings)
File(f) == Job(<<>>, "read_from_file", f, NoStrings)
Strings(s) == Job(<<>>, "read_from_strings", NoFile, s)

\* "", "test", three equal letters, and characters whose probes collide with
\* the null's: 0 probes by 3 from 2.
Keywords == {Keyword(k) : k \in {<<>>, <<116, 101, 115, 116>>, <<97, 97, 97>>,
                                 <<0, 2, 1>>, <<127, 0, 127>>}}

Backwards == [i \in 1..256 |-> 256 - i]

\* The strings of test/codebook_test.cpp; the longest codes; one string given
\* twice; one that is no code.
TestStrings == 97 :> Code(0, 1, 1) @@ 101 :> Code(1, 1, 1) @@ 105 :> Code(0, 1, 2)
               @@ 111 :> Code(0, 2, 1) @@ 117 :> Code(1, 1, 2)
LongStrings == 0 :> Code(0, 4, 11) @@ 3 :> Code(1, 7, 10) @@ 200 :> Code(0, 7, 9)
               @@ 255 :> Code(3, 7, 8)
SameStrings == 65 :> Code(0, 1, 9) @@ 66 :> Code(0, 1, 9)
NoCodeStrings == 65 :> Code(0, 1, 1) @@ 66 :> Code(2, 0, 0)

Calls == {File(Backwards), File([Backwards EXCEPT ![9] = 0]), File(NoFile)} \cup
         {Strings(s) : s \in {TestStrings, LongStrings, SameStrings, NoCodeStrings}}

AllJobs == Keywords \cup Calls
=============================================================================
