----------------------------- MODULE MCMessages -----------------------------
(***************************************************************************)
(* Instances of Messages for TLC.  With PACKET_BUFFER_SIZE = 14 the first  *)
(* packet has room for 3 bytes beside a name of one, the others for 5.     *)
(***************************************************************************)
EXTENDS Messages

CONSTANTS s1, s2, s3, Ann, Ben, Cat

Users == [s \in Session |-> CASE s = s1 -> Ann [] s = s2 -> Ben [] OTHER -> Cat]
Sizes == [u \in User |-> IF u = Ben THEN 2 ELSE 1]

Post(i, u, n) == [id |-> i, to |-> u, size |-> n]

\* Two clients write to the same user, one message in three packets and one
\* that just fills two; she writes one that just fills one.
Mixed == [s \in Session |-> CASE s = s1 -> <<Post(1, Cat, 9)>>
                              [] s = s2 -> <<Post(2, Cat, 7)>>
                              [] s = s3 -> <<Post(3, Ann, 3)>>
                              [] OTHER -> <<>>]
=============================================================================
