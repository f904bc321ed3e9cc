---------------------------- MODULE Friendships ----------------------------
(***************************************************************************)
(* What millennium_falcon promises of friendships, without threads,        *)
(* packets, statements or rows.                                            *)
(*                                                                         *)
(* A friendship of two is two entries, one for each of them to find the    *)
(* other by.  The first is made only by a session of somebody whom the     *)
(* other has asked, the second only where the first is; and no entry is    *)
(* ever lost.  That somebody was asked is known only because a session of  *)
(* who asked said so; it may be forgotten at any time, by an answer, a     *)
(* refusal or the end of the server.                                       *)
(***************************************************************************)
CONSTANTS User, Conn, NoUser

VARIABLES
  asked,     \* the pairs <<s, r>> of which it is known that s has asked r
  friends,   \* the pairs <<u, v>> such that v is in the list of u
  session    \* session[c]: the user whose session is over c, or NoUser

vars == <<asked, friends, session>>

Init ==
  /\ asked = {}
  /\ friends \subseteq User \X User
  /\ \A p \in friends : <<p[2], p[1]>> \in friends
  /\ session = [c \in Conn |-> NoUser]

\* The session over c asks r.
Ask(c, r) ==
  /\ session[c] # NoUser
  /\ asked' = asked \cup {<<session[c], r>>}
  /\ UNCHANGED <<friends, session>>

\* The session over c accepts what s has asked.
Accept(c, s) ==
  /\ <<s, session[c]>> \in asked
  /\ friends' = friends \cup {<<s, session[c]>>}
  /\ asked' \subseteq asked
  /\ UNCHANGED session

\* ... and returns it.
Return(c, s) ==
  /\ <<s, session[c]>> \in friends
  /\ friends' = friends \cup {<<session[c], s>>}
  /\ asked' \subseteq asked
  /\ UNCHANGED session

\* Sessions come and go, and what was asked may be forgotten.
Forget ==
  /\ UNCHANGED friends
  /\ session' \in [Conn -> User \cup {NoUser}]
  /\ asked' \subseteq asked

Next ==
  \/ Forget
  \/ \E c \in Conn, u \in User : Ask(c, u) \/ Accept(c, u) \/ Return(c, u)

Spec == Init /\ [][Next]_vars
=============================================================================
