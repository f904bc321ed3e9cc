-------------------------- MODULE FalconProperties --------------------------
(***************************************************************************)
(* What millennium_falcon should guarantee, stated of the model of Falcon. *)
(***************************************************************************)
EXTENDS Falcon, FiniteSets

\* The thread of c waits in recv, with nothing left to send.
Idle(c) == thread[c].pc = "recv"

\* c is on its way out, or gone.
Leaving(c) == thread[c].pc \in {"bye_friends", "each_bye", "close", "closed"}

\* Nothing failed, and no thread has ended the process.
Undisturbed == faults = 0 /\ restarts = 0 /\ server = "up"

\* Every thread waits for a request, or for a connection, or is gone.
Quiet == \A c \in Conn : thread[c].pc \in {"none", "recv", "closed"}

-----------------------------------------------------------------------------
(* The registry of sessions *)

\* clientIDs holds exactly the sessions there are: a user name leads to a
\* connection, once, when that connection is open and logged in as that user.
\* So sendOutPacket looks up every session of a user, none twice, and, before
\* it lets go of clientMutex, none that is erased (server.cpp, the insertions
\* into clientIDs, "Clean up client connection" and sendOutPacket).
RegistryExact ==
  \A u \in User, c \in Conn :
    clientIDs[u][c] = IF c \in live /\ me(c) = u THEN 1 ELSE 0

\* Where a thread examines credentials.
CredentialLabels == {"create_check", "create_insert", "login_check",
                     "login_password", "register"}

Passwords(u) == {users[u][i] : i \in DOMAIN users[u]}

\* The session over c is that of the user whose name leads there.
SessionOf(c) ==
  IF \E u \in User : clientIDs[u][c] > 0
  THEN CHOOSE u \in User : clientIDs[u][c] > 0 ELSE NoUser

ClaimOf(c) ==
  IF thread[c].pc \in CredentialLabels THEN <<you(c), thread[c].req.pass>> ELSE <<>>

passwords == [u \in User |-> Passwords(u)]
session == [c \in Conn |-> SessionOf(c)]
claim == [c \in Conn |-> ClaimOf(c)]
accepted == {c \in Conn : thread[c].pc = "register"}

Promised == INSTANCE Sessions WITH open <- live, failures <- faults

\* The server's threads, each in many steps, do what Sessions does in one: a
\* name leads to a connection only after its client gave a password of that
\* account, or the empty one while the statement that reads the account's
\* failed; to one user's connection at a time, and no longer than the
\* connection is open (server.cpp, CREATE_ACCOUNT, LOGIN_REQUEST, and "Clean up
\* client connection"; database.cpp, getPassHashFromUsername).
KeepsSessions == Promised!Spec

-----------------------------------------------------------------------------
(* Who sees whom online *)

\* The thread of c is making friends of u and v: it has read the acceptance of
\* one by the other, and is not done with it.
Befriending(c, u, v) == thread[c].req.type = "accept" /\ {me(c), you(c)} = {u, v}

\* Two friends, each logged in at rest, of whom no session has left and none is
\* still accepting the other: at least one of the two has last been told that
\* the other is ONLINE.  The threads register before they look, so two logins
\* cannot both miss each other.
OneSideSees ==
  Undisturbed =>
    \A a, b \in Conn :
      /\ Idle(a) /\ Idle(b)
      /\ me(a) # me(b) /\ me(a) # NoUser /\ me(b) # NoUser
      /\ friends[me(a)][me(b)] > 0 /\ friends[me(b)][me(a)] > 0
      /\ \A c \in Conn : /\ me(c) \in {me(a), me(b)} => ~Leaving(c)
                         /\ ~Befriending(c, me(a), me(b))
      => status[a][me(b)] = "ONLINE" \/ status[b][me(a)] = "ONLINE"

\* A client is told the status of its user's friends only: whoever a session
\* has heard of has a friendship row with the session's user, in one
\* direction at least (the second row may be about to be inserted).
StatusOfFriendsOnly ==
  Undisturbed =>
    \A c \in Conn, u \in User :
      me(c) # NoUser /\ status[c][u] # "unknown"
      => friends[me(c)][u] + friends[u][me(c)] > 0

-----------------------------------------------------------------------------
(* Friend requests and friendships *)

\* At rest, a request that is stored and not hidden has been forwarded to every
\* session of its recipient that logged in by password and has not been
\* answered there, whichever of the login and the request came first, and
\* whenever the server was killed.
NoLostRequest ==
  faults = 0 /\ Quiet =>
    \A c \in Conn, s \in User :
      /\ Idle(c)
      /\ me(c) # NoUser
      /\ requests[s][me(c)].shown > 0
      => offers[c][s] > 0

\* The threads that inserted the row (u, v) and have the row (v, u) to insert.
HalfDone(u, v) ==
  Cardinality({c \in Conn : /\ thread[c].pc = "accept_second"
                            /\ you(c) = u /\ me(c) = v})

\* Friendship is mutual: but for the acceptances half way, there are as many
\* rows one way as the other, however the acceptances of many sessions
\* interleave ("Insert bidirectional friendship (both directions)").
FriendsMutual ==
  Undisturbed =>
    \A u, v \in User : friends[u][v] + HalfDone(v, u) = friends[v][u] + HalfDone(u, v)

\* What the thread t knows of a request of s to r: it is to forward it, or is
\* answering it with yes and has not inserted a row yet.
Remembers(t, s, r) ==
  \/ \E i \in DOMAIN t.out : t.out[i] = Call(r, "FORWARD", s)
  \/ t.connectedUser = r /\ t.pc = "each_incoming" /\ t.names[s] > 0
  \/ t.connectedUser = r /\ t.pc \in {"accept_remove", "accept_first"} /\ t.req.name = s

\* It is known that s has asked r: it is stored, or a thread of the server or a
\* client of r has it in hand.
Known(s, r) ==
  \/ requests[s][r].shown > 0
  \/ \E c \in Conn : Remembers(thread[c], s, r) \/ (me(c) = r /\ offers[c][s] > 0)

asked == {p \in User \X User : Known(p[1], p[2])}
befriended == {p \in User \X User : friends[p[1]][p[2]] > 0}

Allowed == INSTANCE Friendships WITH friends <- befriended

\* However acceptances, refusals and logins of many sessions interleave,
\* whatever fails, and whenever the server is killed: nobody becomes a friend
\* of who has not asked, the row of who was asked comes only after the row of
\* who asked, and no friend is lost (server.cpp, FRIEND_REQUEST_SEND,
\* FRIEND_REQUEST_ACKNOWLEDGE and the forwarding of requests at login).
KeepsFriendships == Allowed!Spec

-----------------------------------------------------------------------------
(* Liveness *)

\* Whatever a thread has begun it ends: it comes back to recv, or closes its
\* connection, unless the process dies.
HandlersReturn ==
  \A c \in Conn :
    thread[c].pc \notin {"none", "recv", "closed"}
      ~> (thread[c].pc \in {"recv", "closed"} \/ server # "up")

\* A logged-in session that hangs up disappears from the registry.
LeaversAreForgotten ==
  \A c \in Conn, u \in User :
    thread[c].pc = "bye_friends" /\ me(c) = u
      ~> (clientIDs[u][c] = 0 \/ server # "up")

-----------------------------------------------------------------------------
(* Messages *)

\* "message delivery confirmation" (clientsocket.cpp:179): the answer that a
\* message was sent is given when it reached a connection of its recipient,
\* unless one of the recipient's sessions has left: whether the recipient is
\* online, and where, are two look-ups.
ConfirmedIsDelivered ==
  Undisturbed =>
    \A c \in Conn :
      /\ At(c, "respond") /\ thread[c].req.type = "message" /\ thread[c].resp = "yes"
      /\ \A d \in Conn : me(d) = you(c) => ~Leaving(d)
      => thread[c].reached

-----------------------------------------------------------------------------
(* What comments say of the code, and the code does not do *)

\* "mutexes for each socket, by ID" (server.h:53): there is one for whatever ID
\* sendOutPacket collected, so that no thread locks an absent one.
NoCrash == server # "crashed"
=============================================================================
