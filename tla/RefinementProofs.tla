-------------------------- MODULE RefinementProofs --------------------------
(***************************************************************************)
(* The server of Falcon implements Sessions and Friendships, for every set *)
(* of users, passwords and connections, every workload and every bound, as *)
(* long as clients wait for the result of a login.                         *)
(*                                                                         *)
(* Session by session this rests on the invariant of FalconProofs: what    *)
(* clientIDs says of a connection is what the thread of that connection    *)
(* knows.  That only a right password enters rests on AccountsRead: a      *)
(* thread that reads a password reads that of an account.  That only who   *)
(* was asked befriends rests on HeldOK: a request reaches the sessions of  *)
(* who was asked, and a thread that is about to return an acceptance has   *)
(* inserted the first row.                                                 *)
(***************************************************************************)
EXTENDS FalconProofs

\* The account whose password a thread is about to read exists.
AccountsRead == \A c \in Conn : thread[c].pc = "login_password" => users[you(c)] # <<>>

\* A step that Sessions can take, or does not see but for a failure, and that
\* keeps AccountsRead.
Simulated == Promised!Step /\ AccountsRead'

\* What one thread does to the others' claims and sessions: nothing.
Only(c) == \A d \in Conn \ {c} : thread'[d] = thread[d]

-----------------------------------------------------------------------------
(* The refinement mapping *)

\* A session is what its thread takes it for.
SessionsOK == session = [c \in Conn |-> IF c \in live THEN me(c) ELSE NoUser]

\* ... where the registry is exact.
LEMMA SessionIs == IInv /\ ~Relogin => SessionsOK
<1> SUFFICES ASSUME IInv, ~Relogin, NEW c \in Conn
             PROVE  SessionOf(c) = IF c \in live THEN me(c) ELSE NoUser
  BY DEF session, SessionsOK
<1>1. \A u \in User : clientIDs[u][c] = IF c \in live /\ me(c) = u THEN 1 ELSE 0
  BY DEF IInv, RegistryExact
<1>2. me(c) \in User \cup {NoUser}
  BY DEF IInv, TypeOK, Threads, me
<1>3. CASE c \in live /\ me(c) \in User
  BY <1>1, <1>3 DEF SessionOf
<1>4. CASE ~(c \in live /\ me(c) \in User)
  BY <1>1, <1>2, <1>4 DEF SessionOf
<1> QED
  BY <1>3, <1>4

\* A step of one thread that neither begins nor ends with credentials in hand,
\* or keeps those it has, is not seen by Sessions.
LEMMA Aside ==
  ASSUME IInv, AccountsRead, NEW c \in Conn, NEW t, Becomes(c, t),
         \/ thread[c].pc \notin CredentialLabels /\ t.pc \notin CredentialLabels
         \/ t.pc = thread[c].pc /\ t.req = thread[c].req,
         UNCHANGED <<registry, users>>
  PROVE  Simulated
<1>1. thread' = [thread EXCEPT ![c] = t] /\ thread \in [Conn -> Threads]
  BY DEF Becomes, IInv, TypeOK
<1>2. thread'[c] = t /\ Only(c)
  BY <1>1 DEF Only
<1>3. clientIDs' = clientIDs /\ live' = live /\ users' = users
  BY DEF registry
<1>4. passwords' = passwords
  BY <1>3 DEF passwords, Passwords
<1>5. session' = session
  BY <1>3 DEF session, SessionOf
<1>6. claim' = claim
  <2> SUFFICES ASSUME NEW d \in Conn PROVE ClaimOf(d)' = ClaimOf(d)
    BY DEF claim
  <2>1. CASE d = c
    BY <1>2, <2>1 DEF ClaimOf, you
  <2>2. CASE d # c
    BY <1>2, <2>2 DEF ClaimOf, you, Only
  <2> QED
    BY <2>1, <2>2
<1>7. accepted' = accepted
  BY <1>1, <1>2 DEF accepted, CredentialLabels, Only
<1>8. AccountsRead'
  <2> SUFFICES ASSUME NEW d \in Conn
               PROVE  thread'[d].pc = "login_password" => users[thread'[d].req.name] # <<>>
    BY <1>3 DEF AccountsRead, you
  <2>1. CASE d = c
    BY <1>2, <2>1 DEF AccountsRead, CredentialLabels, you
  <2>2. CASE d # c
    BY <1>2, <2>2 DEF AccountsRead, Only, you
  <2> QED
    BY <2>1, <2>2
<1> QED
  BY <1>3, <1>4, <1>5, <1>6, <1>7, <1>8 DEF Simulated, Promised!Step, Promised!state

-----------------------------------------------------------------------------
(* Steps that Sessions does not see *)

\* The fields that moving to l keeps, and those it does not.
LEMMA MovedTo ==
  ASSUME IInv, NEW c \in Conn, NEW l, NEW r
  PROVE  /\ thread[c] \in Threads
         /\ To(c, l).pc = l /\ Replying(c, r).pc = "respond"
         /\ To(c, l).req = thread[c].req
<1>1. thread[c] \in Threads
  BY DEF IInv, TypeOK
<1> QED
  BY <1>1 DEF Threads, To, Replying

\* The loops of logins and goodbyes.
LEMMA LoopsAside ==
  ASSUME IInv, AccountsRead, NEW c \in Conn,
         \/ LoginIncoming(c) \/ LoginOutgoing(c) \/ LoginFriends(c)
         \/ LoginDone(c) \/ ByeFriends(c) \/ ByeDone(c)
         \/ \E n \in User : \/ EachIncoming(c, n) \/ EachOutgoing(c, n)
                            \/ EachFriend(c, n) \/ EachBye(c, n)
  PROVE  Simulated
<1>1. thread[c] \in Threads
  BY DEF IInv, TypeOK
<1>2. ASSUME NEW l, NEW b, Walk(c, l, b), l \notin CredentialLabels,
             thread[c].pc \notin CredentialLabels
      PROVE  Simulated
  <2>1. PICK p \in Parts(b) : Becomes(c, [thread[c] EXCEPT !.pc = l, !.names = p])
    BY <1>2 DEF Walk
  <2> DEFINE t == [thread[c] EXCEPT !.pc = l, !.names = p]
  <2>2. t.pc = l
    BY <1>1 DEF Threads
  <2>3. UNCHANGED <<registry, users>>
    BY <1>2 DEF Walk, dbVars
  <2> QED
    BY <1>2, <2>1, <2>2, <2>3, Aside
<1>3. ASSUME NEW n, NEW calls, Visit(c, n, calls) PROVE Simulated
  <2> DEFINE t == [thread[c] EXCEPT !.names[n] = @ - 1, !.out = calls]
  <2>1. Becomes(c, t) /\ UNCHANGED <<registry, users>>
    BY <1>3 DEF Visit, dbVars
  <2>2. t.pc = thread[c].pc /\ t.req = thread[c].req
    BY <1>1 DEF Threads
  <2> QED
    BY <2>1, <2>2, Aside
<1>4. ASSUME NEW l, Goto(c, l), l \notin CredentialLabels, UNCHANGED <<dbVars, registry>>,
             thread[c].pc \notin CredentialLabels
      PROVE  Simulated
  <2>1. [thread[c] EXCEPT !.pc = l].pc = l
    BY <1>1 DEF Threads
  <2> QED
    BY <1>4, <2>1, Aside DEF Goto, dbVars
<1>5. CASE LoginIncoming(c)
  BY <1>5, <1>2 DEF LoginIncoming, At, CredentialLabels
<1>6. CASE LoginOutgoing(c)
  BY <1>6, <1>2 DEF LoginOutgoing, At, CredentialLabels
<1>7. CASE LoginFriends(c)
  BY <1>7, <1>2 DEF LoginFriends, At, CredentialLabels
<1>8. CASE ByeFriends(c)
  BY <1>8, <1>2 DEF ByeFriends, At, CredentialLabels
<1>9. CASE LoginDone(c) \/ ByeDone(c)
  BY <1>9, <1>4 DEF LoginDone, ByeDone, At, CredentialLabels
<1>10. ASSUME NEW n \in User, \/ EachIncoming(c, n) \/ EachOutgoing(c, n)
                               \/ EachFriend(c, n) \/ EachBye(c, n)
       PROVE  Simulated
  BY <1>10, <1>3 DEF EachIncoming, EachOutgoing, EachFriend, EachBye
<1> QED
  BY <1>5, <1>6, <1>7, <1>8, <1>9, <1>10

\* A statement on friendships or requests, or no statement, on the way from
\* one place to another.
LEMMA MoveAside ==
  ASSUME IInv, AccountsRead, NEW c \in Conn, thread[c].pc \notin CredentialLabels,
         NEW l, l \notin CredentialLabels, NEW o, NEW r,
         \/ Becomes(c, To(c, l)) \/ Becomes(c, Replying(c, r))
         \/ Becomes(c, [To(c, l) EXCEPT !.out = o])
         \/ Becomes(c, [Replying(c, r) EXCEPT !.out = o]),
         UNCHANGED <<registry, users>>
  PROVE  Simulated
<1>1. To(c, l).pc = l /\ Replying(c, r).pc = "respond"
  BY MovedTo
<1>2. /\ [To(c, l) EXCEPT !.out = o].pc = l
      /\ [Replying(c, r) EXCEPT !.out = o].pc = "respond"
  <2>1. thread[c] \in Threads
    BY DEF IInv, TypeOK
  <2> QED
    BY <2>1 DEF To, Replying, Threads
<1>3. "respond" \notin CredentialLabels
  BY DEF CredentialLabels
<1>4. CASE Becomes(c, To(c, l))
  BY <1>1, <1>4, Aside
<1>5. CASE Becomes(c, Replying(c, r))
  BY <1>1, <1>3, <1>5, Aside
<1>6. CASE Becomes(c, [To(c, l) EXCEPT !.out = o])
  BY <1>2, <1>6, Aside
<1>7. CASE Becomes(c, [Replying(c, r) EXCEPT !.out = o])
  BY <1>2, <1>3, <1>7, Aside
<1> QED
  BY <1>4, <1>5, <1>6, <1>7

\* FRIEND_REQUEST_SEND.
LEMMA AskAside ==
  ASSUME IInv, AccountsRead, NEW c \in Conn, AskCheck(c) \/ AskInsert(c)
  PROVE  Simulated
<1>1. thread[c].pc \notin CredentialLabels /\ "ask_insert" \notin CredentialLabels
  BY DEF AskCheck, AskInsert, At, CredentialLabels
<1>2. CASE AskCheck(c)
  <2>1. Becomes(c, Replying(c, "no")) \/ Becomes(c, To(c, "ask_insert"))
    BY <1>2 DEF AskCheck, Answer, Replying, Goto, To
  <2>2. UNCHANGED <<registry, users>>
    BY <1>2 DEF AskCheck, dbVars
  <2> QED
    BY <1>1, <2>1, <2>2, MoveAside
<1>3. CASE AskInsert(c)
  <2> DEFINE o == <<Call(you(c), "FORWARD", me(c))>>
  <2>1. Becomes(c, [Replying(c, "yes") EXCEPT !.out = o]) \/ Becomes(c, Replying(c, "no"))
    BY <1>3 DEF AskInsert, Run
  <2>2. UNCHANGED <<registry, users>>
    BY <1>3 DEF AskInsert, Run, insertFriendRequest, dbVars
  <2> HIDE DEF o
  <2> QED
    BY <1>1, <2>1, <2>2, MoveAside
<1> QED
  BY <1>2, <1>3

\* FRIEND_REQUEST_ACKNOWLEDGE, in any of its steps.
LEMMA AcknowledgeAside ==
  ASSUME IInv, AccountsRead, NEW c \in Conn,
         \/ AcceptRemove(c) \/ AcceptFirst(c) \/ AcceptSecond(c) \/ AcceptAnnounce(c)
         \/ RejectTell(c) \/ RejectRemove(c) \/ Hide(c)
  PROVE  Simulated
<1>1. thread[c].pc \notin CredentialLabels
  BY DEF AcceptRemove, AcceptFirst, AcceptSecond, AcceptAnnounce, RejectTell,
         RejectRemove, Hide, At, CredentialLabels
<1>2. \E l \in {"accept_first", "accept_second", "accept_announce", "reject_remove",
                "respond"} :
        \E o : Becomes(c, To(c, l)) \/ Becomes(c, [To(c, l) EXCEPT !.out = o])
  <2>1. CASE AcceptRemove(c) \/ AcceptFirst(c) \/ AcceptSecond(c) \/ RejectRemove(c) \/ Hide(c)
    BY <2>1 DEF AcceptRemove, AcceptFirst, AcceptSecond, RejectRemove, Hide, Run
  <2>2. CASE AcceptAnnounce(c)
    BY <2>2 DEF AcceptAnnounce
  <2>3. CASE RejectTell(c)
    BY <2>3 DEF RejectTell
  <2> QED
    BY <2>1, <2>2, <2>3
<1>3. UNCHANGED <<registry, users>>
  BY DEF AcceptRemove, AcceptFirst, AcceptSecond, AcceptAnnounce, RejectTell, RejectRemove,
         Hide, Run, dbVars, removeFriendRequest, insertFriendRow, hideFriendRequest
<1>4. \A l \in {"accept_first", "accept_second", "accept_announce", "reject_remove",
                "respond"} : l \notin CredentialLabels
  BY DEF CredentialLabels
<1> QED
  BY <1>1, <1>2, <1>3, <1>4, MoveAside

\* MESSAGE_SEND.
LEMMA MessageAside ==
  ASSUME IInv, AccountsRead, NEW c \in Conn, MessageCheck(c)
  PROVE  Simulated
<1> DEFINE o == <<Call(you(c), "MESSAGE", me(c))>>
<1>1. Becomes(c, [Replying(c, "yes") EXCEPT !.out = o]) \/ Becomes(c, Replying(c, "no"))
  BY DEF MessageCheck, Answer, Replying
<1>2. /\ UNCHANGED <<registry, users>>
      /\ thread[c].pc \notin CredentialLabels /\ "respond" \notin CredentialLabels
  BY DEF MessageCheck, dbVars, At, CredentialLabels
<1> HIDE DEF o
<1> QED
  BY <1>1, <1>2, MoveAside

\* The answer to a request, the end of a session, and packets that are no
\* credentials.
LEMMA SessionAside ==
  ASSUME IInv, AccountsRead, NEW c \in Conn,
         \/ Respond(c) \/ Disconnected(c) \/ ReceiveInvalid(c)
         \/ \E u \in User :
              \/ ReceiveAsk(c, u) \/ ReceiveMessage(c, u)
              \/ \E type \in {"accept", "reject", "hide"} : ReceiveAcknowledge(c, type, u)
  PROVE  Simulated
<1>1. thread[c] \in Threads
  BY DEF IInv, TypeOK
<1>2. \A l \in {"recv", "close", "bye_friends"} : l \notin CredentialLabels
  BY DEF CredentialLabels
<1>3. CASE Respond(c)
  <2> DEFINE t == [Fresh("recv") EXCEPT !.connectedUser = me(c)]
  <2>1. t.pc = "recv"
    BY DEF Fresh
  <2>2. Becomes(c, t) \/ Becomes(c, To(c, "close"))
    BY <1>3 DEF Respond, BackToRecv, Goto, To
  <2>3. thread[c].pc \notin CredentialLabels /\ UNCHANGED <<registry, users>>
    BY <1>3 DEF Respond, At, CredentialLabels, dbVars
  <2> HIDE DEF t
  <2>4. CASE Becomes(c, t)
    BY <1>2, <2>1, <2>3, <2>4, Aside
  <2>5. CASE Becomes(c, To(c, "close"))
    BY <1>2, <2>3, <2>5, MoveAside
  <2> QED
    BY <2>2, <2>4, <2>5
<1>4. CASE Disconnected(c) \/ ReceiveInvalid(c)
  <2>1. Becomes(c, To(c, "close")) \/ Becomes(c, To(c, "bye_friends"))
    BY <1>4 DEF Disconnected, ReceiveInvalid, Goto, To
  <2>2. thread[c].pc \notin CredentialLabels /\ UNCHANGED <<registry, users>>
    BY <1>4 DEF Disconnected, ReceiveInvalid, At, CredentialLabels, dbVars
  <2> QED
    BY <1>2, <2>1, <2>2, MoveAside
<1>5. ASSUME NEW r, r.type \in {"ask", "message", "accept", "reject", "hide"}, Receive(c, r)
      PROVE  Simulated
  <2> DEFINE t == [thread[c] EXCEPT !.pc = Case(r.type), !.req = r]
  <2>1. t.pc = Case(r.type)
    BY <1>1 DEF Threads
  <2>2. Case(r.type) \notin CredentialLabels
    BY <1>5 DEF Case, CredentialLabels
  <2>3. /\ thread[c].pc \notin CredentialLabels
        /\ Becomes(c, t) /\ UNCHANGED <<registry, users>>
    BY <1>5 DEF Receive, At, CredentialLabels, dbVars
  <2> HIDE DEF t
  <2> QED
    BY <2>1, <2>2, <2>3, Aside
<1>6. ASSUME NEW u \in User,
             \/ ReceiveAsk(c, u) \/ ReceiveMessage(c, u)
             \/ \E type \in {"accept", "reject", "hide"} : ReceiveAcknowledge(c, type, u)
      PROVE  Simulated
  BY <1>5, <1>6 DEF ReceiveAsk, ReceiveMessage, ReceiveAcknowledge
<1> QED
  BY <1>3, <1>4, <1>6

\* sendOutPacket moves packets, and no session.
LEMMA SendingAside ==
  ASSUME IInv, AccountsRead, NEW c \in Conn, Collect(c) \/ \E k \in Conn : Deliver(c, k)
  PROVE  Simulated
<1>1. thread[c] \in Threads
  BY DEF IInv, TypeOK
<1>2. UNCHANGED <<registry, users>>
  BY DEF Collect, Deliver, dbVars
<1>3. \E t : Becomes(c, t) /\ t.pc = thread[c].pc /\ t.req = thread[c].req
  <2>1. CASE Collect(c)
    <3> DEFINE ids == clientIDs[Head(thread[c].out).to]
               t == IF ids = NoTargets THEN Returned(c) ELSE [thread[c] EXCEPT !.targetIDs = ids]
    <3>1. Becomes(c, t)
      BY <2>1 DEF Collect
    <3>2. t.pc = thread[c].pc /\ t.req = thread[c].req
      BY <1>1 DEF Returned, Threads
    <3> QED
      BY <3>1, <3>2
  <2>2. ASSUME NEW k \in Conn, Deliver(c, k)
        PROVE  \E t : Becomes(c, t) /\ t.pc = thread[c].pc /\ t.req = thread[c].req
    <3> DEFINE p == Head(thread[c].out)
               left == [thread[c].targetIDs EXCEPT ![k] = @ - 1]
               s == [thread[c] EXCEPT !.targetIDs = left,
                                      !.reached = @ \/ p.type = "MESSAGE"]
               t == IF left = NoTargets THEN [s EXCEPT !.out = Tail(@)] ELSE s
    <3>1. Becomes(c, t)
      BY <2>2 DEF Deliver, Served
    <3> HIDE DEF p, left
    <3>2. s.pc = thread[c].pc /\ s.req = thread[c].req
      BY <1>1 DEF Threads
    <3>3. [s EXCEPT !.out = Tail(@)].pc = s.pc /\ [s EXCEPT !.out = Tail(@)].req = s.req
      BY <1>1 DEF Threads
    <3> HIDE DEF s
    <3> QED
      BY <3>1, <3>2, <3>3
  <2> QED
    BY <2>1, <2>2
<1> QED
  BY <1>2, <1>3, Aside

-----------------------------------------------------------------------------
(* Steps that Sessions takes, too *)

\* A name with a password is some claim.
LEMMA PairIsClaim == \A u, p : <<u, p>> # <<>>
<1>1. \A u, p : Len(<<u, p>>) # Len(<<>>)
  OBVIOUS
<1> QED
  BY <1>1

\* The claims after a step of one thread.
LEMMA ClaimAfter ==
  ASSUME IInv, NEW c \in Conn, NEW t, Becomes(c, t)
  PROVE  /\ thread'[c] = t /\ Only(c)
         /\ claim' = [claim EXCEPT ![c] = IF t.pc \in CredentialLabels
                                           THEN <<t.req.name, t.req.pass>> ELSE <<>>]
         /\ accepted' = IF t.pc = "register" THEN accepted \cup {c} ELSE accepted \ {c}
<1>1. thread' = [thread EXCEPT ![c] = t] /\ thread \in [Conn -> Threads]
  BY DEF Becomes, IInv, TypeOK
<1>2. thread'[c] = t /\ Only(c)
  BY <1>1 DEF Only
<1>3. \A d \in Conn \ {c} : ClaimOf(d)' = ClaimOf(d)
  BY <1>2 DEF ClaimOf, you, Only
<1>4. ClaimOf(c)' = IF t.pc \in CredentialLabels THEN <<t.req.name, t.req.pass>> ELSE <<>>
  BY <1>2 DEF ClaimOf, you
<1>5. accepted' = IF t.pc = "register" THEN accepted \cup {c} ELSE accepted \ {c}
  BY <1>2 DEF accepted, Only
<1> QED
  BY <1>2, <1>3, <1>4, <1>5 DEF claim

\* Accounts stay, and the thread that moves has looked.
LEMMA AccountsStay ==
  ASSUME IInv, AccountsRead, NEW c \in Conn, Only(c),
         thread'[c].pc = "login_password" => users'[thread'[c].req.name] # <<>>,
         \A u \in User : users[u] # <<>> => users'[u] # <<>>
  PROVE  AccountsRead'
<1> SUFFICES ASSUME NEW d \in Conn
             PROVE  thread'[d].pc = "login_password" => users'[thread'[d].req.name] # <<>>
  BY DEF AccountsRead, you
<1>1. CASE d = c
  BY <1>1
<1>2. CASE d # c
  <2>1. thread'[d] = thread[d]
    BY <1>2 DEF Only
  <2>2. thread[d].pc = "login_password" => thread[d].req.name \in User
    BY DEF IInv, LocalsOK, AskingLabels, CredentialLabels
  <2>3. thread[d].pc = "login_password" => users[thread[d].req.name] # <<>>
    BY DEF AccountsRead, you
  <2> QED
    BY <2>1, <2>2, <2>3
<1> QED
  BY <1>1, <1>2

\* A connection opens.
LEMMA SpawnOpens ==
  ASSUME IInv, AccountsRead, NEW c \in Conn, Spawn(c)
  PROVE  Simulated
<1>1. /\ thread[c].pc = "none" /\ Becomes(c, Fresh("recv")) /\ live' = live \cup {c}
      /\ UNCHANGED <<clientIDs, users>>
  BY DEF Spawn, dbVars
<1>2. Fresh("recv").pc = "recv"
  BY DEF Fresh
<1>3. c \notin live
  BY <1>1 DEF IInv, SocketsExact
<1>4. claim' = claim
  <2>1. claim[c] = <<>>
    BY <1>1 DEF claim, ClaimOf, CredentialLabels
  <2>2. claim' = [claim EXCEPT ![c] = <<>>]
    BY <1>1, <1>2, ClaimAfter DEF CredentialLabels
  <2> QED
    BY <2>1, <2>2 DEF claim
<1>5. session' = session /\ passwords' = passwords
  BY <1>1 DEF session, SessionOf, passwords, Passwords
<1>6. AccountsRead'
  BY <1>1, <1>2, ClaimAfter, AccountsStay
<1>7. accepted' = accepted
  BY <1>1, <1>2, ClaimAfter DEF accepted
<1>8. Promised!Open(c)
  BY <1>1, <1>3, <1>4, <1>5, <1>7 DEF Promised!Open
<1> QED
  BY <1>6, <1>8 DEF Simulated, Promised!Step

\* A client gives a name and a password.
LEMMA CredentialsClaim ==
  ASSUME IInv, AccountsRead, SessionsOK, ~Relogin, NEW c \in Conn,
         NEW type \in {"create", "login"}, NEW u \in User, NEW p \in Password,
         ReceiveCredentials(c, type, u, p)
  PROVE  Simulated
<1> DEFINE r == [type |-> type, name |-> u, pass |-> p]
           t == [thread[c] EXCEPT !.pc = Case(type), !.req = r]
<1>1. /\ thread[c].pc = "recv" /\ me(c) = NoUser
      /\ Becomes(c, t) /\ UNCHANGED <<registry, users>>
  BY DEF ReceiveCredentials, Receive, At, dbVars
<1>2. t.pc \in {"create_check", "login_check"} /\ t.req = r
  <2>1. thread[c] \in Threads
    BY DEF IInv, TypeOK
  <2> QED
    BY <2>1 DEF Threads, Case
<1> HIDE DEF t
<1>3. c \in live
  BY <1>1 DEF IInv, SocketsExact
<1>4. session[c] = NoUser
  BY <1>1, <1>3 DEF SessionsOK
<1>5. claim[c] = <<>>
  BY <1>1 DEF claim, ClaimOf, CredentialLabels
<1>6. claim' = [claim EXCEPT ![c] = <<u, p>>] /\ thread'[c] = t /\ Only(c)
  BY <1>1, <1>2, ClaimAfter DEF CredentialLabels
<1>7. claim'[c] # <<>>
  <2>1. claim'[c] = <<u, p>>
    BY <1>6 DEF claim
  <2> QED
    BY <2>1, PairIsClaim
<1>8. session' = session /\ passwords' = passwords /\ live' = live
  BY <1>1 DEF session, SessionOf, passwords, Passwords, registry
<1>9. AccountsRead'
  BY <1>1, <1>2, <1>6, AccountsStay
<1>10. accepted' = accepted
  BY <1>1, <1>2, ClaimAfter DEF accepted
<1>11. Promised!Claim(c)
  BY <1>3, <1>4, <1>5, <1>6, <1>7, <1>8, <1>10 DEF Promised!Claim, Promised!NoClaim
<1> QED
  BY <1>9, <1>11 DEF Simulated, Promised!Step

\* A thread that turns credentials down.
LEMMA AnswerRefuses ==
  ASSUME IInv, AccountsRead, NEW c \in Conn, thread[c].pc \in CredentialLabels \ {"register"},
         Answer(c, "no"), UNCHANGED <<registry, users>>
  PROVE  Simulated
<1>1. Becomes(c, Replying(c, "no")) /\ Replying(c, "no").pc = "respond"
  BY MovedTo DEF Answer, Replying
<1>2. claim' = [claim EXCEPT ![c] = <<>>] /\ thread'[c] = Replying(c, "no") /\ Only(c)
  BY <1>1, ClaimAfter DEF CredentialLabels
<1>3. claim[c] # <<>>
  <2>1. claim[c] = <<you(c), thread[c].req.pass>>
    BY DEF claim, ClaimOf
  <2> QED
    BY <2>1, PairIsClaim
<1>4. session' = session /\ passwords' = passwords /\ live' = live
  BY DEF session, SessionOf, passwords, Passwords, registry
<1>5. AccountsRead'
  BY <1>1, <1>2, AccountsStay
<1>6. c \notin accepted /\ accepted' = accepted
  BY <1>1, ClaimAfter DEF accepted
<1>7. Promised!Refuse(c)
  BY <1>2, <1>3, <1>4, <1>6 DEF Promised!Refuse, Promised!NoClaim
<1> QED
  BY <1>5, <1>7 DEF Simulated, Promised!Step

\* A thread that goes on with the credentials it has.
LEMMA GoesOn ==
  ASSUME IInv, AccountsRead, NEW c \in Conn, thread[c].pc \in CredentialLabels \ {"register"},
         NEW l \in CredentialLabels, NEW t,
         t \in {To(c, l), [To(c, l) EXCEPT !.resp = "yes"]}, Becomes(c, t),
         l = "login_password" => users[you(c)] # <<>>,
         UNCHANGED <<registry, users>>
  PROVE  /\ claim' = claim /\ session' = session /\ passwords' = passwords
         /\ UNCHANGED live /\ AccountsRead' /\ c \notin accepted
         /\ accepted' = IF l = "register" THEN accepted \cup {c} ELSE accepted
<1>1. t.pc = l /\ t.req = thread[c].req
  <2>1. thread[c] \in Threads
    BY DEF IInv, TypeOK
  <2> QED
    BY <2>1 DEF Threads, To
<1>2. claim' = [claim EXCEPT ![c] = claim[c]] /\ thread'[c] = t /\ Only(c)
  <2>1. claim[c] = <<t.req.name, t.req.pass>>
    BY <1>1 DEF claim, ClaimOf, you
  <2> QED
    BY <1>1, <2>1, ClaimAfter
<1>3. claim' = claim
  BY <1>2 DEF claim
<1>4. session' = session /\ passwords' = passwords /\ live' = live
  BY DEF session, SessionOf, passwords, Passwords, registry
<1>5. AccountsRead'
  <2>1. t.pc = "login_password" => users'[t.req.name] # <<>>
    BY <1>1 DEF you
  <2> QED
    BY <1>2, <2>1, AccountsStay
<1>6. c \notin accepted
  BY DEF accepted
<1>7. accepted' = IF l = "register" THEN accepted \cup {c} ELSE accepted
  <2>1. accepted' = IF l = "register" THEN accepted \cup {c} ELSE accepted \ {c}
    BY <1>1, ClaimAfter
  <2>2. accepted \ {c} = accepted
    BY <1>6
  <2> QED
    BY <2>1, <2>2
<1> QED
  BY <1>3, <1>4, <1>5, <1>6, <1>7

\* CREATE_ACCOUNT and LOGIN_REQUEST: what is looked up.
LEMMA ChecksSimulated ==
  ASSUME IInv, AccountsRead, NEW c \in Conn,
         CreateCheck(c) \/ LoginCheck(c) \/ LoginPassword(c)
  PROVE  Simulated
<1>1. /\ thread[c].pc \in CredentialLabels \ {"register"}
      /\ UNCHANGED <<registry, users>>
  BY DEF CreateCheck, LoginCheck, LoginPassword, At, CredentialLabels, dbVars
<1>2. /\ you(c) \in User
      /\ users[you(c)] \in Seq(Password)
  BY <1>1 DEF IInv, TypeOK, DbTypeOK, LocalsOK, AskingLabels, you
<1>3. CASE Answer(c, "no")
  BY <1>1, <1>3, AnswerRefuses
<1>4. CASE (CreateCheck(c) \/ LoginCheck(c)) /\ ~Answer(c, "no")
  <2>1. PICK l \in {"create_insert", "login_password"} :
          /\ Becomes(c, To(c, l))
          /\ l = "login_password" => users[you(c)] # <<>>
    BY <1>2, <1>4 DEF CreateCheck, LoginCheck, Goto, To, checkIfUsernameExists
  <2>2. UNCHANGED Promised!state /\ AccountsRead'
    BY <1>1, <2>1, GoesOn DEF CredentialLabels, Promised!state
  <2> QED
    BY <2>2 DEF Simulated, Promised!Step
<1>5. CASE LoginPassword(c) /\ ~Answer(c, "no")
  <2>1. /\ Becomes(c, [To(c, "register") EXCEPT !.resp = "yes"])
        /\ \/ thread[c].req.pass = Head(users[you(c)])
           \/ thread[c].req.pass = EmptyPassword /\ faults' = faults + 1
    BY <1>5 DEF LoginPassword, getPassHashFromUsername, Fault
  <2>2. users[you(c)] # <<>>
    BY <1>5 DEF AccountsRead, LoginPassword, At
  <2>3. Head(users[you(c)]) \in Passwords(you(c))
    <3>1. 1 \in DOMAIN users[you(c)] /\ Head(users[you(c)]) = users[you(c)][1]
      BY <1>2, <2>2
    <3> QED
      BY <3>1 DEF Passwords
  <2>4. PICK u, p : u = you(c) /\ p = thread[c].req.pass
    OBVIOUS
  <2>5. claim[c] = <<u, p>> /\ claim[c] # <<>>
    BY <1>1, <2>4, PairIsClaim DEF claim, ClaimOf
  <2>6. faults \in Nat
    BY BoundAssumption DEF IInv, TypeOK, WorldTypeOK
  <2>7. p \in passwords[u] \/ (p = EmptyPassword /\ faults' > faults)
    BY <1>2, <2>1, <2>3, <2>4, <2>6 DEF passwords
  <2>8. /\ claim' = claim /\ session' = session /\ passwords' = passwords
        /\ UNCHANGED live /\ AccountsRead' /\ c \notin accepted
        /\ accepted' = accepted \cup {c}
    BY <1>1, <2>1, GoesOn DEF CredentialLabels
  <2>9. Promised!Accept(c)
    BY <2>5, <2>7, <2>8 DEF Promised!Accept, Promised!NoClaim
  <2> QED
    BY <2>8, <2>9 DEF Simulated, Promised!Step
<1> QED
  BY <1>3, <1>4, <1>5

\* CREATE_ACCOUNT: what is inserted.
LEMMA CreateSimulated ==
  ASSUME IInv, AccountsRead, NEW c \in Conn, CreateInsert(c)
  PROVE  Simulated
<1> DEFINE t == [To(c, "register") EXCEPT !.resp = "yes"]
<1>1. thread[c].pc = "create_insert" /\ UNCHANGED registry
  BY DEF CreateInsert, At, Run
<1>2. /\ you(c) \in User /\ thread[c].req.pass \in Password
      /\ users \in [User -> Seq(Password)]
  BY <1>1 DEF IInv, TypeOK, DbTypeOK, LocalsOK, AskingLabels, CredentialLabels, you
<1>3. PICK u \in User, p \in Password : u = you(c) /\ p = thread[c].req.pass
  BY <1>2
<1>4. CASE Becomes(c, Replying(c, "no")) /\ UNCHANGED users
  BY <1>1, <1>4, AnswerRefuses DEF CredentialLabels, Answer, Replying
<1>5. CASE users' = [users EXCEPT ![u] = Append(@, p)] /\ Becomes(c, t)
  <2>1. /\ users'[u] = Append(users[u], p) /\ users[u] \in Seq(Password)
        /\ DOMAIN users'[u] = DOMAIN users[u] \cup {Len(users[u]) + 1}
        /\ users'[u][Len(users[u]) + 1] = p
        /\ \A i \in DOMAIN users[u] : users'[u][i] = users[u][i]
    BY <1>2, <1>5
  <2>2. /\ Passwords(u)' = Passwords(u) \cup {p}
        /\ users'[u] # <<>>
    BY <2>1 DEF Passwords
  <2>3. \A v \in User \ {u} : users'[v] = users[v] /\ Passwords(v)' = Passwords(v)
    BY <1>2, <1>5 DEF Passwords
  <2>4. passwords' = [passwords EXCEPT ![u] = @ \cup {p}]
    BY <2>2, <2>3 DEF passwords
  <2>5. t.pc = "register" /\ t.req = thread[c].req
    <3>1. thread[c] \in Threads
      BY DEF IInv, TypeOK
    <3> QED
      BY <3>1 DEF Threads, To
  <2> HIDE DEF t
  <2>6. claim[c] = <<u, p>>
    BY <1>1, <1>3 DEF claim, ClaimOf, CredentialLabels
  <2>7. thread'[c] = t /\ Only(c) /\ claim' = [claim EXCEPT ![c] = <<u, p>>]
    BY <1>3, <1>5, <2>5, ClaimAfter DEF CredentialLabels, you
  <2>8. claim' = claim
    BY <2>6, <2>7 DEF claim
  <2>9. session' = session /\ live' = live
    BY <1>1 DEF session, SessionOf, registry
  <2>10. AccountsRead'
    <3>1. \A v \in User : users[v] # <<>> => users'[v] # <<>>
      BY <2>2, <2>3
    <3> QED
      BY <2>5, <2>7, <3>1, AccountsStay
  <2>11. claim[c] # <<>>
    BY <2>6, PairIsClaim
  <2>12. c \notin accepted /\ accepted' = accepted \cup {c}
    BY <1>1, <1>5, <2>5, ClaimAfter DEF accepted
  <2>13. Promised!Create(c)
    BY <2>4, <2>6, <2>8, <2>9, <2>11, <2>12 DEF Promised!Create, Promised!NoClaim
  <2> QED
    BY <2>10, <2>13 DEF Simulated, Promised!Step
<1> QED
  BY <1>3, <1>4, <1>5 DEF CreateInsert, Run, insertNewUser, dbVars

\* connectedUser is assigned, and the pair inserted.
LEMMA RegisterEnters ==
  ASSUME IInv, AccountsRead, SessionsOK, SessionsOK', ~Relogin, NEW c \in Conn, Register(c)
  PROVE  Simulated
<1> DEFINE t == [thread[c] EXCEPT !.connectedUser = you(c),
                   !.pc = IF thread[c].req.type = "create"
                            THEN "respond" ELSE "login_incoming"]
<1>1. thread[c].pc = "register" /\ Becomes(c, t) /\ UNCHANGED <<live, users>>
  BY DEF Register, At, dbVars
<1>2. you(c) \in User /\ me(c) = NoUser /\ c \in live
  BY <1>1 DEF IInv, LocalsOK, AskingLabels, CredentialLabels, SocketsExact, you, me
<1>3. t.pc \in {"respond", "login_incoming"} /\ t.connectedUser = you(c)
  <2>1. thread[c] \in Threads
    BY DEF IInv, TypeOK
  <2> QED
    BY <2>1 DEF Threads
<1> HIDE DEF t
<1>4. PICK u, p : u = you(c) /\ p = thread[c].req.pass
  OBVIOUS
<1>5. claim' = [claim EXCEPT ![c] = <<>>] /\ thread'[c] = t /\ Only(c)
  BY <1>1, <1>3, ClaimAfter DEF CredentialLabels
<1>6. claim[c] = <<u, p>> /\ claim[c] # <<>>
  BY <1>1, <1>4, PairIsClaim DEF claim, ClaimOf, CredentialLabels
<1>7. session[c] = NoUser
  BY <1>2 DEF SessionsOK
<1>8. session' = [session EXCEPT ![c] = u]
  BY <1>1, <1>2, <1>3, <1>4, <1>5 DEF SessionsOK, Only, me
<1>9. passwords' = passwords
  BY <1>1 DEF passwords, Passwords
<1>10. AccountsRead'
  BY <1>1, <1>3, <1>5, AccountsStay
<1>11. c \in accepted /\ accepted' = accepted \ {c}
  BY <1>1, <1>3, ClaimAfter DEF accepted
<1>12. Promised!Enter(c)
  BY <1>1, <1>2, <1>5, <1>6, <1>7, <1>8, <1>9, <1>11 DEF Promised!Enter, Promised!NoClaim
<1> QED
  BY <1>10, <1>12 DEF Simulated, Promised!Step

\* "Clean up client connection": the socket, the mutex and the pair.
LEMMA CloseCloses ==
  ASSUME IInv, AccountsRead, SessionsOK, SessionsOK', ~Relogin, NEW c \in Conn, Close(c)
  PROVE  Simulated
<1> DEFINE t == [Fresh("closed") EXCEPT !.connectedUser = me(c)]
<1>1. /\ thread[c].pc = "close" /\ Becomes(c, t) /\ live' = live \ {c} /\ UNCHANGED users
      /\ t.pc = "closed"
  BY DEF Close, At, dbVars, Fresh
<1> HIDE DEF t
<1>2. c \in live
  BY <1>1 DEF IInv, SocketsExact
<1>3. claim' = [claim EXCEPT ![c] = <<>>] /\ thread'[c] = t /\ Only(c)
  BY <1>1, ClaimAfter DEF CredentialLabels
<1>4. claim[c] = <<>>
  BY <1>1 DEF claim, ClaimOf, CredentialLabels
<1>5. claim' = claim
  BY <1>3, <1>4 DEF claim
<1>6. session' = [session EXCEPT ![c] = NoUser]
  BY <1>1, <1>3 DEF SessionsOK, Only, me
<1>7. passwords' = passwords
  BY <1>1 DEF passwords, Passwords
<1>8. AccountsRead'
  BY <1>1, <1>3, AccountsStay
<1>9. accepted' = accepted
  BY <1>1, ClaimAfter DEF accepted
<1>10. Promised!Close(c)
  BY <1>1, <1>2, <1>5, <1>6, <1>7, <1>9 DEF Promised!Close
<1> QED
  BY <1>8, <1>10 DEF Simulated, Promised!Step

\* The process ends.
LEMMA DownCrashes ==
  ASSUME IInv, AccountsRead, NEW why, Down(why), UNCHANGED users
  PROVE  Simulated
<1>1. clientIDs' = NoIDs /\ live' = {} /\ thread' = AllFresh
  BY DEF Down
<1>2. session' = Promised!Nobodys
  BY <1>1 DEF session, SessionOf, NoIDs, NoTargets, Promised!Nobodys
<1>3. \A c \in Conn : thread'[c].pc = "none"
  BY <1>1 DEF AllFresh, Fresh
<1>4. claim' = Promised!Unclaimed
  BY <1>3 DEF claim, ClaimOf, CredentialLabels, Promised!Unclaimed, Promised!NoClaim
<1>5. AccountsRead'
  BY <1>3 DEF AccountsRead
<1>6. passwords' = passwords
  BY DEF passwords, Passwords
<1>7. accepted' = {}
  BY <1>3 DEF accepted
<1>8. Promised!Crash
  BY <1>1, <1>2, <1>4, <1>6, <1>7 DEF Promised!Crash
<1> QED
  BY <1>5, <1>8 DEF Simulated, Promised!Step

\* What leaves threads, registry and accounts as they are.
LEMMA NothingSeen ==
  ASSUME IInv, AccountsRead, UNCHANGED <<users, registry, thread>>
  PROVE  Simulated
<1>1. /\ passwords' = passwords /\ session' = session /\ claim' = claim
      /\ live' = live /\ accepted' = accepted
  BY DEF registry, passwords, Passwords, session, SessionOf, claim, ClaimOf, accepted, you
<1>2. AccountsRead'
  BY DEF AccountsRead, you
<1> QED
  BY <1>1, <1>2 DEF Simulated, Promised!Step, Promised!state

-----------------------------------------------------------------------------
(* The theorem *)

\* Whatever step the server takes, Sessions takes it or does not see it.
LEMMA StepSimulated ==
  ASSUME IInv, AccountsRead, SessionsOK, SessionsOK', ~Relogin, [Next]_vars
  PROVE  Simulated
<1>1. ASSUME NEW c \in Conn, Work(c) PROVE Simulated
  <2>1. ASSUME NEW k \in Conn, DeliverToErased(c, k) PROVE Simulated
    BY <2>1, DownCrashes DEF DeliverToErased, dbVars
  <2> QED
    BY <1>1, <2>1, ChecksSimulated, CreateSimulated, RegisterEnters, LoopsAside, AskAside,
       AcknowledgeAside, MessageAside, SessionAside, CloseCloses, SendingAside DEF Work
<1>2. ASSUME NEW c \in Conn, Outside(c) PROVE Simulated
  <2>1. ASSUME SendRaisesSignal(c) PROVE Simulated
    BY <2>1, DownCrashes DEF SendRaisesSignal, dbVars
  <2> QED
    BY <1>2, <2>1, SpawnOpens, SessionAside, CredentialsClaim DEF Outside
<1>3. CASE Kill
  BY <1>3, DownCrashes DEF Kill, dbVars
<1>4. CASE Restart
  BY <1>4, NothingSeen DEF Restart, dbVars
<1>5. CASE UNCHANGED vars
  BY <1>5, NothingSeen DEF vars, registry
<1> QED
  BY <1>1, <1>2, <1>3, <1>4, <1>5 DEF Next, Finished

\* What has failed stays counted.
LEMMA FailuresCount == IInv /\ [Next]_vars => faults' >= faults
<1> SUFFICES ASSUME IInv, [Next]_vars PROVE faults' >= faults
  OBVIOUS
<1>1. faults \in Nat
  BY BoundAssumption DEF IInv, TypeOK, WorldTypeOK
<1>2. NoFault \/ Fault \/ UNCHANGED faults => faults' >= faults
  BY <1>1 DEF NoFault, Fault, world
<1>3. ASSUME NEW c \in Conn, Work(c) PROVE NoFault \/ Fault \/ UNCHANGED faults
  BY <1>3 DEF Work, CreateCheck, CreateInsert, LoginCheck, LoginPassword, Register,
     LoginIncoming, LoginOutgoing, LoginFriends, LoginDone, AskCheck, AskInsert,
     AcceptRemove, AcceptFirst, AcceptSecond, AcceptAnnounce, RejectTell, RejectRemove,
     Hide, MessageCheck, Respond, ByeFriends, ByeDone, Close, Collect, EachIncoming,
     EachOutgoing, EachFriend, EachBye, Deliver, DeliverToErased, Walk, Visit, Run, NoFault
<1>4. ASSUME NEW c \in Conn, Outside(c) PROVE faults' >= faults
  <2>1. CASE SendRaisesSignal(c)
    BY <1>1, <2>1 DEF SendRaisesSignal
  <2>2. CASE ~SendRaisesSignal(c)
    BY <1>2, <1>4, <2>2 DEF Outside, Spawn, Disconnected, ReceiveInvalid, Receive,
       ReceiveCredentials, ReceiveAsk, ReceiveMessage, ReceiveAcknowledge, NoFault, world
  <2> QED
    BY <2>1, <2>2
<1>5. CASE Kill \/ Restart \/ UNCHANGED vars
  BY <1>2, <1>5 DEF Kill, Restart, vars
<1> QED
  BY <1>2, <1>3, <1>4, <1>5 DEF Next, Finished

\* At the start there are accounts, and nobody.
LEMMA InitSimulated == Init => AccountsRead /\ Promised!Init
<1> SUFFICES ASSUME Init PROVE AccountsRead /\ Promised!Init
  OBVIOUS
<1>1. \A c \in Conn : thread[c].pc = "none"
  BY DEF Init, AllFresh, Fresh
<1>2. AccountsRead /\ accepted = {}
  BY <1>1 DEF AccountsRead, accepted
<1>3. passwords \in [User -> SUBSET Password]
  <2>1. \A u \in User : users[u] \in Seq(Password)
    BY RegisteredAssumption DEF Init
  <2> QED
    BY <2>1 DEF passwords, Passwords
<1>4. session = Promised!Nobodys
  BY DEF Init, session, SessionOf, NoIDs, NoTargets, Promised!Nobodys
<1>5. claim = Promised!Unclaimed
  BY <1>1 DEF claim, ClaimOf, CredentialLabels, Promised!Unclaimed, Promised!NoClaim
<1> QED
  BY <1>2, <1>3, <1>4, <1>5 DEF Promised!Init, Init

\* As long as no client logs in twice over one connection, the server's
\* threads, however they interleave, fail and end, do nothing that Sessions
\* does not: only a password of the account opens a session, or the empty one
\* where the very statement that reads the account's fails; the session has
\* one user and ends with its connection, and accounts outlive the process.
THEOREM SessionsKept ==
  ASSUME ~Relogin
  PROVE  Spec => KeepsSessions
<1>1. IInv /\ AccountsRead /\ IInv' /\ [Next]_vars => Simulated
  <2>1. IInv => SessionsOK
    BY SessionIs
  <2>2. IInv' => SessionsOK'
    BY <2>1, PTL
  <2> QED
    BY <2>1, <2>2, StepSimulated
<1>2. IInv /\ AccountsRead /\ IInv' /\ [Next]_vars => AccountsRead'
  BY <1>1 DEF Simulated
<1>3. IInv /\ AccountsRead /\ IInv' /\ [Next]_vars => [Promised!Next]_(Promised!vars)
  BY <1>1, FailuresCount DEF Simulated, Promised!Next
<1>4. Spec => []IInv
  BY Invariance
<1> QED
  BY <1>2, <1>3, <1>4, InitSimulated, PTL DEF Spec, KeepsSessions, Promised!Spec

-----------------------------------------------------------------------------
(* Friendships: what is known of requests *)

\* The calls that forward requests reach sessions of those who were asked, and
\* no others hold offers; and who returns an acceptance has accepted.
HeldOK ==
  /\ Aimed
  /\ \A c \in Conn, s \in User : offers[c][s] > 0 => me(c) # NoUser
  /\ \A c \in Conn : thread[c].pc = "accept_second" => friends[you(c)][me(c)] > 0

\* A step that Friendships can take, or does not see, and that keeps HeldOK.
Permitted == [Allowed!Next]_(Allowed!vars) /\ HeldOK'

\* A step of one thread after which the requests of A are known, and no others,
\* if what the thread remembers, the table and the clients' offers are in A.
LEMMA KnownAfter ==
  ASSUME IInv, IInv', HeldOK, NEW c \in Conn, Only(c),
         thread'[c].connectedUser = me(c) \/ me(c) = NoUser,
         \A k \in Conn : thread'[c].targetIDs[k] > 0
           => thread'[c].out # <<>> /\ me(k) = Head(thread'[c].out).to,
         thread'[c].pc = "accept_second"
           => friends'[thread'[c].req.name][thread'[c].connectedUser] > 0,
         \A u, v \in User : friends[u][v] > 0 => friends'[u][v] > 0,
         NEW A, asked \subseteq A,
         \A s, r \in User : Remembers(thread'[c], s, r) => <<s, r>> \in A,
         \A s, r \in User : requests'[s][r].shown > 0 => <<s, r>> \in A,
         \A d \in Conn, s \in User :
           offers'[d][s] > 0 => me(d) \in User /\ <<s, me(d)>> \in A
  PROVE  asked' \subseteq A /\ HeldOK'
<1>1. \A d \in Conn : thread'[d].connectedUser = me(d) \/ me(d) = NoUser
  BY DEF Only, me
<1>2. ASSUME NEW s \in User, NEW r \in User, Known(s, r)' PROVE <<s, r>> \in A
  <2>1. CASE requests'[s][r].shown > 0
    BY <2>1
  <2>2. ASSUME NEW d \in Conn, Remembers(thread'[d], s, r) PROVE <<s, r>> \in A
    <3>1. CASE d = c
      BY <2>2, <3>1
    <3>2. CASE d # c
      <4>1. Remembers(thread[d], s, r)
        BY <2>2, <3>2 DEF Only
      <4>2. <<s, r>> \in asked
        BY <4>1 DEF asked, Known
      <4> QED
        BY <4>2
    <3> QED
      BY <3>1, <3>2
  <2>3. ASSUME NEW d \in Conn, thread'[d].connectedUser = r, offers'[d][s] > 0
        PROVE  <<s, r>> \in A
    <3>1. me(d) \in User /\ <<s, me(d)>> \in A
      BY <2>3
    <3>2. me(d) = r
      BY <1>1, <2>3, <3>1, NoUserAssumption
    <3> QED
      BY <3>1, <3>2
  <2> QED
    BY <1>2, <2>1, <2>2, <2>3 DEF Known, me, Remembers
<1>3. asked' \subseteq A
  BY <1>2 DEF asked
<1>4. Aimed'
  <2> SUFFICES ASSUME NEW d \in Conn, NEW k \in Conn, thread'[d].targetIDs[k] > 0
               PROVE  thread'[d].out # <<>> /\ thread'[k].connectedUser = Head(thread'[d].out).to
    BY DEF Aimed, me
  <2>1. thread'[d].out # <<>> /\ me(k) = Head(thread'[d].out).to
    <3>1. CASE d = c
      BY <3>1
    <3>2. CASE d # c
      BY <3>2 DEF HeldOK, Aimed, Only
    <3> QED
      BY <3>1, <3>2
  <2>2. thread'[d] \in Threads
    BY DEF IInv, TypeOK
  <2>3. Head(thread'[d].out) \in Calls
    BY <2>1, <2>2 DEF Threads
  <2>4. me(k) \in User
    BY <2>1, <2>3 DEF Calls
  <2> QED
    BY <1>1, <2>1, <2>4, NoUserAssumption
<1>5. ASSUME NEW d \in Conn, NEW s \in User, offers'[d][s] > 0
      PROVE  thread'[d].connectedUser # NoUser
  <2>1. me(d) \in User
    BY <1>5
  <2> QED
    BY <1>1, <2>1, NoUserAssumption
<1>6. ASSUME NEW d \in Conn, thread'[d].pc = "accept_second"
      PROVE  friends'[thread'[d].req.name][thread'[d].connectedUser] > 0
  <2>1. CASE d = c
    BY <1>6, <2>1
  <2>2. CASE d # c
    <3>1. thread'[d] = thread[d]
      BY <2>2 DEF Only
    <3>2. you(d) \in User /\ me(d) \in User
      BY <1>6, <3>1 DEF IInv, LocalsOK, UserLabels, AskingLabels, you, me
    <3>3. friends[you(d)][me(d)] > 0
      BY <1>6, <3>1 DEF HeldOK
    <3> QED
      BY <3>1, <3>2, <3>3 DEF you, me
  <2> QED
    BY <2>1, <2>2
<1> QED
  BY <1>3, <1>4, <1>5, <1>6 DEF HeldOK, you, me

\* A step of a thread that has no call to make, and after which it forwards
\* nothing and is not answering yes, makes no request known.
LEMMA Silent ==
  ASSUME IInv, IInv', HeldOK, NEW c \in Conn, Only(c), thread[c].out = <<>>,
         thread'[c].connectedUser = me(c) \/ me(c) = NoUser,
         thread'[c].targetIDs \in {thread[c].targetIDs, NoTargets},
         thread'[c].pc \notin {"each_incoming", "accept_remove", "accept_first", "accept_second"},
         \A i \in DOMAIN thread'[c].out : thread'[c].out[i].type # "FORWARD",
         \A u, v \in User : friends[u][v] > 0 => friends'[u][v] > 0,
         \A s, r \in User : requests'[s][r].shown > 0 => requests[s][r].shown > 0,
         \A d \in Conn, s \in User : offers'[d][s] > 0 => offers[d][s] > 0
  PROVE  asked' \subseteq asked /\ HeldOK'
<1>1. \A k \in Conn : ~(thread'[c].targetIDs[k] > 0)
  BY DEF HeldOK, Aimed, NoTargets
<1>2. \A s, r \in User : ~Remembers(thread'[c], s, r)
  BY DEF Remembers, Call
<1>3. \A s, r \in User : requests'[s][r].shown > 0 => <<s, r>> \in asked
  BY DEF asked, Known
<1>4. ASSUME NEW d \in Conn, NEW s \in User, offers'[d][s] > 0
      PROVE  me(d) \in User /\ <<s, me(d)>> \in asked
  <2>1. offers[d][s] > 0 /\ me(d) # NoUser
    BY <1>4 DEF HeldOK
  <2>2. me(d) \in User
    BY <2>1, ThreadFields
  <2> QED
    BY <2>1, <2>2 DEF asked, Known
<1> QED
  BY <1>1, <1>2, <1>3, <1>4, KnownAfter

\* ... which Friendships permits, if no row of a friendship is inserted.
LEMMA SilentPermitted ==
  ASSUME asked' \subseteq asked /\ HeldOK', UNCHANGED friends
  PROVE  Permitted
<1>1. befriended' = befriended
  BY DEF befriended
<1>2. session' \in [Conn -> User \cup {NoUser}]
  BY DEF session, SessionOf
<1> QED
  BY <1>1, <1>2 DEF Permitted, Allowed!Next, Allowed!Forget

\* ... in particular a move of the thread with calls that forward nothing,
LEMMA ActsSilent ==
  ASSUME IInv, IInv', HeldOK, NEW c \in Conn, thread[c].out = <<>>,
         NEW l, NEW r, NEW n, NEW o, Acts(c, l, r, n, o),
         l \notin {"each_incoming", "accept_remove", "accept_first", "accept_second"},
         \A i \in DOMAIN o : o[i].type # "FORWARD",
         UNCHANGED <<requests, friends, offers>>
  PROVE  Permitted
<1>1. /\ Only(c)
      /\ thread'[c].connectedUser = me(c)
      /\ thread'[c].targetIDs = thread[c].targetIDs
      /\ thread'[c].pc = l /\ thread'[c].out = o
  BY DEF Acts, Only
<1>2. /\ friends' = friends /\ requests' = requests /\ offers' = offers
  OBVIOUS
<1>3. asked' \subseteq asked /\ HeldOK'
  BY <1>1, <1>2, Silent
<1> QED
  BY <1>2, <1>3, SilentPermitted

\* ... and a thread that starts over.
LEMMA StartSilent ==
  ASSUME IInv, IInv', HeldOK, NEW c \in Conn, thread[c].out = <<>>,
         NEW l, StartsOver(c, l),
         l \notin {"each_incoming", "accept_remove", "accept_first", "accept_second"},
         UNCHANGED <<requests, friends, offers>>
  PROVE  Permitted
<1>1. /\ Only(c)
      /\ thread'[c].connectedUser = me(c)
      /\ thread'[c].targetIDs = NoTargets
      /\ thread'[c].pc = l /\ thread'[c].out = <<>>
  BY DEF StartsOver, Only
<1>2. /\ friends' = friends /\ requests' = requests /\ offers' = offers
  OBVIOUS
<1>3. asked' \subseteq asked /\ HeldOK'
  BY <1>1, <1>2, Silent
<1> QED
  BY <1>2, <1>3, SilentPermitted

\* The checks of names and passwords, the ends of the loops, and packets that
\* are nothing.
LEMMA MovesPermitted ==
  ASSUME IInv, IInv', HeldOK, NEW c \in Conn,
         \/ CreateCheck(c) \/ CreateInsert(c) \/ LoginCheck(c) \/ LoginPassword(c)
         \/ AskCheck(c) \/ LoginDone(c) \/ ByeDone(c) \/ Disconnected(c)
         \/ ReceiveInvalid(c)
  PROVE  Permitted
<1>1. thread[c].out = <<>> /\ UNCHANGED <<requests, friends, offers>>
  BY DEF CreateCheck, CreateInsert, LoginCheck, LoginPassword, AskCheck, LoginDone, ByeDone,
     Disconnected, ReceiveInvalid, At, Run, insertNewUser, dbVars, clients
<1>2. ASSUME NEW l \in {"create_insert", "login_password", "ask_insert", "respond", "close",
                        "bye_friends"}, Goto(c, l)
      PROVE  Permitted
  <2>1. Acts(c, l, thread[c].resp, thread[c].names, <<>>)
    BY <1>1, <1>2, ActsIs
  <2> QED
    BY <1>1, <2>1, ActsSilent
<1>3. ASSUME NEW r, Answer(c, r) PROVE Permitted
  <2>1. Acts(c, "respond", r, thread[c].names, <<>>)
    BY <1>1, <1>3, ActsIs
  <2> QED
    BY <1>1, <2>1, ActsSilent
<1>4. ASSUME Becomes(c, [To(c, "register") EXCEPT !.resp = "yes"]) PROVE Permitted
  <2>1. Acts(c, "register", "yes", thread[c].names, <<>>)
    BY <1>1, <1>4, ActsIs
  <2> QED
    BY <1>1, <2>1, ActsSilent
<1>5. CASE CreateCheck(c) \/ LoginCheck(c) \/ LoginPassword(c) \/ AskCheck(c)
  BY <1>2, <1>3, <1>4, <1>5 DEF CreateCheck, LoginCheck, LoginPassword, AskCheck
<1>6. CASE CreateInsert(c)
  BY <1>3, <1>4, <1>6 DEF CreateInsert, Run, Answer, Replying
<1>7. CASE LoginDone(c) \/ ByeDone(c) \/ Disconnected(c) \/ ReceiveInvalid(c)
  BY <1>2, <1>7 DEF LoginDone, ByeDone, Disconnected, ReceiveInvalid
<1> QED
  BY <1>5, <1>6, <1>7

\* The beginning and the end of a session, and the answer to a request.
LEMMA EndsPermitted ==
  ASSUME IInv, IInv', HeldOK, NEW c \in Conn, Spawn(c) \/ Respond(c) \/ Close(c)
  PROVE  Permitted
<1>1. thread[c].out = <<>> /\ UNCHANGED <<requests, friends, offers>>
  BY DEF Spawn, Respond, Close, At, dbVars, clients, IInv, LocalsOK
<1>2. CASE Spawn(c)
  BY <1>1, <1>2, SpawnIs, StartSilent
<1>3. CASE Close(c)
  BY <1>1, <1>3, CloseIs, StartSilent
<1>4. CASE Respond(c)
  <2>1. CASE BackToRecv(c)
    BY <1>1, <2>1, StartsOverIs, StartSilent DEF BackToRecv
  <2>2. CASE Goto(c, "close")
    <3>1. Acts(c, "close", thread[c].resp, thread[c].names, <<>>)
      BY <1>1, <2>2, ActsIs
    <3> QED
      BY <1>1, <3>1, ActsSilent
  <2> QED
    BY <1>4, <2>1, <2>2 DEF Respond
<1> QED
  BY <1>2, <1>3, <1>4

\* A session begins without an offer.
LEMMA RegisterPermitted ==
  ASSUME IInv, IInv', HeldOK, ~Relogin, NEW c \in Conn, Register(c)
  PROVE  Permitted
<1>1. /\ thread[c].out = <<>> /\ thread'[c].out = <<>>
      /\ thread'[c].pc \in {"respond", "login_incoming"}
      /\ thread'[c].targetIDs = thread[c].targetIDs
      /\ Only(c)
      /\ friends' = friends /\ requests' = requests /\ offers' = offers
  BY RegisterIs DEF Only, dbVars, clients
<1>2. me(c) = NoUser
  BY DEF Register, At, IInv, LocalsOK, CredentialLabels, me
<1>3. asked' \subseteq asked /\ HeldOK'
  BY <1>1, <1>2, Silent
<1> QED
  BY <1>1, <1>3, SilentPermitted

\* Requests of clients: an answer with yes takes an offer with it.
LEMMA ReceivePermitted ==
  ASSUME IInv, IInv', HeldOK, NEW c \in Conn, NEW r \in Requests, Arrives(c, r)
  PROVE  Permitted
<1>1. /\ thread[c].out = <<>> /\ thread'[c].out = <<>> /\ Only(c)
      /\ thread'[c].pc = Case(r.type) /\ thread'[c].req = r
      /\ thread'[c].connectedUser = me(c)
      /\ thread'[c].targetIDs = thread[c].targetIDs
      /\ friends' = friends /\ requests' = requests
  BY ReceiveIs DEF Arrives, Only, dbVars
<1>2. \A d \in Conn, s \in User : offers'[d][s] > 0 => offers[d][s] > 0
  <2>1. CASE r.type \in {"accept", "reject", "hide"}
    <3>1. /\ offers[c][r.name] > 0 /\ offers' = [offers EXCEPT ![c][r.name] = @ - 1]
          /\ offers \in [Conn -> [User -> Nat]] /\ r.name \in User
      BY <2>1 DEF Arrives, IInv, TypeOK, ClientsTypeOK, Names
    <3> QED
      BY <3>1
  <2>2. CASE r.type \notin {"accept", "reject", "hide"}
    BY <2>2 DEF Arrives
  <2> QED
    BY <2>1, <2>2
<1>3. \A k \in Conn : ~(thread'[c].targetIDs[k] > 0)
  BY <1>1 DEF HeldOK, Aimed
<1>4. thread'[c].pc \notin {"each_incoming", "accept_first", "accept_second"}
  BY <1>1 DEF Arrives, Kinds, Case
<1>5. CASE r.type # "accept"
  <2>1. thread'[c].pc # "accept_remove"
    BY <1>1, <1>5 DEF Arrives, Kinds, Case
  <2>2. asked' \subseteq asked /\ HeldOK'
    BY <1>1, <1>2, <1>4, <2>1, Silent
  <2> QED
    BY <1>1, <2>2, SilentPermitted
<1>6. CASE r.type = "accept"
  <2>1. offers[c][r.name] > 0 /\ me(c) \in User /\ r.name \in User
    BY <1>6 DEF Arrives
  <2>2. \A s, t \in User : Remembers(thread'[c], s, t) => <<s, t>> \in asked
    <3>1. Known(r.name, me(c))
      BY <2>1 DEF Known
    <3>2. ASSUME NEW s \in User, NEW t \in User, Remembers(thread'[c], s, t)
          PROVE  s = r.name /\ t = me(c)
      BY <1>1, <1>4, <3>2 DEF Remembers
    <3> QED
      BY <2>1, <3>1, <3>2 DEF asked
  <2>3. \A s, t \in User : requests'[s][t].shown > 0 => <<s, t>> \in asked
    BY <1>1 DEF asked, Known
  <2>4. \A d \in Conn, s \in User : offers'[d][s] > 0 => me(d) \in User /\ <<s, me(d)>> \in asked
    BY <1>2, ThreadFields DEF HeldOK, asked, Known
  <2>5. asked' \subseteq asked /\ HeldOK'
    BY <1>1, <1>3, <1>4, <2>2, <2>3, <2>4, KnownAfter
  <2> QED
    BY <1>1, <2>5, SilentPermitted
<1> QED
  BY <1>5, <1>6

\* What a loop walks is a part of what the query returned.
LEMMA WalkTakes ==
  ASSUME IInv, NEW c \in Conn, NEW l, NEW b \in Names, Walk(c, l, b), thread[c].out = <<>>
  PROVE  /\ \E p \in Names : /\ \A n \in User : p[n] > 0 => b[n] > 0
                             /\ Acts(c, l, thread[c].resp, p, <<>>)
         /\ UNCHANGED <<requests, friends, offers>>
<1>1. PICK p \in Parts(b) : Becomes(c, [thread[c] EXCEPT !.pc = l, !.names = p])
  BY DEF Walk
<1>2. p \in Names /\ \A n \in User : p[n] > 0 => b[n] > 0
  <2>1. UNION {0..b[u] : u \in User} \subseteq Nat
    BY DEF Names
  <2>2. p \in Names
    BY <2>1 DEF Parts, Names
  <2>3. ASSUME NEW n \in User, p[n] > 0 PROVE b[n] > 0
    <3>1. p[n] <= b[n] /\ p[n] \in Nat /\ b[n] \in Nat
      BY <2>2 DEF Parts, Names
    <3> QED
      BY <2>3, <3>1
  <2> QED
    BY <2>2, <2>3
<1>3. Acts(c, l, thread[c].resp, p, <<>>)
  BY <1>1, ActsIs
<1> QED
  BY <1>2, <1>3 DEF Walk, dbVars, clients

\* The loops of logins and goodbyes: the requests forwarded are stored.
LEMMA WalksPermitted ==
  ASSUME IInv, IInv', HeldOK, NEW c \in Conn,
         LoginIncoming(c) \/ LoginOutgoing(c) \/ LoginFriends(c) \/ ByeFriends(c)
  PROVE  Permitted
<1>1. thread[c].out = <<>> /\ me(c) \in User
  BY DEF LoginIncoming, LoginOutgoing, LoginFriends, ByeFriends, At, IInv, LocalsOK,
     UserLabels, me
<1>2. /\ getFriendList(me(c)) \in Names
      /\ getIncomingFriendRequests(me(c)) \in Names
      /\ getOutgoingFriendRequests(me(c)) \in Names
  BY <1>1, QueriesTyped DEF IInv, TypeOK
<1>3. ASSUME NEW l \in {"each_outgoing", "each_friend", "each_bye"}, NEW b \in Names,
             Walk(c, l, b)
      PROVE  Permitted
  BY <1>1, <1>3, WalkTakes, ActsSilent
<1>4. CASE LoginIncoming(c)
  <2>1. PICK p \in Names :
          /\ \A n \in User : p[n] > 0 => getIncomingFriendRequests(me(c))[n] > 0
          /\ Acts(c, "each_incoming", thread[c].resp, p, <<>>)
    BY <1>1, <1>2, <1>4, WalkTakes DEF LoginIncoming
  <2>2. UNCHANGED <<requests, friends, offers>>
    BY <1>1, <1>2, <1>4, WalkTakes DEF LoginIncoming
  <2>3. \A n \in User : p[n] > 0 => <<n, me(c)>> \in asked
    BY <1>1, <2>1 DEF getIncomingFriendRequests, asked, Known
  <2>4. /\ thread'[c].pc = "each_incoming" /\ thread'[c].names = p /\ thread'[c].out = <<>>
        /\ thread'[c].connectedUser = me(c) /\ Only(c)
        /\ thread'[c].targetIDs = thread[c].targetIDs
    BY <2>1 DEF Acts, Only
  <2>5. \A s, r \in User : Remembers(thread'[c], s, r) => <<s, r>> \in asked
    BY <2>3, <2>4 DEF Remembers
  <2>6. \A s, t \in User : requests'[s][t].shown > 0 => <<s, t>> \in asked
    BY <2>2 DEF asked, Known
  <2>7. \A d \in Conn, s \in User : offers'[d][s] > 0 => me(d) \in User /\ <<s, me(d)>> \in asked
    BY <2>2, ThreadFields DEF HeldOK, asked, Known
  <2>8. \A k \in Conn : ~(thread'[c].targetIDs[k] > 0)
    BY <1>1, <2>4 DEF HeldOK, Aimed
  <2>9. friends' = friends
    BY <2>2
  <2>10. asked' \subseteq asked /\ HeldOK'
    BY <2>4, <2>5, <2>6, <2>7, <2>8, <2>9, KnownAfter
  <2> QED
    BY <2>2, <2>10, SilentPermitted
<1> QED
  BY <1>2, <1>3, <1>4 DEF LoginOutgoing, LoginFriends, ByeFriends

\* The turns of the loops.
LEMMA TurnsPermitted ==
  ASSUME IInv, IInv', HeldOK, NEW c \in Conn, NEW n \in User,
         EachIncoming(c, n) \/ EachOutgoing(c, n) \/ EachFriend(c, n) \/ EachBye(c, n)
  PROVE  Permitted
<1> DEFINE FromTurn(l, o) ==
      /\ thread[c].pc = l /\ thread[c].out = <<>> /\ thread[c].names[n] > 0
      /\ UNCHANGED <<requests, friends, offers>>
      /\ \E m \in Names : /\ \A v \in User : m[v] > 0 => thread[c].names[v] > 0
                          /\ Acts(c, l, thread[c].resp, m, o)
<1>1. ASSUME NEW l, NEW o, Turns(c, n, o), thread[c].pc = l, thread[c].out = <<>>
      PROVE  FromTurn(l, o)
  <2>1. PICK m \in Names : /\ thread[c].names[n] > 0 /\ m[n] = thread[c].names[n] - 1
                           /\ \A v \in User \ {n} : m[v] = thread[c].names[v]
                           /\ Acts(c, l, thread[c].resp, m, o)
    BY <1>1 DEF Turns
  <2>2. \A v \in User : m[v] > 0 => thread[c].names[v] > 0
    BY <2>1
  <2> QED
    BY <1>1, <2>1, <2>2 DEF Turns, Local, dbVars, clients
<1>2. ASSUME NEW l \in {"each_outgoing", "each_friend", "each_bye"}, NEW o, FromTurn(l, o),
             \A i \in DOMAIN o : o[i].type # "FORWARD"
      PROVE  Permitted
  BY <1>2, ActsSilent
<1>3. /\ \A i \in DOMAIN <<Call(me(c), "PENDING", n)>> :
            <<Call(me(c), "PENDING", n)>>[i].type # "FORWARD"
      /\ \A i \in DOMAIN Greeting(c, n) : Greeting(c, n)[i].type # "FORWARD"
      /\ \A i \in DOMAIN Farewell(c, n) : Farewell(c, n)[i].type # "FORWARD"
  BY DEF Call, Greeting, Farewell
<1>4. CASE EachIncoming(c, n)
  <2> DEFINE o == <<Call(me(c), "FORWARD", n)>>
  <2>1. FromTurn("each_incoming", o)
    BY <1>1, <1>4, TurnsAre
  <2>2. PICK m \in Names : /\ \A v \in User : m[v] > 0 => thread[c].names[v] > 0
                           /\ Acts(c, "each_incoming", thread[c].resp, m, o)
    BY <2>1
  <2>3. me(c) \in User
    BY <2>1 DEF IInv, LocalsOK, UserLabels, me
  <2>4. \A v \in User : thread[c].names[v] > 0 => <<v, me(c)>> \in asked
    BY <2>1, <2>3 DEF asked, Known, Remembers, me
  <2>5. /\ thread'[c].pc = "each_incoming" /\ thread'[c].names = m
        /\ thread'[c].out = <<Call(me(c), "FORWARD", n)>>
        /\ thread'[c].connectedUser = me(c) /\ Only(c)
        /\ thread'[c].targetIDs = thread[c].targetIDs
    BY <2>2 DEF Acts, Only
  <2>6. \A s, r \in User : Remembers(thread'[c], s, r) => <<s, r>> \in asked
    <3> SUFFICES ASSUME NEW s \in User, NEW r \in User, Remembers(thread'[c], s, r)
                 PROVE  <<s, r>> \in asked
      OBVIOUS
    <3>1. CASE r = me(c) /\ m[s] > 0
      BY <2>2, <2>4, <3>1
    <3>2. CASE Call(me(c), "FORWARD", n) = Call(r, "FORWARD", s)
      <4>1. r = me(c) /\ s = n
        BY <3>2 DEF Call
      <4> QED
        BY <2>1, <2>4, <4>1
    <3> QED
      BY <2>5, <3>1, <3>2 DEF Remembers
  <2>7. UNCHANGED <<requests, friends, offers>>
    BY <2>1
  <2>8. \A s, t \in User : requests'[s][t].shown > 0 => <<s, t>> \in asked
    BY <2>7 DEF asked, Known
  <2>9. \A d \in Conn, s \in User : offers'[d][s] > 0 => me(d) \in User /\ <<s, me(d)>> \in asked
    BY <2>7, ThreadFields DEF HeldOK, asked, Known
  <2>10. \A k \in Conn : ~(thread'[c].targetIDs[k] > 0)
    BY <2>1, <2>5 DEF HeldOK, Aimed
  <2>11. friends' = friends
    BY <2>7
  <2>12. asked' \subseteq asked /\ HeldOK'
    BY <2>5, <2>6, <2>8, <2>9, <2>10, <2>11, KnownAfter
  <2> QED
    BY <2>7, <2>12, SilentPermitted
<1>5. CASE EachOutgoing(c, n)
  <2>1. FromTurn("each_outgoing", <<Call(me(c), "PENDING", n)>>)
    BY <1>1, <1>5, TurnsAre
  <2> HIDE DEF FromTurn
  <2> QED
    BY <1>2, <1>3, <2>1
<1>6. CASE EachFriend(c, n)
  <2>1. FromTurn("each_friend", Greeting(c, n))
    BY <1>1, <1>6, TurnsAre
  <2> HIDE DEF FromTurn
  <2> QED
    BY <1>2, <1>3, <2>1
<1>7. CASE EachBye(c, n)
  <2>1. FromTurn("each_bye", Farewell(c, n))
    BY <1>1, <1>7, TurnsAre
  <2> HIDE DEF FromTurn
  <2> QED
    BY <1>2, <1>3, <2>1
<1> QED
  BY <1>4, <1>5, <1>6, <1>7

\* A message, the end of an acceptance, and the news of a refusal.
LEMMA AnnouncesPermitted ==
  ASSUME IInv, IInv', HeldOK, NEW c \in Conn,
         AcceptAnnounce(c) \/ RejectTell(c) \/ MessageCheck(c)
  PROVE  Permitted
<1>1. thread[c].out = <<>> /\ UNCHANGED <<requests, friends, offers>>
  BY DEF AcceptAnnounce, RejectTell, MessageCheck, At, dbVars, clients
<1>2. CASE AcceptAnnounce(c)
  <2> DEFINE o == IF Online(you(c))
         THEN <<Call(me(c), "ONLINE", you(c)), Call(you(c), "ACCEPT", me(c)),
                Call(you(c), "ONLINE", me(c))>>
         ELSE <<Call(me(c), "OFFLINE", you(c))>>
  <2>1. Becomes(c, [To(c, "respond") EXCEPT !.out = o])
    BY <1>2 DEF AcceptAnnounce
  <2>2. \A i \in DOMAIN o : o[i].type # "FORWARD"
    BY DEF Call
  <2> HIDE DEF o
  <2>3. Acts(c, "respond", thread[c].resp, thread[c].names, o)
    BY <2>1, ActsIs
  <2> QED
    BY <1>1, <2>2, <2>3, ActsSilent
<1>3. CASE RejectTell(c)
  <2> DEFINE o == <<Call(you(c), "REJECT", me(c))>>
  <2>1. Becomes(c, [To(c, "reject_remove") EXCEPT !.out = o])
    BY <1>3 DEF RejectTell
  <2>2. \A i \in DOMAIN o : o[i].type # "FORWARD"
    BY DEF Call
  <2> HIDE DEF o
  <2>3. Acts(c, "reject_remove", thread[c].resp, thread[c].names, o)
    BY <2>1, ActsIs
  <2> QED
    BY <1>1, <2>2, <2>3, ActsSilent
<1>4. CASE MessageCheck(c)
  <2> DEFINE o == <<Call(you(c), "MESSAGE", me(c))>>
  <2>1. \A i \in DOMAIN o : o[i].type # "FORWARD"
    BY DEF Call
  <2>2. Becomes(c, [Replying(c, "yes") EXCEPT !.out = o]) \/ Answer(c, "no")
    BY <1>4 DEF MessageCheck
  <2> HIDE DEF o
  <2>3. \/ Acts(c, "respond", "yes", thread[c].names, o)
        \/ Acts(c, "respond", "no", thread[c].names, <<>>)
    BY <1>1, <2>2, ActsIs
  <2> QED
    BY <1>1, <2>1, <2>3, ActsSilent
<1> QED
  BY <1>2, <1>3, <1>4

\* FRIEND_REQUEST_SEND: the request is stored, and known from then on.
LEMMA AskPermitted ==
  ASSUME IInv, IInv', HeldOK, SessionsOK, NEW c \in Conn, AskInsert(c)
  PROVE  Permitted
<1> DEFINE o == <<Call(you(c), "FORWARD", me(c))>>
           q == <<me(c), you(c)>>
<1>1. /\ thread[c].pc = "ask_insert" /\ thread[c].out = <<>>
      /\ me(c) \in User /\ you(c) \in User /\ c \in live
  BY DEF AskInsert, At, IInv, LocalsOK, UserLabels, AskingLabels, SocketsExact, me, you
<1>2. /\ UNCHANGED <<registry, clients>>
      /\ \/ UNCHANGED dbVars /\ Becomes(c, Replying(c, "no"))
         \/ insertFriendRequest(me(c), you(c)) /\ Becomes(c, [Replying(c, "yes") EXCEPT !.out = o])
  BY DEF AskInsert, Run
<1>3. CASE UNCHANGED dbVars /\ Becomes(c, Replying(c, "no"))
  <2>1. Acts(c, "respond", "no", thread[c].names, <<>>)
    BY <1>1, <1>3, ActsIs DEF Answer, Replying
  <2> QED
    BY <1>1, <1>2, <1>3, <2>1, ActsSilent DEF dbVars, clients
<1>4. CASE insertFriendRequest(me(c), you(c)) /\ Becomes(c, [Replying(c, "yes") EXCEPT !.out = o])
  <2> DEFINE A == asked \cup {q}
  <2>1. Acts(c, "respond", "yes", thread[c].names, o)
    BY <1>4, ActsIs
  <2>2. /\ thread'[c].pc = "respond" /\ thread'[c].out = o
        /\ thread'[c].connectedUser = me(c) /\ Only(c)
        /\ thread'[c].targetIDs = thread[c].targetIDs
    BY <2>1 DEF Acts, Only
  <2>3. /\ \A s, r \in User : <<s, r>> # q => requests'[s][r].shown = requests[s][r].shown
        /\ requests'[me(c)][you(c)].shown = requests[me(c)][you(c)].shown + 1
        /\ requests[me(c)][you(c)].shown \in Nat
        /\ friends' = friends /\ offers' = offers
    BY SMTT(30), <1>1, <1>2, <1>4 DEF insertFriendRequest, IInv, TypeOK, DbTypeOK, clients
  <2>4. \A s, r \in User : Remembers(thread'[c], s, r) => <<s, r>> \in A
    BY <2>2 DEF Remembers, Call
  <2>5. \A s, t \in User : requests'[s][t].shown > 0 => <<s, t>> \in A
    BY <2>3 DEF asked, Known
  <2>6. \A d \in Conn, s \in User : offers'[d][s] > 0 => me(d) \in User /\ <<s, me(d)>> \in A
    BY <2>3, ThreadFields DEF HeldOK, asked, Known
  <2>7. \A k \in Conn : ~(thread'[c].targetIDs[k] > 0)
    BY <1>1, <2>2 DEF HeldOK, Aimed
  <2>8. asked \subseteq A
    OBVIOUS
  <2> HIDE DEF A, q, o
  <2>9. asked' \subseteq A /\ HeldOK'
    BY <2>2, <2>3, <2>4, <2>5, <2>6, <2>7, <2>8, KnownAfter
  <2>10. A \subseteq asked'
    <3> SUFFICES ASSUME NEW s \in User, NEW r \in User, <<s, r>> \in A
                 PROVE  Known(s, r)'
      BY <1>1 DEF A, q, asked
    <3>1. CASE requests'[s][r].shown > 0
      BY <3>1 DEF Known
    <3>2. CASE ~(requests'[s][r].shown > 0)
      <4>1. <<s, r>> # q
        BY <2>3, <3>2 DEF q
      <4>2. Known(s, r) /\ ~(requests[s][r].shown > 0)
        BY <2>3, <3>2, <4>1 DEF A, asked
      <4>3. PICK d \in Conn : Remembers(thread[d], s, r) \/ (me(d) = r /\ offers[d][s] > 0)
        BY <4>2 DEF Known
      <4>4. CASE me(d) = r /\ offers[d][s] > 0
        BY <2>2, <2>3, <4>4 DEF Known, Only, me
      <4>5. CASE Remembers(thread[d], s, r)
        <5>1. ~Remembers(thread[c], s, r)
          BY <1>1 DEF Remembers
        <5>2. thread'[d] = thread[d]
          BY <2>2, <4>5, <5>1 DEF Only
        <5>3. Remembers(thread'[d], s, r)
          BY <4>5, <5>2
        <5> QED
          BY <5>3 DEF Known, Remembers
      <4> QED
        BY <4>3, <4>4, <4>5
    <3> QED
      BY <3>1, <3>2
  <2>11. asked' = A
    BY <2>9, <2>10
  <2>12. session[c] = me(c) /\ session' = session
    BY <1>1, <1>2, NoUserAssumption DEF SessionsOK, session, SessionOf, registry
  <2>13. befriended' = befriended
    BY <2>3 DEF befriended
  <2>14. Allowed!Ask(c, you(c))
    BY <1>1, <2>11, <2>12, <2>13, NoUserAssumption DEF Allowed!Ask, A, q
  <2> QED
    BY <1>1, <2>9, <2>14 DEF Permitted, Allowed!Next
<1> QED
  BY <1>2, <1>3, <1>4

\* Statements that delete or hide a request.
LEMMA RowsRemoved ==
  ASSUME IInv, NEW u \in User, NEW v \in User,
         hideFriendRequest(u, v) \/ removeFriendRequest(u, v)
  PROVE  /\ \A s, r \in User : requests'[s][r].shown > 0 => requests[s][r].shown > 0
         /\ UNCHANGED friends
<1>1. PICK n : /\ requests' = [requests EXCEPT ![u][v] = [shown |-> 0, hidden |-> n]]
               /\ friends' = friends
  BY DEF hideFriendRequest, removeFriendRequest
<1>2. requests \in [User -> [User -> [shown : Nat, hidden : Nat]]]
  BY DEF IInv, TypeOK, DbTypeOK
<1>3. /\ requests'[u][v].shown = 0
      /\ \A s, r \in User : s # u \/ r # v => requests'[s][r] = requests[s][r]
  BY <1>1, <1>2
<1> QED
  BY <1>1, <1>3

\* A statement that inserts a row of a friendship.
LEMMA RowInserted ==
  ASSUME IInv, NEW u \in User, NEW v \in User, insertFriendRow(u, v)
  PROVE  /\ requests' = requests
         /\ friends'[u][v] > 0
         /\ \A s, r \in User : friends[s][r] > 0 => friends'[s][r] > 0
         /\ befriended' = befriended \cup {<<u, v>>}
<1>1. friends \in [User -> [User -> Nat]]
  BY DEF IInv, TypeOK, DbTypeOK, Names
<1>2. friends' = [friends EXCEPT ![u][v] = @ + 1] /\ requests' = requests
  BY DEF insertFriendRow
<1>3. /\ friends'[u][v] = friends[u][v] + 1
      /\ \A s, r \in User : <<s, r>> # <<u, v>> => friends'[s][r] = friends[s][r]
  BY <1>1, <1>2
<1>4. friends'[u][v] > 0
  BY <1>1, <1>3
<1>5. \A s, r \in User : friends'[s][r] > 0 <=> (friends[s][r] > 0 \/ <<s, r>> = <<u, v>>)
  BY <1>3, <1>4
<1>6. befriended' = befriended \cup {<<u, v>>}
  BY <1>5 DEF befriended
<1> QED
  BY <1>2, <1>4, <1>5, <1>6

\* FRIEND_REQUEST_ACKNOWLEDGE: the statements of a refusal, and of a request
\* that is hidden.
LEMMA RefusalPermitted ==
  ASSUME IInv, IInv', HeldOK, NEW c \in Conn, RejectRemove(c) \/ Hide(c)
  PROVE  Permitted
<1>1. /\ thread[c].out = <<>> /\ me(c) \in User /\ you(c) \in User
  BY DEF RejectRemove, Hide, At, IInv, LocalsOK, UserLabels, AskingLabels, me, you
<1>2. /\ UNCHANGED <<registry, clients>>
      /\ Becomes(c, To(c, "respond"))
      /\ \/ UNCHANGED dbVars
         \/ hideFriendRequest(you(c), me(c)) \/ removeFriendRequest(you(c), me(c))
  BY DEF RejectRemove, Hide, Run
<1>3. /\ \A s, r \in User : requests'[s][r].shown > 0 => requests[s][r].shown > 0
      /\ friends' = friends
  BY <1>1, <1>2, RowsRemoved DEF dbVars
<1>4. Acts(c, "respond", thread[c].resp, thread[c].names, <<>>)
  BY <1>1, <1>2, ActsIs
<1>5. /\ thread'[c].pc = "respond" /\ thread'[c].out = <<>>
      /\ thread'[c].connectedUser = me(c) /\ Only(c)
      /\ thread'[c].targetIDs = thread[c].targetIDs
      /\ offers' = offers
  BY <1>2, <1>4 DEF Acts, Only, clients
<1>6. asked' \subseteq asked /\ HeldOK'
  BY <1>1, <1>3, <1>5, Silent
<1> QED
  BY <1>3, <1>6, SilentPermitted

\* ... the deletion of a request that is being accepted,
LEMMA AcceptRemovePermitted ==
  ASSUME IInv, IInv', HeldOK, NEW c \in Conn, AcceptRemove(c)
  PROVE  Permitted
<1>1. /\ thread[c].pc = "accept_remove" /\ thread[c].out = <<>>
      /\ me(c) \in User /\ you(c) \in User
  BY DEF AcceptRemove, At, IInv, LocalsOK, UserLabels, AskingLabels, me, you
<1>2. /\ UNCHANGED <<registry, clients>>
      /\ Becomes(c, To(c, "accept_first"))
      /\ UNCHANGED dbVars \/ removeFriendRequest(you(c), me(c))
  BY DEF AcceptRemove, Run
<1>3. /\ \A s, r \in User : requests'[s][r].shown > 0 => requests[s][r].shown > 0
      /\ friends' = friends
  BY <1>1, <1>2, RowsRemoved DEF dbVars
<1>4. Acts(c, "accept_first", thread[c].resp, thread[c].names, <<>>)
  BY <1>1, <1>2, ActsIs
<1>5. /\ thread'[c].pc = "accept_first" /\ thread'[c].out = <<>>
      /\ thread'[c].connectedUser = me(c) /\ Only(c)
      /\ thread'[c].req = thread[c].req
      /\ thread'[c].targetIDs = thread[c].targetIDs
      /\ offers' = offers
  BY <1>2, <1>4 DEF Acts, Only, clients
<1>6. \A s, r \in User : Remembers(thread'[c], s, r) => <<s, r>> \in asked
  <2>1. <<you(c), me(c)>> \in asked
    BY <1>1 DEF asked, Known, Remembers, me, you
  <2> QED
    BY <1>5, <2>1 DEF Remembers, me, you
<1>7. \A s, r \in User : requests'[s][r].shown > 0 => <<s, r>> \in asked
  BY <1>3 DEF asked, Known
<1>8. \A d \in Conn, s \in User : offers'[d][s] > 0 => me(d) \in User /\ <<s, me(d)>> \in asked
  BY <1>5, ThreadFields DEF HeldOK, asked, Known
<1>9. \A k \in Conn : ~(thread'[c].targetIDs[k] > 0)
  BY <1>1, <1>5 DEF HeldOK, Aimed
<1>10. asked' \subseteq asked /\ HeldOK'
  BY <1>3, <1>5, <1>6, <1>7, <1>8, <1>9, KnownAfter
<1> QED
  BY <1>3, <1>10, SilentPermitted

\* ... and its two rows, of which the second comes after the first.
LEMMA AcceptRowsPermitted ==
  ASSUME IInv, IInv', HeldOK, SessionsOK, NEW c \in Conn, AcceptFirst(c) \/ AcceptSecond(c)
  PROVE  Permitted
<1>1. /\ thread[c].pc \in {"accept_first", "accept_second"} /\ thread[c].out = <<>>
      /\ me(c) \in User /\ you(c) \in User /\ c \in live
  BY DEF AcceptFirst, AcceptSecond, At, IInv, LocalsOK, UserLabels, AskingLabels,
     SocketsExact, me, you
<1>2. UNCHANGED <<registry, clients>>
  BY DEF AcceptFirst, AcceptSecond, Run
<1>3. session[c] = me(c) /\ session' = session
  BY <1>1, <1>2, NoUserAssumption DEF SessionsOK, session, SessionOf, registry
<1>4. CASE UNCHANGED dbVars
  <2>1. Becomes(c, To(c, "accept_announce"))
    <3>1. ASSUME NEW u \in User, NEW v \in User, insertFriendRow(u, v) PROVE FALSE
      <4>1. friends'[u][v] = friends[u][v] + 1 /\ friends[u][v] \in Nat
        BY <3>1 DEF insertFriendRow, IInv, TypeOK, DbTypeOK, Names
      <4> QED
        BY <1>4, <4>1 DEF dbVars
    <3> QED
      BY <1>1, <3>1 DEF AcceptFirst, AcceptSecond, Run
  <2>2. Acts(c, "accept_announce", thread[c].resp, thread[c].names, <<>>)
    BY <1>1, <2>1, ActsIs
  <2> QED
    BY <1>1, <1>2, <1>4, <2>2, ActsSilent DEF dbVars, clients
<1>5. CASE AcceptFirst(c) /\ ~UNCHANGED dbVars
  <2>1. insertFriendRow(you(c), me(c)) /\ Becomes(c, To(c, "accept_second"))
    BY <1>5 DEF AcceptFirst, Run
  <2>2. Acts(c, "accept_second", thread[c].resp, thread[c].names, <<>>)
    BY <1>1, <2>1, ActsIs
  <2>3. /\ thread'[c].pc = "accept_second" /\ thread'[c].out = <<>>
        /\ thread'[c].connectedUser = me(c) /\ Only(c)
        /\ thread'[c].req = thread[c].req
        /\ thread'[c].targetIDs = thread[c].targetIDs
        /\ offers' = offers
    BY <1>2, <2>2 DEF Acts, Only, clients
  <2>4. /\ requests' = requests /\ friends'[you(c)][me(c)] > 0
        /\ \A s, r \in User : friends[s][r] > 0 => friends'[s][r] > 0
        /\ befriended' = befriended \cup {<<you(c), me(c)>>}
    BY <1>1, <2>1, RowInserted
  <2>5. <<you(c), me(c)>> \in asked
    BY <1>1, <1>5 DEF AcceptFirst, At, asked, Known, Remembers, me, you
  <2>6. \A s, r \in User : ~Remembers(thread'[c], s, r)
    BY <2>3 DEF Remembers
  <2>7. \A s, r \in User : requests'[s][r].shown > 0 => <<s, r>> \in asked
    BY <2>4 DEF asked, Known
  <2>8. \A d \in Conn, s \in User : offers'[d][s] > 0 => me(d) \in User /\ <<s, me(d)>> \in asked
    BY <2>3, ThreadFields DEF HeldOK, asked, Known
  <2>9. \A k \in Conn : ~(thread'[c].targetIDs[k] > 0)
    BY <1>1, <2>3 DEF HeldOK, Aimed
  <2>10. friends'[thread'[c].req.name][thread'[c].connectedUser] > 0
    BY <2>3, <2>4 DEF you
  <2>11. asked' \subseteq asked /\ HeldOK'
    BY <2>3, <2>4, <2>6, <2>7, <2>8, <2>9, <2>10, KnownAfter
  <2>12. Allowed!Accept(c, you(c))
    BY <1>3, <2>4, <2>5, <2>11 DEF Allowed!Accept
  <2> QED
    BY <1>1, <2>11, <2>12 DEF Permitted, Allowed!Next
<1>6. CASE AcceptSecond(c) /\ ~UNCHANGED dbVars
  <2>1. insertFriendRow(me(c), you(c)) /\ Becomes(c, To(c, "accept_announce"))
    BY <1>6 DEF AcceptSecond, Run
  <2>2. Acts(c, "accept_announce", thread[c].resp, thread[c].names, <<>>)
    BY <1>1, <2>1, ActsIs
  <2>3. /\ thread'[c].pc = "accept_announce" /\ thread'[c].out = <<>>
        /\ thread'[c].connectedUser = me(c) /\ Only(c)
        /\ thread'[c].targetIDs = thread[c].targetIDs
        /\ offers' = offers
    BY <1>2, <2>2 DEF Acts, Only, clients
  <2>4. /\ requests' = requests
        /\ \A s, r \in User : friends[s][r] > 0 => friends'[s][r] > 0
        /\ befriended' = befriended \cup {<<me(c), you(c)>>}
    BY <1>1, <2>1, RowInserted
  <2>5. asked' \subseteq asked /\ HeldOK'
    BY <1>1, <2>3, <2>4, Silent
  <2>6. <<you(c), me(c)>> \in befriended
    BY <1>1, <1>6 DEF AcceptSecond, At, HeldOK, befriended
  <2>7. Allowed!Return(c, you(c))
    BY <1>3, <2>4, <2>5, <2>6 DEF Allowed!Return
  <2> QED
    BY <1>1, <2>5, <2>7 DEF Permitted, Allowed!Next
<1> QED
  BY <1>4, <1>5, <1>6

\* sendOutPacket serves target k, whether the send succeeds or fails.
LEMMA ServedIs ==
  ASSUME IInv, NEW c \in Conn, NEW k \in Conn, Deliver(c, k)
  PROVE  /\ thread[c].out # <<>> /\ thread[c].targetIDs[k] > 0
         /\ \E i \in [Conn -> Nat], b \in BOOLEAN :
              /\ \A d \in Conn : i[d] > 0 => thread[c].targetIDs[d] > 0
              /\ \/ i = NoTargets /\ Sends(c, Tail(thread[c].out), i, b)
                 \/ Sends(c, thread[c].out, i, b)
         /\ \/ Learns(k, Head(thread[c].out)) \/ UNCHANGED offers
         /\ UNCHANGED <<dbVars, registry>>
<1> DEFINE p == Head(thread[c].out)
           left == [thread[c].targetIDs EXCEPT ![k] = @ - 1]
           heard == thread[c].reached \/ p.type = "MESSAGE"
           one == [thread[c] EXCEPT !.targetIDs = left, !.reached = heard]
           last == [one EXCEPT !.out = Tail(@)]
<1>1. /\ Sending(c) /\ thread[c].out # <<>> /\ thread[c].targetIDs[k] > 0
      /\ Learns(k, p) \/ UNCHANGED offers
      /\ UNCHANGED <<dbVars, registry>>
      /\ Served(c, k, p)
  BY DEF Deliver, Sending
<1>2. thread[c] \in Threads /\ thread[c].targetIDs \in [Conn -> Nat]
  BY ThreadFields
<1>3. /\ left \in [Conn -> Nat]
      /\ \A d \in Conn : left[d] > 0 => thread[c].targetIDs[d] > 0
  BY <1>1, <1>2
<1>9. heard \in BOOLEAN
  BY <1>2 DEF Threads
<1>4. Becomes(c, IF left = NoTargets THEN last ELSE one)
  BY <1>1 DEF Served
<1> HIDE DEF p, left, heard
<1>5. /\ one.out = thread[c].out /\ one.targetIDs = left /\ one.reached = heard
      /\ one.pc = thread[c].pc /\ one.connectedUser = thread[c].connectedUser
      /\ one.req = thread[c].req /\ one.resp = thread[c].resp
      /\ one.names = thread[c].names
  BY <1>2 DEF Threads
<1>6. /\ last.out = Tail(thread[c].out) /\ last.targetIDs = left /\ last.reached = heard
      /\ last.pc = thread[c].pc /\ last.connectedUser = thread[c].connectedUser
      /\ last.req = thread[c].req /\ last.resp = thread[c].resp
      /\ last.names = thread[c].names
  BY <1>2 DEF Threads
<1> HIDE DEF one, last
<1>7. \/ left = NoTargets /\ Sends(c, Tail(thread[c].out), left, heard)
      \/ Sends(c, thread[c].out, left, heard)
  <2>1. CASE left = NoTargets
    BY <1>4, <1>6, <2>1, BecomesOnly DEF Sends, me
  <2>2. CASE left # NoTargets
    BY <1>4, <1>5, <2>2, BecomesOnly DEF Sends, me
  <2> QED
    BY <2>1, <2>2
<1>8. Learns(k, Head(thread[c].out)) \/ UNCHANGED offers
  BY <1>1 DEF p
<1> QED
  BY <1>1, <1>3, <1>7, <1>8, <1>9

\* A thread that goes on sending remembers nothing new.
LEMMA SendsRemember ==
  ASSUME IInv, NEW c \in Conn, NEW o, NEW i, NEW b, Sends(c, o, i, b),
         o = thread[c].out \/ (thread[c].out # <<>> /\ o = Tail(thread[c].out))
  PROVE  \A s, r \in User : Remembers(thread'[c], s, r) => <<s, r>> \in asked
<1>1. thread[c].out \in Seq(Calls)
  BY ThreadFields
<1>2. \A j \in DOMAIN o : \E h \in DOMAIN thread[c].out : o[j] = thread[c].out[h]
  <2>1. CASE o = thread[c].out
    BY <2>1
  <2>2. CASE thread[c].out # <<>> /\ o = Tail(thread[c].out)
    <3>1. PICK w \in Seq(Calls) : w = thread[c].out
      BY <1>1
    <3>2. \A j \in DOMAIN Tail(w) : j + 1 \in DOMAIN w /\ Tail(w)[j] = w[j + 1]
      BY <2>2, <3>1
    <3> QED
      BY <2>2, <3>1, <3>2
  <2> QED
    BY <2>1, <2>2
<1>3. /\ thread'[c].out = o /\ thread'[c].pc = thread[c].pc
      /\ thread'[c].connectedUser = thread[c].connectedUser
      /\ thread'[c].req = thread[c].req /\ thread'[c].names = thread[c].names
  BY DEF Sends, me
<1>4. ASSUME NEW s \in User, NEW r \in User, Remembers(thread'[c], s, r)
      PROVE  <<s, r>> \in asked
  <2>1. Remembers(thread[c], s, r)
    BY <1>2, <1>3, <1>4 DEF Remembers
  <2> QED
    BY <2>1 DEF asked, Known
<1> QED
  BY <1>4

\* sendOutPacket: a request forwarded reaches those who were asked.
LEMMA SendingPermitted ==
  ASSUME IInv, IInv', HeldOK, ~Relogin, NEW c \in Conn,
         Collect(c) \/ \E k \in Conn : Deliver(c, k)
  PROVE  Permitted
<1> DEFINE Stays == \A s, t \in User : requests'[s][t].shown > 0 => <<s, t>> \in asked
<1>1. UNCHANGED dbVars /\ friends' = friends /\ Stays
  <2>1. UNCHANGED dbVars
    BY DEF Collect, Deliver
  <2> QED
    BY <2>1 DEF dbVars, asked, Known
<1>2. ASSUME NEW o, NEW i, NEW b, Sends(c, o, i, b),
             o = thread[c].out \/ (thread[c].out # <<>> /\ o = Tail(thread[c].out)),
             \A k \in Conn : i[k] > 0 => o # <<>> /\ me(k) = Head(o).to,
             \A d \in Conn, s \in User :
               offers'[d][s] > 0 => me(d) \in User /\ <<s, me(d)>> \in asked
      PROVE  Permitted
  <2>1. \A s, r \in User : Remembers(thread'[c], s, r) => <<s, r>> \in asked
    BY <1>2, SendsRemember
  <2>2. /\ thread'[c].pc = thread[c].pc /\ thread'[c].req = thread[c].req
        /\ thread'[c].connectedUser = me(c) /\ Only(c)
        /\ thread'[c].out = o /\ thread'[c].targetIDs = i
    BY <1>2 DEF Sends, Only
  <2>3. thread'[c].pc = "accept_second"
          => friends'[thread'[c].req.name][thread'[c].connectedUser] > 0
    BY <1>1, <2>2 DEF HeldOK, you
  <2>4. asked' \subseteq asked /\ HeldOK'
    BY <1>1, <1>2, <2>1, <2>2, <2>3, KnownAfter
  <2> QED
    BY <1>1, <2>4, SilentPermitted
<1>3. \A d \in Conn, s \in User : offers[d][s] > 0 => me(d) \in User /\ <<s, me(d)>> \in asked
  BY ThreadFields DEF HeldOK, asked, Known
<1>4. CASE Collect(c)
  <2> DEFINE ids == clientIDs[Head(thread[c].out).to]
  <2>1. /\ thread[c].out # <<>>
        /\ \/ Sends(c, Tail(thread[c].out), NoTargets, thread[c].reached)
           \/ Sends(c, thread[c].out, ids, thread[c].reached)
        /\ offers' = offers
    BY <1>4, CollectIs DEF Local, clients
  <2>2. Head(thread[c].out).to \in User
    BY <1>4, SenderRuns DEF Collect, Calls
  <2>3. \A k \in Conn : ids[k] > 0 => me(k) = Head(thread[c].out).to
    BY <2>2 DEF IInv, RegistryExact
  <2>4. \A k \in Conn : ~(NoTargets[k] > 0)
    BY DEF NoTargets
  <2> HIDE DEF ids
  <2> QED
    BY <1>2, <1>3, <2>1, <2>3, <2>4
<1>5. ASSUME NEW k \in Conn, Deliver(c, k) PROVE Permitted
  <2> DEFINE p == Head(thread[c].out)
  <2>1. /\ thread[c].out # <<>> /\ thread[c].targetIDs[k] > 0
        /\ Learns(k, p) \/ offers' = offers
    BY <1>5, ServedIs
  <2>2. PICK i \in [Conn -> Nat], b \in BOOLEAN :
          /\ \A d \in Conn : i[d] > 0 => thread[c].targetIDs[d] > 0
          /\ \/ i = NoTargets /\ Sends(c, Tail(thread[c].out), i, b)
             \/ Sends(c, thread[c].out, i, b)
    BY <1>5, ServedIs
  <2>3. \A d \in Conn : thread[c].targetIDs[d] > 0 => me(d) = p.to
    BY DEF HeldOK, Aimed
  <2>4. p \in Calls /\ me(k) = p.to /\ me(k) \in User /\ p.name \in User
    <3>1. p \in Calls
      BY <1>5, SenderRuns DEF Deliver
    <3> QED
      BY <2>1, <2>3, <3>1 DEF Calls
  <2>5. p.type = "FORWARD" => <<p.name, me(k)>> \in asked
    <3> SUFFICES ASSUME p.type = "FORWARD" PROVE <<p.name, me(k)>> \in asked
      OBVIOUS
    <3>1. PICK w \in Seq(Calls) : w = thread[c].out
      BY ThreadFields
    <3>2. 1 \in DOMAIN w /\ w[1] = p
      BY <2>1, <3>1
    <3>3. p = Call(me(k), "FORWARD", p.name)
      BY <2>4 DEF Call, Calls
    <3>4. Remembers(thread[c], p.name, me(k))
      BY <3>1, <3>2, <3>3 DEF Remembers
    <3> QED
      BY <2>4, <3>4 DEF asked, Known
  <2>6. ASSUME NEW d \in Conn, NEW s \in User, offers'[d][s] > 0
        PROVE  me(d) \in User /\ <<s, me(d)>> \in asked
    <3>1. offers \in [Conn -> [User -> Nat]]
      BY DEF IInv, TypeOK, ClientsTypeOK, Names
    <3>2. CASE offers[d][s] > 0
      BY <1>3, <3>2
    <3>3. CASE ~(offers[d][s] > 0)
      <4>1. p.type = "FORWARD" /\ d = k /\ s = p.name
        BY SMTT(30), <2>1, <2>4, <2>6, <3>1, <3>3 DEF Learns
      <4> QED
        BY <2>4, <2>5, <4>1
    <3> QED
      BY <3>2, <3>3
  <2>7. \A d \in Conn : ~(NoTargets[d] > 0)
    BY DEF NoTargets
  <2> HIDE DEF p
  <2>8. CASE i = NoTargets /\ Sends(c, Tail(thread[c].out), i, b)
    BY <1>2, <2>1, <2>6, <2>7, <2>8
  <2>9. CASE Sends(c, thread[c].out, i, b)
    BY <1>2, <2>1, <2>2, <2>3, <2>6, <2>9 DEF p
  <2> QED
    BY <2>2, <2>8, <2>9
<1> QED
  BY <1>4, <1>5

\* The process ends: what only its memory, or a client's, held is forgotten.
LEMMA DownPermitted ==
  ASSUME IInv, IInv', HeldOK, NEW why, Down(why), UNCHANGED dbVars
  PROVE  Permitted
<1>1. \A c \in Conn : /\ thread'[c].pc = "none" /\ thread'[c].out = <<>>
                      /\ thread'[c].targetIDs = NoTargets
  BY DEF Down, AllFresh, Fresh
<1>2. \A c \in Conn, s \in User : ~(offers'[c][s] > 0)
  BY DEF Down, NoOffers, Nobody
<1>3. asked' \subseteq asked
  <2> SUFFICES ASSUME NEW s \in User, NEW r \in User, Known(s, r)' PROVE Known(s, r)
    BY DEF asked
  <2>1. \A c \in Conn : ~Remembers(thread[c], s, r)'
    BY <1>1 DEF Remembers
  <2>2. requests'[s][r].shown > 0
    BY <1>2, <2>1 DEF Known
  <2> QED
    BY <2>2 DEF Known, dbVars
<1>4. HeldOK'
  BY <1>1, <1>2 DEF HeldOK, Aimed, NoTargets
<1> QED
  BY <1>3, <1>4, SilentPermitted DEF dbVars

\* What leaves threads, tables and clients as they are.
LEMMA RestPermitted ==
  ASSUME HeldOK, UNCHANGED <<dbVars, registry, thread, offers>>
  PROVE  Permitted
<1>1. asked' = asked
  BY DEF asked, Known, Remembers, me, dbVars
<1>2. HeldOK'
  BY DEF HeldOK, Aimed, me, you, dbVars
<1> QED
  BY <1>1, <1>2, SilentPermitted DEF dbVars

\* Whatever step the server takes, Friendships permits it.
LEMMA StepPermitted ==
  ASSUME IInv, IInv', HeldOK, SessionsOK, ~Relogin, [Next]_vars
  PROVE  Permitted
<1>1. ASSUME NEW c \in Conn, Work(c) PROVE Permitted
  <2>1. ASSUME NEW k \in Conn, DeliverToErased(c, k) PROVE Permitted
    BY <2>1, DownPermitted DEF DeliverToErased
  <2>2. CASE \E k \in Conn : Deliver(c, k) \/ DeliverToErased(c, k)
    BY <2>1, <2>2, SendingPermitted
  <2>3. CASE \E n \in User : \/ EachIncoming(c, n) \/ EachOutgoing(c, n)
                             \/ EachFriend(c, n) \/ EachBye(c, n)
    BY <2>3, TurnsPermitted
  <2> QED
    BY <1>1, <2>2, <2>3, MovesPermitted, EndsPermitted, RegisterPermitted, WalksPermitted,
       AnnouncesPermitted, AskPermitted, RefusalPermitted, AcceptRemovePermitted,
       AcceptRowsPermitted, SendingPermitted DEF Work
<1>2. ASSUME NEW c \in Conn, Outside(c) PROVE Permitted
  <2>1. ASSUME SendRaisesSignal(c) PROVE Permitted
    BY <2>1, DownPermitted DEF SendRaisesSignal
  <2>2. ASSUME NEW u \in User,
               \/ \E p \in Password, type \in {"create", "login"} :
                    ReceiveCredentials(c, type, u, p)
               \/ ReceiveAsk(c, u) \/ ReceiveMessage(c, u)
               \/ \E type \in {"accept", "reject", "hide"} : ReceiveAcknowledge(c, type, u)
        PROVE  Permitted
    BY <2>2, ArrivesIs, ReceivePermitted
  <2> QED
    BY <1>2, <2>1, <2>2, EndsPermitted, MovesPermitted DEF Outside
<1>3. CASE Kill
  BY <1>3, DownPermitted DEF Kill
<1>4. CASE Restart
  BY <1>4, RestPermitted DEF Restart, clients
<1>5. CASE UNCHANGED vars
  BY <1>5, RestPermitted DEF vars, registry, dbVars
<1> QED
  BY <1>1, <1>2, <1>3, <1>4, <1>5 DEF Next, Finished

\* At the start nobody has asked, and friendships are mutual.
LEMMA InitPermitted == Init => HeldOK /\ Allowed!Init
<1> SUFFICES ASSUME Init PROVE HeldOK /\ Allowed!Init
  OBVIOUS
<1>1. \A c \in Conn : /\ thread[c].pc = "none" /\ thread[c].out = <<>>
                      /\ thread[c].targetIDs = NoTargets
  BY DEF Init, AllFresh, Fresh
<1>2. \A c \in Conn, s \in User : ~(offers[c][s] > 0)
  BY DEF Init, NoOffers, Nobody
<1>3. HeldOK
  BY <1>1, <1>2 DEF HeldOK, Aimed, NoTargets
<1>4. asked = {}
  <2> SUFFICES ASSUME NEW s \in User, NEW r \in User PROVE ~Known(s, r)
    BY DEF asked
  <2>1. \A c \in Conn : ~Remembers(thread[c], s, r)
    BY <1>1 DEF Remembers
  <2>2. ~(requests[s][r].shown > 0)
    BY DEF Init
  <2> QED
    BY <1>2, <2>1, <2>2 DEF Known
<1>5. \A p \in befriended : <<p[2], p[1]>> \in befriended
  <2> SUFFICES ASSUME NEW u \in User, NEW v \in User, friends[u][v] > 0
               PROVE  friends[v][u] > 0
    BY DEF befriended
  <2>1. <<u, v>> \in Befriended
    BY DEF Init
  <2>2. <<v, u>> \in Befriended
    BY <2>1, BefriendedAssumption
  <2> QED
    BY <2>2 DEF Init
<1>6. session = [c \in Conn |-> NoUser]
  BY DEF Init, session, SessionOf, NoIDs, NoTargets
<1>7. befriended \subseteq User \X User
  BY DEF befriended
<1> QED
  BY <1>3, <1>4, <1>5, <1>6, <1>7 DEF Allowed!Init

\* As long as no client logs in twice over one connection: for every two users,
\* however often each asks, accepts or refuses, on however many connections at
\* once, and wherever a statement fails or the process ends, a row of FRIENDS is
\* inserted only after the one had asked the other and the other accepted, the
\* second row only when the first is there, and no row is ever lost.
THEOREM FriendshipsKept ==
  ASSUME ~Relogin
  PROVE  Spec => KeepsFriendships
<1>1. IInv /\ HeldOK /\ IInv' /\ [Next]_vars => Permitted
  BY SessionIs, StepPermitted
<1>2. IInv /\ HeldOK /\ IInv' /\ [Next]_vars => HeldOK'
  BY <1>1 DEF Permitted
<1>3. IInv /\ HeldOK /\ IInv' /\ [Next]_vars => [Allowed!Next]_(Allowed!vars)
  BY <1>1 DEF Permitted
<1>4. Spec => []IInv
  BY Invariance
<1> QED
  BY <1>2, <1>3, <1>4, InitPermitted, PTL DEF Spec, KeepsFriendships, Allowed!Spec
=============================================================================
