---------------------------- MODULE FalconProofs ----------------------------
(***************************************************************************)
(* What holds of Falcon for every set of users, passwords and connections, *)
(* every workload and every bound: its type invariant, and that the        *)
(* registry of sessions is exact.                                          *)
(*                                                                         *)
(* TypeOK is not inductive.  That Close never takes a count of clientIDs   *)
(* below zero needs HoldsID; that a step of a session has a user, and a    *)
(* step of a request a name, needs LocalsOK.  RegistryExact needs that a   *)
(* thread handling credentials is not logged in yet (no Relogin), and that *)
(* a connection is in live for as long as its thread runs (SocketsExact).  *)
(*                                                                         *)
(* The last part says what each step of a thread does, field by field, if  *)
(* nothing fails: what the proofs about friendships, requests and presence *)
(* start from.                                                             *)
(***************************************************************************)
EXTENDS FalconProperties, TLAPS

UserLabels == {"login_incoming", "each_incoming", "each_outgoing", "each_friend",
               "ask_check", "ask_insert", "accept_remove", "accept_first",
               "accept_second", "accept_announce", "reject_tell",
               "reject_remove", "hide", "message_check", "bye_friends", "each_bye"}
AskingLabels == CredentialLabels \cup
  {"ask_check", "ask_insert", "accept_remove", "accept_first", "accept_second",
   "accept_announce", "reject_tell", "reject_remove", "hide", "message_check"}

\* What the locals of a thread owe to where it is.
LocalsOK(t) ==
  /\ t.pc \in UserLabels => t.connectedUser \in User
  /\ t.pc \in AskingLabels => t.req.name \in User
  /\ t.pc \in {"create_check", "create_insert"} => t.req.pass \in Password
  /\ ~Relogin /\ t.pc \in CredentialLabels => t.connectedUser = NoUser
  /\ t.pc = "none" => t.connectedUser = NoUser
  /\ t.pc \in {"none", "closed"} => t.out = <<>>

\* A running thread that is logged in has an entry to erase.
HoldsID(c) ==
  thread[c].pc \notin {"none", "closed"} /\ me(c) # NoUser
    => clientIDs[me(c)][c] > 0

\* A connection's socket and mutex are there as long as its thread runs.
SocketsExact ==
  \A c \in Conn : c \in live <=> thread[c].pc \notin {"none", "closed"}

\* The inductive invariant.
IInv ==
  /\ TypeOK
  /\ \A c \in Conn : LocalsOK(thread[c]) /\ HoldsID(c)
  /\ SocketsExact
  /\ ~Relogin => RegistryExact

-----------------------------------------------------------------------------
(* Records of Threads and updates of their fields *)

\* A thread that starts anywhere has the type of a thread.
LEMMA FreshTyped ==
  ASSUME NEW l \in Labels
  PROVE  Fresh(l) \in Threads
<1>1. NoRequest \in Requests BY DEF NoRequest, Requests
<1>2. Nobody \in Names BY DEF Nobody, Names
<1>3. NoTargets \in [Conn -> Nat] BY DEF NoTargets
<1>4. <<>> \in Seq(Calls) OBVIOUS
<1> QED BY <1>1, <1>2, <1>3, <1>4 DEF Fresh, Threads

\* Moving on, with the answer and the calls that come next.
LEMMA Updated ==
  ASSUME NEW t \in Threads, NEW l \in Labels, NEW r \in {"none", "yes", "no"},
         NEW o \in Seq(Calls), NEW n \in Names, NEW i \in [Conn -> Nat],
         NEW b \in BOOLEAN, NEW u \in User \cup {NoUser}, NEW q \in Requests
  PROVE  /\ [t EXCEPT !.pc = l] \in Threads
         /\ [t EXCEPT !.resp = r] \in Threads
         /\ [t EXCEPT !.out = o] \in Threads
         /\ [t EXCEPT !.names = n] \in Threads
         /\ [t EXCEPT !.targetIDs = i] \in Threads
         /\ [t EXCEPT !.reached = b] \in Threads
         /\ [t EXCEPT !.connectedUser = u] \in Threads
         /\ [t EXCEPT !.req = q] \in Threads
  BY DEF Threads

\* A call of sendOutPacket about a user has the type of a call.
LEMMA CallTyped ==
  ASSUME NEW u \in User, NEW p \in PacketTypes, NEW n \in User
  PROVE  Call(u, p, n) \in Calls
  BY DEF Call, Calls

-----------------------------------------------------------------------------
(* Steps *)

\* A running thread that goes on running, as the same user, keeps the invariant
\* if it leaves the registry alone and the rest typed.
LEMMA RunningStep ==
  ASSUME IInv, NEW c \in Conn, NEW t \in Threads, Becomes(c, t),
         thread[c].pc \notin {"none", "closed"}, t.pc \notin {"none", "closed"},
         t.connectedUser = me(c), LocalsOK(t),
         UNCHANGED registry, DbTypeOK', ClientsTypeOK', WorldTypeOK'
  PROVE  IInv'
<1>1. /\ thread \in [Conn -> Threads]
      /\ clientIDs \in [User -> [Conn -> Nat]]
      /\ live \subseteq Conn
  BY DEF IInv, TypeOK
<1>2. /\ thread' \in [Conn -> Threads]
      /\ thread'[c] = t
      /\ \A d \in Conn \ {c} : thread'[d] = thread[d]
  BY <1>1 DEF Becomes
<1>3. clientIDs' = clientIDs /\ live' = live
  BY DEF registry
<1>4. TypeOK'
  BY <1>1, <1>2, <1>3 DEF TypeOK
<1>5. \A d \in Conn : LocalsOK(thread'[d])
  BY <1>2 DEF IInv
<1>6. \A d \in Conn : HoldsID(d)'
  BY <1>2, <1>3 DEF IInv, HoldsID, me
<1>7. SocketsExact'
  BY <1>2, <1>3 DEF IInv, SocketsExact
<1>8. ~Relogin => RegistryExact'
  BY <1>2, <1>3 DEF IInv, RegistryExact, me
<1> QED
  BY <1>4, <1>5, <1>6, <1>7, <1>8 DEF IInv, LocalsOK

\* ... in particular one that does not touch the clients,
LEMMA DatabaseStep ==
  ASSUME IInv, NEW c \in Conn, NEW t \in Threads, Becomes(c, t),
         thread[c].pc \notin {"none", "closed"}, t.pc \notin {"none", "closed"},
         t.connectedUser = me(c), LocalsOK(t),
         DbTypeOK', UNCHANGED <<registry, clients>>, Fault \/ NoFault
  PROVE  IInv'
<1>2. ClientsTypeOK'
  BY DEF IInv, TypeOK, ClientsTypeOK, clients
<1>3. WorldTypeOK'
  BY BoundAssumption DEF IInv, TypeOK, WorldTypeOK, Fault, NoFault, world
<1> QED
  BY <1>2, <1>3, RunningStep

\* ... nor the database.
LEMMA LocalStep ==
  ASSUME IInv, NEW c \in Conn, NEW t \in Threads, Becomes(c, t),
         thread[c].pc \notin {"none", "closed"}, t.pc \notin {"none", "closed"},
         t.connectedUser = me(c), LocalsOK(t),
         UNCHANGED <<dbVars, registry, clients>>, Fault \/ NoFault
  PROVE  IInv'
<1>1. DbTypeOK'
  BY DEF IInv, TypeOK, DbTypeOK, dbVars
<1> QED
  BY <1>1, DatabaseStep

\* What moving to l, or answering r, does to the locals.
LEMMA Moved ==
  ASSUME IInv, NEW c \in Conn, NEW l \in Labels, NEW r \in {"none", "yes", "no"}
  PROVE  /\ thread[c] \in Threads
         /\ To(c, l) \in Threads
         /\ To(c, l).pc = l
         /\ To(c, l).connectedUser = me(c)
         /\ To(c, l).req = thread[c].req
         /\ Replying(c, r) \in Threads
         /\ Replying(c, r).pc = "respond"
         /\ Replying(c, r).connectedUser = me(c)
<1>1. thread[c] \in Threads
  BY DEF IInv, TypeOK
<1>2. "respond" \in Labels
  BY DEF Labels
<1> QED
  BY <1>1, <1>2 DEF To, Replying, Threads, me

\* Answering is always possible.
LEMMA AnswerStep ==
  ASSUME IInv, NEW c \in Conn, NEW r \in {"none", "yes", "no"}, Answer(c, r),
         thread[c].pc \notin {"none", "closed"},
         UNCHANGED <<dbVars, registry, clients>>, Fault \/ NoFault
  PROVE  IInv'
<1>1. Becomes(c, Replying(c, r))
  BY DEF Answer, Replying
<1>2. Replying(c, r) \in Threads /\ Replying(c, r).pc = "respond"
      /\ Replying(c, r).connectedUser = me(c)
  BY Moved DEF Labels
<1>3. LocalsOK(Replying(c, r))
  BY <1>2 DEF LocalsOK, UserLabels, AskingLabels, CredentialLabels
<1> QED
  BY <1>1, <1>2, <1>3, LocalStep

\* Moving on without an answer is possible wherever the locals suffice.
LEMMA GotoStep ==
  ASSUME IInv, NEW c \in Conn, NEW l \in Labels \ {"none", "closed"}, Goto(c, l),
         thread[c].pc \notin {"none", "closed"}, LocalsOK(To(c, l)),
         UNCHANGED <<dbVars, registry, clients>>, Fault \/ NoFault
  PROVE  IInv'
<1>1. Becomes(c, To(c, l))
  BY DEF Goto, To
<1>2. To(c, l) \in Threads /\ To(c, l).pc = l /\ To(c, l).connectedUser = me(c)
  BY Moved
<1> QED
  BY <1>1, <1>2, LocalStep

\* A loop starts: its names are a part of what the query returned.
LEMMA WalkStep ==
  ASSUME IInv, NEW c \in Conn, NEW l \in {"each_incoming", "each_outgoing",
         "each_friend", "each_bye"}, NEW b \in Names, Walk(c, l, b),
         thread[c].pc \in UserLabels
  PROVE  IInv'
<1>1. PICK p \in Parts(b) :
        /\ Becomes(c, [thread[c] EXCEPT !.pc = l, !.names = p])
        /\ IF p = b THEN NoFault ELSE Fault
        /\ UNCHANGED <<dbVars, registry, clients>>
  BY DEF Walk
<1>2. p \in Names
  <2>1. UNION {0..b[u] : u \in User} \subseteq Nat
    BY DEF Names
  <2> QED BY <2>1 DEF Parts, Names
<1> DEFINE t == [thread[c] EXCEPT !.pc = l, !.names = p]
<1>a. thread[c] \in Threads /\ l \in Labels
  BY DEF IInv, TypeOK, Labels
<1>3. t \in Threads /\ t.pc = l /\ t.connectedUser = me(c)
  BY <1>2, <1>a DEF Threads, me
<1>4. me(c) \in User /\ thread[c].pc \notin {"none", "closed"}
  BY DEF IInv, LocalsOK, UserLabels, me
<1>5. LocalsOK(t)
  BY <1>3, <1>4 DEF LocalsOK, AskingLabels, CredentialLabels
<1> HIDE DEF t
<1>6. t.pc \notin {"none", "closed"}
  BY <1>3
<1>7. Becomes(c, t)
  BY <1>1 DEF t
<1> QED
  BY <1>1, <1>3, <1>4, <1>5, <1>6, <1>7, LocalStep

\* One turn of a loop.
LEMMA VisitStep ==
  ASSUME IInv, NEW c \in Conn, NEW n \in User, NEW o \in Seq(Calls), Visit(c, n, o),
         thread[c].pc \in {"each_incoming", "each_outgoing", "each_friend", "each_bye"}
  PROVE  IInv'
<1> DEFINE m == [thread[c].names EXCEPT ![n] = @ - 1]
           t == [thread[c] EXCEPT !.names = m, !.out = o]
<1>1. thread[c] \in Threads
  BY DEF IInv, TypeOK
<1>2. m \in Names
  BY <1>1 DEF Visit, Names, Threads
<1>3. t \in Threads /\ t.pc = thread[c].pc /\ t.connectedUser = me(c)
  BY <1>1, <1>2 DEF Threads, me
<1>4. LocalsOK(t)
  BY <1>3 DEF IInv, LocalsOK, UserLabels, AskingLabels, CredentialLabels, me
<1>5. Becomes(c, t)
  BY DEF Visit
<1>6. UNCHANGED <<dbVars, registry, clients>> /\ NoFault
  BY DEF Visit, NoFault
<1> HIDE DEF t
<1> QED
  BY <1>3, <1>4, <1>5, <1>6, LocalStep

-----------------------------------------------------------------------------
(* Statements *)

\* The statements on the database keep its tables typed.
LEMMA StatementsTyped ==
  ASSUME DbTypeOK, NEW u \in User, NEW v \in User
  PROVE  /\ \A p \in Password : insertNewUser(u, p) => DbTypeOK'
         /\ insertFriendRequest(u, v) => DbTypeOK'
         /\ hideFriendRequest(u, v) => DbTypeOK'
         /\ removeFriendRequest(u, v) => DbTypeOK'
         /\ insertFriendRow(u, v) => DbTypeOK'
         /\ UNCHANGED dbVars => DbTypeOK'
<1>1. \A p \in Password : insertNewUser(u, p) => DbTypeOK'
  BY DEF insertNewUser, DbTypeOK
<1>2. insertFriendRow(u, v) => DbTypeOK'
  BY DEF insertFriendRow, DbTypeOK, Names
<1>3. insertFriendRequest(u, v) => DbTypeOK'
  <2> SUFFICES ASSUME insertFriendRequest(u, v) PROVE DbTypeOK'
    OBVIOUS
  <2> DEFINE Row == [shown : Nat, hidden : Nat]
             row == [requests[u][v] EXCEPT !.shown = @ + 1]
  <2>1. requests \in [User -> [User -> Row]] /\ requests[u][v] \in Row
    BY DEF DbTypeOK
  <2>2. row \in Row
    BY <2>1
  <2>3. requests' = [requests EXCEPT ![u] = [requests[u] EXCEPT ![v] = row]]
    BY DEF insertFriendRequest
  <2> HIDE DEF Row, row
  <2>4. requests' \in [User -> [User -> Row]]
    BY <2>1, <2>2, <2>3
  <2> QED
    BY <2>4 DEF insertFriendRequest, DbTypeOK, Row
<1>4. hideFriendRequest(u, v) => DbTypeOK'
  BY DEF hideFriendRequest, DbTypeOK
<1>5. removeFriendRequest(u, v) => DbTypeOK'
  BY DEF removeFriendRequest, DbTypeOK
<1>6. UNCHANGED dbVars => DbTypeOK'
  BY DEF dbVars, DbTypeOK
<1> QED
  BY <1>1, <1>2, <1>3, <1>4, <1>5, <1>6

\* The three SELECTs of names return a bag of names.
LEMMA QueriesTyped ==
  ASSUME DbTypeOK, NEW u \in User
  PROVE  /\ getFriendList(u) \in Names
         /\ getIncomingFriendRequests(u) \in Names
         /\ getOutgoingFriendRequests(u) \in Names
  BY DEF DbTypeOK, Names, getFriendList, getIncomingFriendRequests,
         getOutgoingFriendRequests

-----------------------------------------------------------------------------
(* One lemma per action that is not a move of one thread only *)

\* spin adds a connection to clientSockets and starts its thread.
LEMMA SpawnInv == ASSUME IInv, NEW c \in Conn, Spawn(c) PROVE IInv'
<1> DEFINE t == Fresh("recv")
<1>1. t \in Threads /\ t.pc = "recv" /\ t.connectedUser = NoUser
  BY FreshTyped DEF Labels, Fresh
<1>2. /\ thread \in [Conn -> Threads] /\ clientIDs \in [User -> [Conn -> Nat]]
      /\ live \subseteq Conn
  BY DEF IInv, TypeOK
<1>3. /\ thread' \in [Conn -> Threads] /\ thread'[c] = t
      /\ \A d \in Conn \ {c} : thread'[d] = thread[d]
      /\ live' = live \cup {c} /\ clientIDs' = clientIDs
      /\ thread[c].pc = "none" /\ me(c) = NoUser
  BY <1>1, <1>2 DEF Spawn, Becomes, IInv, LocalsOK, me
<1> HIDE DEF t
<1>4. TypeOK'
  BY <1>2, <1>3 DEF IInv, TypeOK, DbTypeOK, ClientsTypeOK, WorldTypeOK, Spawn,
     dbVars, clients, world
<1>5. \A d \in Conn : LocalsOK(thread'[d])
  BY <1>1, <1>3 DEF IInv, LocalsOK, UserLabels, AskingLabels, CredentialLabels
<1>6. \A d \in Conn : HoldsID(d)'
  BY <1>1, <1>3 DEF IInv, HoldsID, me
<1>7. SocketsExact'
  BY <1>1, <1>2, <1>3 DEF IInv, SocketsExact
<1>8. ~Relogin => RegistryExact'
  BY <1>1, <1>2, <1>3, NoUserAssumption DEF IInv, RegistryExact, me
<1> QED
  BY <1>4, <1>5, <1>6, <1>7, <1>8 DEF IInv, LocalsOK

\* A login or creation that succeeds adds one entry to clientIDs.
LEMMA RegisterInv == ASSUME IInv, NEW c \in Conn, Register(c) PROVE IInv'
<1> DEFINE t == [thread[c] EXCEPT !.connectedUser = you(c),
                   !.pc = IF thread[c].req.type = "create"
                            THEN "respond" ELSE "login_incoming"]
<1>1. /\ thread[c] \in Threads /\ thread[c].pc = "register" /\ you(c) \in User
      /\ ~Relogin => me(c) = NoUser
  BY DEF IInv, TypeOK, Register, At, LocalsOK, AskingLabels, CredentialLabels, you, me
<1>2. t \in Threads /\ t.pc \in {"respond", "login_incoming"} /\ t.connectedUser = you(c)
  BY <1>1 DEF Threads, Labels
<1>3. /\ thread \in [Conn -> Threads] /\ clientIDs \in [User -> [Conn -> Nat]]
      /\ live \subseteq Conn
  BY DEF IInv, TypeOK
<1>4. /\ thread' \in [Conn -> Threads] /\ thread'[c] = t
      /\ \A d \in Conn \ {c} : thread'[d] = thread[d]
      /\ live' = live
  BY <1>2, <1>3 DEF Register, Becomes
<1>5. /\ clientIDs' \in [User -> [Conn -> Nat]]
      /\ clientIDs'[you(c)][c] = clientIDs[you(c)][c] + 1
      /\ \A u \in User, d \in Conn : u # you(c) \/ d # c => clientIDs'[u][d] = clientIDs[u][d]
  BY <1>1, <1>3 DEF Register
<1> HIDE DEF t
<1>6. TypeOK'
  BY <1>3, <1>4, <1>5 DEF IInv, TypeOK, DbTypeOK, ClientsTypeOK, WorldTypeOK, Register,
     dbVars, clients, world
<1>7. \A d \in Conn : LocalsOK(thread'[d])
  BY <1>1, <1>2, <1>4 DEF IInv, LocalsOK, UserLabels, AskingLabels, CredentialLabels
<1>8. \A d \in Conn : HoldsID(d)'
  <2> SUFFICES ASSUME NEW d \in Conn PROVE HoldsID(d)'
    OBVIOUS
  <2>1. CASE d = c
    BY <1>1, <1>2, <1>3, <1>4, <1>5, <2>1 DEF HoldsID, me
  <2>2. CASE d # c
    <3>1. thread'[d] = thread[d] /\ thread[d].connectedUser \in User \cup {NoUser}
      BY <1>3, <1>4, <2>2 DEF Threads
    <3>2. \A u \in User : clientIDs'[u][d] = clientIDs[u][d]
      BY <1>5, <2>2
    <3> QED
      BY <3>1, <3>2 DEF IInv, HoldsID, me
  <2> QED
    BY <2>1, <2>2
<1>9. SocketsExact'
  BY <1>1, <1>2, <1>4 DEF IInv, SocketsExact
<1>10. ~Relogin => RegistryExact'
  <2> SUFFICES ASSUME ~Relogin, NEW u \in User, NEW d \in Conn
               PROVE  clientIDs'[u][d] = IF d \in live' /\ thread'[d].connectedUser = u THEN 1 ELSE 0
    BY DEF RegistryExact, me
  <2>1. clientIDs[u][d] = IF d \in live /\ thread[d].connectedUser = u THEN 1 ELSE 0
    BY DEF IInv, RegistryExact, me
  <2>2. c \in live /\ thread[c].connectedUser = NoUser
    BY <1>1 DEF IInv, SocketsExact, me
  <2>3. CASE d = c
    BY <1>1, <1>2, <1>4, <1>5, <2>1, <2>2, <2>3, NoUserAssumption
  <2>4. CASE d # c
    BY <1>4, <1>5, <2>1, <2>4
  <2> QED
    BY <2>3, <2>4
<1> QED
  BY <1>6, <1>7, <1>8, <1>9, <1>10 DEF IInv, LocalsOK

\* The end of handleClient erases its entries.
LEMMA CloseInv == ASSUME IInv, NEW c \in Conn, Close(c) PROVE IInv'
<1> DEFINE t == [Fresh("closed") EXCEPT !.connectedUser = me(c)]
<1>1. thread[c] \in Threads /\ thread[c].pc = "close" /\ me(c) \in User \cup {NoUser}
  BY DEF IInv, TypeOK, Close, At, Threads, me
<1>2. t \in Threads /\ t.pc = "closed" /\ t.connectedUser = me(c) /\ t.out = <<>>
  <2>1. /\ Fresh("closed") \in Threads /\ Fresh("closed").pc = "closed"
        /\ Fresh("closed").out = <<>>
    BY FreshTyped DEF Labels, Fresh
  <2> QED
    BY <1>1, <2>1 DEF Threads
<1>3. /\ thread \in [Conn -> Threads] /\ clientIDs \in [User -> [Conn -> Nat]]
      /\ live \subseteq Conn
  BY DEF IInv, TypeOK
<1>4. /\ thread' \in [Conn -> Threads] /\ thread'[c] = t
      /\ \A d \in Conn \ {c} : thread'[d] = thread[d]
      /\ live' = live \ {c}
  BY <1>2, <1>3 DEF Close, Becomes
<1>5. /\ clientIDs' \in [User -> [Conn -> Nat]]
      /\ me(c) \in User => clientIDs'[me(c)][c] = clientIDs[me(c)][c] - 1
      /\ \A u \in User, d \in Conn : u # me(c) \/ d # c => clientIDs'[u][d] = clientIDs[u][d]
  <2>1. CASE me(c) = NoUser
    BY <1>3, <2>1, NoUserAssumption DEF Close
  <2>2. CASE me(c) \in User
    <3>1. clientIDs[me(c)][c] \in Nat /\ clientIDs[me(c)][c] > 0
      BY <1>1, <1>3, <2>2, NoUserAssumption DEF IInv, HoldsID
    <3>2. clientIDs' = [clientIDs EXCEPT ![me(c)][c] = @ - 1]
      BY <2>2, NoUserAssumption DEF Close
    <3> QED
      BY <1>3, <2>2, <3>1, <3>2
  <2> QED
    BY <1>1, <2>1, <2>2
<1> HIDE DEF t
<1>6. TypeOK'
  BY <1>3, <1>4, <1>5 DEF IInv, TypeOK, DbTypeOK, ClientsTypeOK, WorldTypeOK, Close,
     dbVars, clients, world
<1>7. \A d \in Conn : LocalsOK(thread'[d])
  BY <1>2, <1>4 DEF IInv, LocalsOK, UserLabels, AskingLabels, CredentialLabels
<1>8. \A d \in Conn : HoldsID(d)'
  <2> SUFFICES ASSUME NEW d \in Conn PROVE HoldsID(d)'
    OBVIOUS
  <2>1. CASE d = c
    BY <1>2, <1>4, <2>1 DEF HoldsID
  <2>2. CASE d # c
    <3>1. thread'[d] = thread[d] /\ thread[d].connectedUser \in User \cup {NoUser}
      BY <1>3, <1>4, <2>2 DEF Threads
    <3>2. \A u \in User : clientIDs'[u][d] = clientIDs[u][d]
      BY <1>5, <2>2
    <3> QED
      BY <3>1, <3>2 DEF IInv, HoldsID, me
  <2> QED
    BY <2>1, <2>2
<1>9. SocketsExact'
  BY <1>1, <1>2, <1>4 DEF IInv, SocketsExact
<1>10. ~Relogin => RegistryExact'
  <2> SUFFICES ASSUME ~Relogin, NEW u \in User, NEW d \in Conn
               PROVE  clientIDs'[u][d] = IF d \in live' /\ thread'[d].connectedUser = u THEN 1 ELSE 0
    BY DEF RegistryExact, me
  <2>1. clientIDs[u][d] = IF d \in live /\ thread[d].connectedUser = u THEN 1 ELSE 0
    BY DEF IInv, RegistryExact, me
  <2>2. c \in live
    BY <1>1 DEF IInv, SocketsExact
  <2>3. CASE d = c
    BY <1>4, <1>5, <2>1, <2>2, <2>3 DEF me
  <2>4. CASE d # c
    BY <1>4, <1>5, <2>1, <2>4
  <2> QED
    BY <2>3, <2>4
<1> QED
  BY <1>6, <1>7, <1>8, <1>9, <1>10 DEF IInv, LocalsOK

\* The memory of a process that has just started, or has just died.
MemoryEmpty ==
  /\ clientIDs = NoIDs /\ live = {} /\ thread = AllFresh
  /\ status = AllUnknown /\ offers = NoOffers /\ received \in [Conn -> 0..MaxRequests]

\* A process that has just started satisfies the invariant, whatever is in
\* the database.
LEMMA FreshMemory == MemoryEmpty /\ DbTypeOK /\ WorldTypeOK => IInv
<1> SUFFICES ASSUME MemoryEmpty, DbTypeOK, WorldTypeOK PROVE IInv
  OBVIOUS
<1> USE DEF MemoryEmpty
<1>1. thread \in [Conn -> Threads]
  BY FreshTyped DEF AllFresh, Labels
<1>2. clientIDs \in [User -> [Conn -> Nat]]
  BY DEF NoIDs, NoTargets
<1>3. ClientsTypeOK
  BY BoundAssumption DEF ClientsTypeOK, AllUnknown, NoOffers, Nobody, Names
<1>4. TypeOK
  BY <1>1, <1>2, <1>3 DEF TypeOK
<1>5. \A c \in Conn : /\ thread[c].pc = "none" /\ thread[c].connectedUser = NoUser
                      /\ thread[c].out = <<>>
  BY DEF AllFresh, Fresh
<1>6. \A c \in Conn : LocalsOK(thread[c])
  BY <1>5 DEF LocalsOK, UserLabels, AskingLabels, CredentialLabels
<1>7. \A c \in Conn : HoldsID(c)
  BY <1>5 DEF HoldsID
<1>8. SocketsExact
  BY <1>5 DEF SocketsExact
<1>9. RegistryExact
  BY DEF RegistryExact, NoIDs, NoTargets
<1> QED
  BY <1>4, <1>6, <1>7, <1>8, <1>9 DEF IInv

\* What a process that is killed or crashes leaves behind.
LEMMA DownInv ==
  ASSUME IInv, NEW why \in {"crashed", "killed"}, Down(why),
         UNCHANGED <<dbVars, restarts>>, faults' \in 0..MaxFaults
  PROVE  IInv'
<1>1. DbTypeOK'
  BY DEF IInv, TypeOK, DbTypeOK, dbVars
<1>2. WorldTypeOK'
  BY DEF IInv, TypeOK, WorldTypeOK, Down
<1>3. MemoryEmpty'
  BY DEF IInv, TypeOK, ClientsTypeOK, Down, MemoryEmpty
<1> QED
  BY <1>1, <1>2, <1>3, FreshMemory, PTL

-----------------------------------------------------------------------------
(* Requests arriving *)

\* A request that arrives carries a name, and a password when it creates an
\* account; credentials come from those who are not logged in.
LEMMA ReceiveStep ==
  ASSUME IInv, NEW c \in Conn, NEW r \in Requests, Receive(c, r),
         r.type \in Kinds, r.name \in User,
         r.type = "create" => r.pass \in Password,
         r.type \in {"create", "login"} /\ ~Relogin => me(c) = NoUser,
         r.type \notin {"create", "login"} => me(c) \in User,
         offers' \in [Conn -> Names]
  PROVE  IInv'
<1> DEFINE t == [thread[c] EXCEPT !.pc = Case(r.type), !.req = r]
<1>1. thread[c] \in Threads /\ thread[c].pc = "recv"
  BY DEF IInv, TypeOK, Receive, At
<1>2. /\ Case(r.type) \in Labels \ {"none", "closed"}
      /\ Case(r.type) \in CredentialLabels => r.type \in {"create", "login"}
      /\ Case(r.type) \in UserLabels => r.type \notin {"create", "login"}
      /\ Case(r.type) \in {"create_check", "create_insert"} => r.type = "create"
  BY DEF Case, Kinds, Labels, CredentialLabels, UserLabels
<1>3. t \in Threads /\ t.pc = Case(r.type) /\ t.connectedUser = me(c) /\ t.req = r
  BY <1>1, <1>2 DEF Threads, me
<1>4. LocalsOK(t)
  BY <1>2, <1>3 DEF LocalsOK
<1>5. DbTypeOK' /\ WorldTypeOK'
  BY DEF IInv, TypeOK, DbTypeOK, WorldTypeOK, Receive, dbVars, world
<1>6. ClientsTypeOK'
  <2>1. received \in [Conn -> 0..MaxRequests] /\ received[c] + 1 \in 0..MaxRequests
    BY BoundAssumption DEF IInv, TypeOK, ClientsTypeOK, Receive
  <2>2. received' \in [Conn -> 0..MaxRequests]
    BY <2>1 DEF Receive
  <2> QED
    BY <2>2 DEF IInv, TypeOK, ClientsTypeOK, Receive
<1>7. Becomes(c, t) /\ UNCHANGED registry
  BY DEF Receive
<1> HIDE DEF t
<1> QED
  BY <1>1, <1>2, <1>3, <1>4, <1>5, <1>6, <1>7, RunningStep

\* Every kind of request the clients send.
LEMMA ReceiveInv ==
  ASSUME IInv, NEW c \in Conn, NEW u \in User,
         \/ \E p \in Password, type \in {"create", "login"} :
              ReceiveCredentials(c, type, u, p)
         \/ ReceiveAsk(c, u)
         \/ ReceiveMessage(c, u)
         \/ \E type \in {"accept", "reject", "hide"} : ReceiveAcknowledge(c, type, u)
  PROVE  IInv'
<1>1. /\ me(c) # NoUser => me(c) \in User
      /\ offers \in [Conn -> Names]
  BY DEF IInv, TypeOK, ClientsTypeOK, Threads, me
<1> DEFINE Req(k, p) == [type |-> k, name |-> u, pass |-> p]
<1>2. \A k \in Kinds, p \in Password \cup {NoPassword} :
         /\ Req(k, p) \in Requests /\ Req(k, p).type = k
         /\ Req(k, p).name = u /\ Req(k, p).pass = p
  BY DEF Requests
<1>3. ASSUME NEW p \in Password, NEW type \in {"create", "login"},
             ReceiveCredentials(c, type, u, p)
      PROVE  IInv'
  <2>1. Receive(c, Req(type, p)) /\ offers' \in [Conn -> Names]
        /\ (~Relogin => me(c) = NoUser)
    BY <1>1, <1>3 DEF ReceiveCredentials
  <2>2. type \in Kinds
    BY DEF Kinds
  <2> HIDE DEF Req
  <2> QED
    BY <1>2, <2>1, <2>2, ReceiveStep
<1>4. ASSUME NEW k \in Kinds \ {"create", "login"}, me(c) # NoUser,
             Receive(c, Req(k, NoPassword)), offers' \in [Conn -> Names]
      PROVE  IInv'
  <2> HIDE DEF Req
  <2> QED
    BY <1>1, <1>2, <1>4, ReceiveStep
<1>5. ASSUME ReceiveAsk(c, u) \/ ReceiveMessage(c, u) PROVE IInv'
  BY <1>1, <1>4, <1>5 DEF ReceiveAsk, ReceiveMessage, Kinds
<1>6. ASSUME NEW type \in {"accept", "reject", "hide"}, ReceiveAcknowledge(c, type, u)
      PROVE  IInv'
  <2>1. offers[c][u] \in Nat /\ offers[c][u] > 0
    BY <1>1, <1>6 DEF ReceiveAcknowledge, Names
  <2>2. [offers[c] EXCEPT ![u] = @ - 1] \in Names
    BY <1>1, <2>1 DEF Names
  <2>3. offers' \in [Conn -> Names]
    BY <1>1, <1>6, <2>2 DEF ReceiveAcknowledge
  <2> QED
    BY <1>4, <1>6, <2>3 DEF ReceiveAcknowledge, Kinds
<1> QED
  BY <1>3, <1>5, <1>6

\* The default case of the switch.
LEMMA ReceiveInvalidInv == ASSUME IInv, NEW c \in Conn, ReceiveInvalid(c) PROVE IInv'
<1>1. "close" \in Labels \ {"none", "closed"} /\ thread[c].pc = "recv"
  BY DEF Labels, ReceiveInvalid, At
<1>2. LocalsOK(To(c, "close"))
  BY <1>1, Moved DEF LocalsOK, UserLabels, AskingLabels, CredentialLabels
<1> QED
  BY <1>1, <1>2, GotoStep DEF ReceiveInvalid

-----------------------------------------------------------------------------
(* Accounts and logins *)

\* The two statements of CREATE_ACCOUNT.
LEMMA CreateInv ==
  ASSUME IInv, NEW c \in Conn, CreateCheck(c) \/ CreateInsert(c) PROVE IInv'
<1>1. /\ thread[c].pc \in {"create_check", "create_insert"}
      /\ you(c) \in User /\ thread[c].req.pass \in Password
      /\ ~Relogin => me(c) = NoUser
  BY DEF IInv, CreateCheck, CreateInsert, At, LocalsOK, AskingLabels, CredentialLabels, you, me
<1>2. {"create_insert", "register"} \subseteq Labels
  BY DEF Labels
<1>3. CASE CreateCheck(c)
  <2>1. LocalsOK(To(c, "create_insert"))
    BY <1>1, <1>2, Moved DEF LocalsOK, UserLabels, you
  <2> QED
    BY <1>1, <1>2, <1>3, <2>1, GotoStep, AnswerStep DEF CreateCheck
<1>4. CASE CreateInsert(c)
  <2> DEFINE t == [To(c, "register") EXCEPT !.resp = "yes"]
             f == Replying(c, "no")
  <2>1. /\ t \in Threads /\ t.pc = "register" /\ t.connectedUser = me(c)
        /\ t.req = thread[c].req
    <3>1. /\ To(c, "register") \in Threads /\ To(c, "register").pc = "register"
          /\ To(c, "register").connectedUser = me(c)
          /\ To(c, "register").req = thread[c].req
      BY <1>2, Moved
    <3> QED
      BY <3>1 DEF Threads
  <2>2. LocalsOK(t)
    BY <1>1, <2>1 DEF LocalsOK, UserLabels, you
  <2>3. f \in Threads /\ f.pc = "respond" /\ f.connectedUser = me(c)
    BY <1>2, Moved
  <2>4. LocalsOK(f)
    BY <2>3 DEF LocalsOK, UserLabels, AskingLabels, CredentialLabels
  <2>5. DbTypeOK'
    BY <1>1, <1>4, StatementsTyped DEF CreateInsert, Run, IInv, TypeOK
  <2>6. (Becomes(c, t) /\ NoFault) \/ (Becomes(c, f) /\ Fault)
    BY <1>4 DEF CreateInsert, Run
  <2>7. UNCHANGED <<registry, clients>>
    BY <1>4 DEF CreateInsert, Run
  <2> HIDE DEF t, f
  <2> QED
    BY <1>1, <2>1, <2>2, <2>3, <2>4, <2>5, <2>6, <2>7, DatabaseStep
<1> QED
  BY <1>3, <1>4

\* The two queries of LOGIN_REQUEST.
LEMMA LoginInv ==
  ASSUME IInv, NEW c \in Conn, LoginCheck(c) \/ LoginPassword(c) PROVE IInv'
<1>1. /\ thread[c].pc \in {"login_check", "login_password"}
      /\ you(c) \in User
      /\ ~Relogin => me(c) = NoUser
  BY DEF IInv, LoginCheck, LoginPassword, At, LocalsOK, AskingLabels, CredentialLabels, you, me
<1>2. {"login_password", "register"} \subseteq Labels
  BY DEF Labels
<1>3. CASE LoginCheck(c)
  <2>1. LocalsOK(To(c, "login_password"))
    BY <1>1, <1>2, Moved DEF LocalsOK, UserLabels, you
  <2> QED
    BY <1>1, <1>2, <1>3, <2>1, GotoStep, AnswerStep DEF LoginCheck
<1>4. CASE LoginPassword(c)
  <2> DEFINE t == [To(c, "register") EXCEPT !.resp = "yes"]
  <2>1. /\ t \in Threads /\ t.pc = "register" /\ t.connectedUser = me(c)
        /\ t.req = thread[c].req
    <3>1. /\ To(c, "register") \in Threads /\ To(c, "register").pc = "register"
          /\ To(c, "register").connectedUser = me(c)
          /\ To(c, "register").req = thread[c].req
      BY <1>2, Moved
    <3> QED
      BY <3>1 DEF Threads
  <2>2. LocalsOK(t)
    BY <1>1, <2>1 DEF LocalsOK, UserLabels, you
  <2>3. /\ Becomes(c, t) \/ Answer(c, "no")
        /\ Fault \/ NoFault
        /\ UNCHANGED <<dbVars, registry, clients>>
    BY <1>4 DEF LoginPassword
  <2> HIDE DEF t
  <2> QED
    BY <1>1, <2>1, <2>2, <2>3, LocalStep, AnswerStep
<1> QED
  BY <1>3, <1>4

\* The loops over the results of queries, at login and at the end.
LEMMA LoopsInv ==
  ASSUME IInv, NEW c \in Conn,
         \/ LoginIncoming(c) \/ LoginOutgoing(c) \/ LoginFriends(c) \/ ByeFriends(c)
         \/ \E n \in User : \/ EachIncoming(c, n) \/ EachOutgoing(c, n)
                            \/ EachFriend(c, n) \/ EachBye(c, n)
  PROVE  IInv'
<1>1. DbTypeOK
  BY DEF IInv, TypeOK
<1>2. CASE LoginIncoming(c) \/ LoginOutgoing(c) \/ LoginFriends(c) \/ ByeFriends(c)
  <2>1. thread[c].pc \in UserLabels
    BY <1>2 DEF LoginIncoming, LoginOutgoing, LoginFriends, ByeFriends, At, UserLabels
  <2>2. me(c) \in User
    BY <2>1 DEF IInv, LocalsOK, me
  <2>3. PICK l \in {"each_incoming", "each_outgoing", "each_friend", "each_bye"},
             b \in Names : Walk(c, l, b)
    BY <1>1, <1>2, <2>2, QueriesTyped
    DEF LoginIncoming, LoginOutgoing, LoginFriends, ByeFriends
  <2> QED
    BY <2>1, <2>3, WalkStep
<1>3. ASSUME NEW n \in User,
             EachIncoming(c, n) \/ EachOutgoing(c, n) \/ EachFriend(c, n) \/ EachBye(c, n)
      PROVE  IInv'
  <2>1. thread[c].pc \in {"each_incoming", "each_outgoing", "each_friend", "each_bye"}
    BY <1>3 DEF EachIncoming, EachOutgoing, EachFriend, EachBye, At
  <2>2. me(c) \in User
    BY <2>1 DEF IInv, LocalsOK, me, UserLabels
  <2>3. \A p \in PacketTypes : Call(me(c), p, n) \in Calls /\ Call(n, p, me(c)) \in Calls
    BY <2>2, CallTyped
  <2>4. /\ \A p \in PacketTypes : /\ <<Call(me(c), p, n)>> \in Seq(Calls)
                                  /\ <<Call(n, p, me(c))>> \in Seq(Calls)
        /\ \A p, q \in PacketTypes : <<Call(me(c), p, n), Call(n, q, me(c))>> \in Seq(Calls)
        /\ <<>> \in Seq(Calls)
    BY <2>3
  <2>5. PICK o \in Seq(Calls) : Visit(c, n, o)
    <3> HIDE DEF Call, PacketTypes, Calls
    <3>1. {"ONLINE", "OFFLINE", "FORWARD", "PENDING"} \subseteq PacketTypes
      BY DEF PacketTypes
    <3>2. CASE EachIncoming(c, n)
      BY <2>4, <3>1, <3>2 DEF EachIncoming
    <3>3. CASE EachOutgoing(c, n)
      BY <2>4, <3>1, <3>3 DEF EachOutgoing
    <3>4. CASE EachFriend(c, n)
      BY <2>4, <3>1, <3>4 DEF EachFriend
    <3>5. CASE EachBye(c, n)
      BY <2>4, <3>1, <3>5 DEF EachBye
    <3> QED
      BY <1>3, <3>2, <3>3, <3>4, <3>5
  <2> QED
    BY <2>1, <2>5, VisitStep
<1> QED
  BY <1>2, <1>3

-----------------------------------------------------------------------------
(* Friend requests and messages *)

\* The calls a request makes, all between its user and the name in it.
LEMMA RequestCalls ==
  ASSUME NEW u \in User, NEW v \in User
  PROVE  /\ <<>> \in Seq(Calls)
         /\ \A p \in PacketTypes : /\ <<Call(u, p, v)>> \in Seq(Calls)
                                  /\ <<Call(v, p, u)>> \in Seq(Calls)
         /\ \A p, q, r \in PacketTypes :
               <<Call(u, p, v), Call(v, q, u), Call(v, r, u)>> \in Seq(Calls)
<1>1. \A p \in PacketTypes : Call(u, p, v) \in Calls /\ Call(v, p, u) \in Calls
  BY CallTyped
<1> QED
  BY <1>1

\* A move to l with calls o to make first.
LEMMA CallingStep ==
  ASSUME IInv, NEW c \in Conn, NEW l \in Labels \ {"none", "closed"},
         NEW o \in Seq(Calls), LocalsOK(To(c, l)),
         Becomes(c, [To(c, l) EXCEPT !.out = o]),
         thread[c].pc \notin {"none", "closed"},
         UNCHANGED <<dbVars, registry, clients>>, Fault \/ NoFault
  PROVE  IInv'
<1> DEFINE t == [To(c, l) EXCEPT !.out = o]
<1>1. To(c, l) \in Threads /\ To(c, l).pc = l /\ To(c, l).connectedUser = me(c)
  BY Moved
<1>2. /\ t \in Threads /\ t.pc = l /\ t.connectedUser = me(c)
      /\ t.req = To(c, l).req
  BY <1>1 DEF Threads
<1>3. LocalsOK(t)
  BY <1>1, <1>2 DEF LocalsOK
<1> HIDE DEF t
<1>4. Becomes(c, t)
  BY DEF t
<1> QED
  BY <1>2, <1>3, <1>4, LocalStep

\* The two statements of FRIEND_REQUEST_SEND.
LEMMA AskInv ==
  ASSUME IInv, NEW c \in Conn, AskCheck(c) \/ AskInsert(c) PROVE IInv'
<1>1. /\ thread[c].pc \in {"ask_check", "ask_insert"}
      /\ you(c) \in User /\ me(c) \in User
  BY DEF IInv, AskCheck, AskInsert, At, LocalsOK, AskingLabels, UserLabels, you, me
<1>2. {"ask_insert", "respond"} \subseteq Labels
  BY DEF Labels
<1>3. CASE AskCheck(c)
  <2>1. LocalsOK(To(c, "ask_insert"))
    BY <1>1, <1>2, Moved DEF LocalsOK, CredentialLabels, you
  <2> QED
    BY <1>1, <1>2, <1>3, <2>1, GotoStep, AnswerStep DEF AskCheck
<1>4. CASE AskInsert(c)
  <2> DEFINE f == Replying(c, "no")
             t == [Replying(c, "yes") EXCEPT !.out = <<Call(you(c), "FORWARD", me(c))>>]
  <2>1. <<Call(you(c), "FORWARD", me(c))>> \in Seq(Calls)
    BY <1>1, RequestCalls DEF PacketTypes
  <2>2. t \in Threads /\ t.pc = "respond" /\ t.connectedUser = me(c)
    <3>1. /\ Replying(c, "yes") \in Threads /\ Replying(c, "yes").pc = "respond"
          /\ Replying(c, "yes").connectedUser = me(c)
      BY <1>2, Moved
    <3> QED
      BY <2>1, <3>1 DEF Threads
  <2>3. f \in Threads /\ f.pc = "respond" /\ f.connectedUser = me(c)
    BY <1>2, Moved
  <2>4. LocalsOK(t) /\ LocalsOK(f)
    BY <2>2, <2>3 DEF LocalsOK, UserLabels, AskingLabels, CredentialLabels
  <2>5. DbTypeOK'
    BY <1>1, <1>4, StatementsTyped DEF AskInsert, Run, IInv, TypeOK
  <2>6. /\ (Becomes(c, t) /\ NoFault) \/ (Becomes(c, f) /\ Fault)
        /\ UNCHANGED <<registry, clients>>
    BY <1>4 DEF AskInsert, Run
  <2> HIDE DEF t, f
  <2> QED
    BY <1>1, <2>2, <2>3, <2>4, <2>5, <2>6, DatabaseStep
<1> QED
  BY <1>3, <1>4

\* The steps of FRIEND_REQUEST_ACKNOWLEDGE.
LEMMA AnswerRequestInv ==
  ASSUME IInv, NEW c \in Conn,
         \/ AcceptRemove(c) \/ AcceptFirst(c) \/ AcceptSecond(c) \/ AcceptAnnounce(c)
         \/ RejectTell(c) \/ RejectRemove(c) \/ Hide(c)
  PROVE  IInv'
<1>1. /\ thread[c].pc \in {"accept_remove", "accept_first", "accept_second",
                           "accept_announce", "reject_tell", "reject_remove", "hide"}
      /\ you(c) \in User
      /\ me(c) \in User
  BY DEF IInv, AcceptRemove, AcceptFirst, AcceptSecond, AcceptAnnounce, RejectTell,
     RejectRemove, Hide, At, LocalsOK, AskingLabels, UserLabels, you, me
<1> DEFINE Next1 == {"accept_first", "accept_second", "accept_announce",
                     "reject_remove", "respond"}
<1>2. Next1 \subseteq Labels \ {"none", "closed"}
  BY DEF Labels
<1>3. \A l \in Next1 :
        /\ To(c, l) \in Threads /\ To(c, l).pc = l /\ To(c, l).connectedUser = me(c)
        /\ LocalsOK(To(c, l))
  <2> SUFFICES ASSUME NEW l \in Next1
               PROVE  /\ To(c, l) \in Threads /\ To(c, l).pc = l
                      /\ To(c, l).connectedUser = me(c)
                      /\ LocalsOK(To(c, l))
    OBVIOUS
  <2>1. /\ To(c, l) \in Threads /\ To(c, l).pc = l /\ To(c, l).connectedUser = me(c)
        /\ To(c, l).req = thread[c].req
    BY <1>2, Moved
  <2> QED
    BY <1>1, <2>1 DEF LocalsOK, CredentialLabels, you
<1>4. ASSUME NEW l \in Next1, NEW m \in Next1, DbTypeOK', UNCHANGED <<registry, clients>>,
             \/ Becomes(c, To(c, l)) /\ NoFault
             \/ Becomes(c, To(c, m)) /\ Fault
      PROVE  IInv'
  BY <1>1, <1>2, <1>3, <1>4, DatabaseStep
<1>5. CASE AcceptRemove(c)
  BY <1>1, <1>4, <1>5, StatementsTyped DEF AcceptRemove, Run, IInv, TypeOK
<1>6. CASE AcceptFirst(c)
  BY <1>1, <1>4, <1>6, StatementsTyped DEF AcceptFirst, Run, IInv, TypeOK
<1>7. CASE AcceptSecond(c)
  BY <1>1, <1>4, <1>7, StatementsTyped DEF AcceptSecond, Run, IInv, TypeOK
<1>8. CASE RejectRemove(c)
  BY <1>1, <1>4, <1>8, StatementsTyped DEF RejectRemove, Run, IInv, TypeOK
<1>9. CASE Hide(c)
  BY <1>1, <1>4, <1>9, StatementsTyped DEF Hide, Run, IInv, TypeOK
<1>10. PacketTypes = {"ONLINE", "OFFLINE", "FORWARD", "PENDING", "ACCEPT", "REJECT", "MESSAGE"}
  BY DEF PacketTypes
<1>11. CASE AcceptAnnounce(c)
  <2>1. PICK o \in Seq(Calls) : Becomes(c, [To(c, "respond") EXCEPT !.out = o])
    BY <1>1, <1>10, <1>11, RequestCalls DEF AcceptAnnounce
  <2> QED
    BY <1>1, <1>2, <1>3, <1>11, <2>1, CallingStep DEF AcceptAnnounce, NoFault
<1>12. CASE RejectTell(c)
  <2>1. PICK o \in Seq(Calls) : Becomes(c, [To(c, "reject_remove") EXCEPT !.out = o])
    BY <1>1, <1>10, <1>12, RequestCalls DEF RejectTell
  <2> QED
    BY <1>1, <1>2, <1>3, <1>12, <2>1, CallingStep DEF RejectTell, NoFault
<1> QED
  BY <1>5, <1>6, <1>7, <1>8, <1>9, <1>11, <1>12

\* MESSAGE_SEND.
LEMMA MessageInv == ASSUME IInv, NEW c \in Conn, MessageCheck(c) PROVE IInv'
<1>1. /\ thread[c].pc = "message_check"
      /\ you(c) \in User
      /\ me(c) \in User
  BY DEF IInv, MessageCheck, At, LocalsOK, AskingLabels, UserLabels, you, me
<1>2. UNCHANGED <<dbVars, registry, clients>> /\ NoFault
  BY DEF MessageCheck, NoFault
<1> DEFINE t == [Replying(c, "yes") EXCEPT !.out = <<Call(you(c), "MESSAGE", me(c))>>]
<1>3. <<Call(you(c), "MESSAGE", me(c))>> \in Seq(Calls)
  BY <1>1, RequestCalls DEF PacketTypes
<1>4. t \in Threads /\ t.pc = "respond" /\ t.connectedUser = me(c)
  <2>1. /\ Replying(c, "yes") \in Threads /\ Replying(c, "yes").pc = "respond"
        /\ Replying(c, "yes").connectedUser = me(c)
    BY Moved DEF Labels
  <2> QED
    BY <1>3, <2>1 DEF Threads
<1>5. LocalsOK(t)
  BY <1>4 DEF LocalsOK, UserLabels, AskingLabels, CredentialLabels
<1>6. Becomes(c, t) \/ Answer(c, "no")
  BY DEF MessageCheck
<1> HIDE DEF t
<1> QED
  BY <1>1, <1>2, <1>4, <1>5, <1>6, LocalStep, AnswerStep

\* The answer to a request.
LEMMA RespondInv == ASSUME IInv, NEW c \in Conn, Respond(c) PROVE IInv'
<1>1. thread[c].pc = "respond" /\ me(c) \in User \cup {NoUser}
  BY DEF IInv, TypeOK, Respond, At, Threads, me
<1>2. {"recv", "close"} \subseteq Labels
  BY DEF Labels
<1> DEFINE t == [Fresh("recv") EXCEPT !.connectedUser = me(c)]
<1>3. t \in Threads /\ t.pc = "recv" /\ t.connectedUser = me(c)
  <2>1. Fresh("recv") \in Threads /\ Fresh("recv").pc = "recv"
    BY <1>2, FreshTyped DEF Fresh
  <2> QED
    BY <1>1, <2>1 DEF Threads
<1>4. LocalsOK(t)
  BY <1>3 DEF LocalsOK, UserLabels, AskingLabels, CredentialLabels
<1>5. LocalsOK(To(c, "close"))
  BY <1>2, Moved DEF LocalsOK, UserLabels, AskingLabels, CredentialLabels
<1>6. /\ (Becomes(c, t) /\ NoFault) \/ (Goto(c, "close") /\ Fault)
      /\ UNCHANGED <<dbVars, registry, clients>>
  BY DEF Respond, BackToRecv
<1> HIDE DEF t
<1> QED
  BY <1>1, <1>2, <1>3, <1>4, <1>5, <1>6, LocalStep, GotoStep

\* The ends of the loops, and recv returning 0 or an error.
LEMMA MoveInv ==
  ASSUME IInv, NEW c \in Conn, LoginDone(c) \/ ByeDone(c) \/ Disconnected(c)
  PROVE  IInv'
<1>1. thread[c].pc \in {"each_friend", "each_bye", "recv"} /\ me(c) \in User \cup {NoUser}
  BY DEF IInv, TypeOK, LoginDone, ByeDone, Disconnected, At, Threads, me
<1>2. {"respond", "close", "bye_friends"} \subseteq Labels
  BY DEF Labels
<1>3. LocalsOK(To(c, "respond")) /\ LocalsOK(To(c, "close"))
  BY <1>2, Moved DEF LocalsOK, UserLabels, AskingLabels, CredentialLabels
<1>4. me(c) # NoUser => LocalsOK(To(c, "bye_friends"))
  BY <1>1, <1>2, Moved DEF LocalsOK, AskingLabels, CredentialLabels
<1>5. /\ UNCHANGED <<dbVars, registry, clients>> /\ NoFault
      /\ Goto(c, "respond") \/ Goto(c, "close") \/ (me(c) # NoUser /\ Goto(c, "bye_friends"))
  BY DEF LoginDone, ByeDone, Disconnected, NoFault
<1> QED
  BY <1>1, <1>2, <1>3, <1>4, <1>5, GotoStep

-----------------------------------------------------------------------------
(* sendOutPacket *)

\* A thread that is sending is running.
LEMMA SenderRuns ==
  ASSUME IInv, NEW c \in Conn, Sending(c)
  PROVE  /\ thread[c] \in Threads
         /\ thread[c].pc \notin {"none", "closed"}
         /\ Head(thread[c].out) \in Calls
         /\ Tail(thread[c].out) \in Seq(Calls)
<1>1. thread[c] \in Threads /\ thread[c].out # <<>>
  BY DEF IInv, TypeOK, Sending
<1>2. thread[c].out \in Seq(Calls)
  BY <1>1 DEF Threads
<1>3. thread[c].pc \notin {"none", "closed"}
  BY <1>1 DEF IInv, LocalsOK
<1> QED
  BY <1>1, <1>2, <1>3

\* Sending changes none of the locals that matter.
LEMMA SendingStep ==
  ASSUME IInv, NEW c \in Conn, Sending(c), NEW o \in Seq(Calls),
         NEW i \in [Conn -> Nat], NEW b \in BOOLEAN,
         Becomes(c, [thread[c] EXCEPT !.out = o, !.targetIDs = i, !.reached = b]),
         UNCHANGED <<dbVars, registry>>, ClientsTypeOK', Fault \/ NoFault
  PROVE  IInv'
<1> DEFINE t == [thread[c] EXCEPT !.out = o, !.targetIDs = i, !.reached = b]
<1>1. thread[c] \in Threads /\ thread[c].pc \notin {"none", "closed"}
  BY SenderRuns
<1>2. t \in Threads /\ t.pc = thread[c].pc /\ t.connectedUser = me(c)
      /\ t.req = thread[c].req
  BY <1>1 DEF Threads, me
<1>3. Becomes(c, t)
  OBVIOUS
<1> HIDE DEF t
<1>4. LocalsOK(t)
  BY <1>1, <1>2 DEF IInv, LocalsOK, me
<1>5. DbTypeOK' /\ WorldTypeOK'
  BY BoundAssumption DEF IInv, TypeOK, DbTypeOK, dbVars, WorldTypeOK, Fault, NoFault, world
<1> QED
  BY <1>1, <1>2, <1>3, <1>4, <1>5, RunningStep

\* sendOutPacket copies the targets of a call.
LEMMA CollectInv == ASSUME IInv, NEW c \in Conn, Collect(c) PROVE IInv'
<1> DEFINE ids == clientIDs[Head(thread[c].out).to]
<1>1. Sending(c)
  BY DEF Collect
<1>2. /\ thread[c] \in Threads /\ thread[c].pc \notin {"none", "closed"}
      /\ Head(thread[c].out) \in Calls /\ Tail(thread[c].out) \in Seq(Calls)
      /\ thread[c].out \in Seq(Calls) /\ thread[c].reached \in BOOLEAN
  BY <1>1, SenderRuns DEF Threads
<1>3. ids \in [Conn -> Nat] /\ NoTargets \in [Conn -> Nat]
  BY <1>2 DEF IInv, TypeOK, Calls, NoTargets
<1>4. UNCHANGED <<dbVars, registry>> /\ ClientsTypeOK' /\ NoFault
  BY DEF Collect, NoFault, IInv, TypeOK, ClientsTypeOK, clients
<1>5. CASE Becomes(c, Returned(c))
  <2>1. Returned(c) = [thread[c] EXCEPT !.out = Tail(thread[c].out),
                         !.targetIDs = NoTargets, !.reached = thread[c].reached]
    BY <1>2 DEF Returned, Threads
  <2>2. Becomes(c, [thread[c] EXCEPT !.out = Tail(thread[c].out),
                      !.targetIDs = NoTargets, !.reached = thread[c].reached])
    BY <1>5, <2>1
  <2>3. Tail(thread[c].out) \in Seq(Calls) /\ thread[c].reached \in BOOLEAN
    BY <1>2
  <2> QED
    BY <1>1, <1>3, <1>4, <2>2, <2>3, SendingStep
<1>6. CASE Becomes(c, [thread[c] EXCEPT !.targetIDs = ids])
  <2>1. [thread[c] EXCEPT !.targetIDs = ids] =
          [thread[c] EXCEPT !.out = thread[c].out, !.targetIDs = ids,
                            !.reached = thread[c].reached]
    BY <1>2 DEF Threads
  <2>2. Becomes(c, [thread[c] EXCEPT !.out = thread[c].out, !.targetIDs = ids,
                      !.reached = thread[c].reached])
    BY <1>6, <2>1
  <2>3. thread[c].out \in Seq(Calls) /\ thread[c].reached \in BOOLEAN
    BY <1>2
  <2> QED
    BY <1>1, <1>3, <1>4, <2>2, <2>3, SendingStep
<1>7. Becomes(c, Returned(c)) \/ Becomes(c, [thread[c] EXCEPT !.targetIDs = ids])
  BY DEF Collect
<1> QED
  BY <1>5, <1>6, <1>7

\* What a client learns from a packet has its type.
LEMMA LearnsTyped ==
  ASSUME ClientsTypeOK, NEW k \in Conn, NEW p \in Calls, Learns(k, p), received' = received
  PROVE  ClientsTypeOK'
<1>1. p.name \in User /\ p.type \in PacketTypes
  BY DEF Calls
<1>2. status' \in [Conn -> [User -> {"unknown", "ONLINE", "OFFLINE"}]]
  BY <1>1 DEF ClientsTypeOK, Learns
<1>3. offers' \in [Conn -> Names]
  <2>1. offers[k] \in Names
    BY DEF ClientsTypeOK
  <2>2. [offers[k] EXCEPT ![p.name] = @ + 1] \in Names
    BY <1>1, <2>1 DEF Names
  <2> QED
    BY <2>2 DEF ClientsTypeOK, Learns
<1> QED
  BY <1>2, <1>3 DEF ClientsTypeOK

\* sendOutPacket serves one target.
LEMMA DeliverInv ==
  ASSUME IInv, NEW c \in Conn, NEW k \in Conn, Deliver(c, k) PROVE IInv'
<1> DEFINE p == Head(thread[c].out)
           left == [thread[c].targetIDs EXCEPT ![k] = @ - 1]
           heard == thread[c].reached \/ p.type = "MESSAGE"
           one == [thread[c] EXCEPT !.targetIDs = left, !.reached = heard]
<1>1. Sending(c)
  BY DEF Deliver
<1>2. /\ thread[c] \in Threads /\ thread[c].pc \notin {"none", "closed"}
      /\ p \in Calls /\ Tail(thread[c].out) \in Seq(Calls)
      /\ thread[c].out \in Seq(Calls)
  BY <1>1, SenderRuns DEF Threads
<1>3. left \in [Conn -> Nat] /\ heard \in BOOLEAN
  BY <1>2 DEF Deliver, Threads
<1>4. UNCHANGED <<dbVars, registry, received>> /\ (Fault \/ NoFault)
      /\ (Learns(k, p) \/ UNCHANGED <<status, offers>>)
  BY DEF Deliver
<1>5. ClientsTypeOK'
  BY <1>2, <1>4, LearnsTyped DEF IInv, TypeOK, ClientsTypeOK
<1>6. Becomes(c, IF left = NoTargets THEN [one EXCEPT !.out = Tail(@)] ELSE one)
  BY DEF Deliver, Served
<1>7. one = [thread[c] EXCEPT !.out = thread[c].out, !.targetIDs = left, !.reached = heard]
  BY <1>2 DEF Threads
<1>8. [one EXCEPT !.out = Tail(@)] =
        [thread[c] EXCEPT !.out = Tail(thread[c].out), !.targetIDs = left, !.reached = heard]
  BY <1>2 DEF Threads
<1> HIDE DEF one, left, heard, p
<1>9. CASE left = NoTargets
  <2>1. Becomes(c, [thread[c] EXCEPT !.out = Tail(thread[c].out), !.targetIDs = left,
                                     !.reached = heard])
    BY <1>6, <1>8, <1>9
  <2>2. Tail(thread[c].out) \in Seq(Calls)
    BY <1>2
  <2> QED
    BY <1>1, <1>3, <1>4, <1>5, <2>1, <2>2, SendingStep
<1>10. CASE left # NoTargets
  BY <1>1, <1>2, <1>3, <1>4, <1>5, <1>6, <1>7, <1>10, SendingStep
<1> QED
  BY <1>9, <1>10

-----------------------------------------------------------------------------
(* The process, and all together *)

\* The process ends, or starts again.
LEMMA ProcessInv ==
  ASSUME IInv,
         \/ Kill \/ Restart
         \/ \E c \in Conn : SendRaisesSignal(c) \/ \E k \in Conn : DeliverToErased(c, k)
  PROVE  IInv'
<1>1. faults \in 0..MaxFaults
  BY DEF IInv, TypeOK, WorldTypeOK
<1>2. CASE Kill
  BY <1>1, <1>2, DownInv DEF Kill
<1>3. ASSUME NEW c \in Conn, SendRaisesSignal(c) PROVE IInv'
  BY <1>1, <1>3, BoundAssumption, DownInv DEF SendRaisesSignal
<1>4. ASSUME NEW c \in Conn, NEW k \in Conn, DeliverToErased(c, k) PROVE IInv'
  BY <1>1, <1>4, DownInv DEF DeliverToErased
<1>5. CASE Restart
  <2>1. UNCHANGED <<dbVars, registry, thread, clients, faults>>
    BY <1>5 DEF Restart
  <2>2. WorldTypeOK'
    BY <1>5, BoundAssumption DEF Restart, IInv, TypeOK, WorldTypeOK
  <2> QED
    BY <2>1, <2>2 DEF IInv, TypeOK, DbTypeOK, ClientsTypeOK, LocalsOK, HoldsID,
       SocketsExact, RegistryExact, dbVars, registry, clients, me
<1> QED
  BY <1>2, <1>3, <1>4, <1>5

\* The invariant holds at the start.
LEMMA InitInv == Init => IInv
<1> SUFFICES ASSUME Init PROVE IInv
  OBVIOUS
<1>1. DbTypeOK
  BY RegisteredAssumption DEF Init, DbTypeOK, Names
<1>2. WorldTypeOK
  BY BoundAssumption DEF Init, WorldTypeOK
<1>3. received \in [Conn -> 0..MaxRequests]
  BY BoundAssumption DEF Init
<1>4. MemoryEmpty
  BY <1>3 DEF Init, MemoryEmpty
<1> QED
  BY <1>1, <1>2, <1>4, FreshMemory

\* No step breaks the invariant.
LEMMA NextInv == IInv /\ [Next]_vars => IInv'
<1> SUFFICES ASSUME IInv, [Next]_vars PROVE IInv'
  OBVIOUS
<1>1. ASSUME NEW c \in Conn, Work(c) PROVE IInv'
  BY <1>1, CreateInv, LoginInv, RegisterInv, LoopsInv, MoveInv, AskInv, AnswerRequestInv,
     MessageInv, RespondInv, CloseInv, CollectInv, DeliverInv, ProcessInv DEF Work
<1>2. ASSUME NEW c \in Conn, Outside(c) PROVE IInv'
  BY <1>2, SpawnInv, MoveInv, ReceiveInvalidInv, ReceiveInv, ProcessInv DEF Outside
<1>3. CASE Kill \/ Restart
  BY <1>3, ProcessInv
<1>4. CASE UNCHANGED vars
  BY <1>4 DEF vars, IInv, TypeOK, DbTypeOK, ClientsTypeOK, WorldTypeOK, LocalsOK, HoldsID,
     SocketsExact, RegistryExact, me
<1> QED
  BY <1>1, <1>2, <1>3, <1>4 DEF Next, Finished

\* Whatever clients, threads, statements and sends do, the invariant holds:
\* the counts behind clientIDs, clientSockets and the locals of the threads
\* stay in step.
THEOREM Invariance == Spec => []IInv
  BY InitInv, NextInv, PTL DEF Spec

\* The server's variables keep their types: no count falls below zero, and no
\* step of a session runs without a user or a request.
THEOREM TypeCorrect == Spec => []TypeOK
<1>1. IInv => TypeOK
  BY DEF IInv
<1> QED
  BY <1>1, Invariance, PTL

\* As long as no client logs in twice over one connection, a user name leads to
\* exactly the open connections that are logged in as that user, however many
\* threads insert, erase and fail.
THEOREM RegistryCorrect ==
  ASSUME ~Relogin
  PROVE  Spec => []RegistryExact
<1>1. IInv => RegistryExact
  BY DEF IInv
<1> QED
  BY <1>1, Invariance, PTL

-----------------------------------------------------------------------------
(* What each step of a thread does, field by field, when no statement and  *)
(* no send fails: the facts that the proofs of invariants about            *)
(* friendships, requests and presence start from.                          *)

\* The thread of c goes on to l with the answer r, the names n left to walk and
\* the calls o to make; nothing else of it changes, and no other thread moves.
Acts(c, l, r, n, o) ==
  /\ thread'[c].pc = l
  /\ thread'[c].resp = r
  /\ thread'[c].names = n
  /\ thread'[c].out = o
  /\ thread'[c].connectedUser = me(c)
  /\ thread'[c].req = thread[c].req
  /\ thread'[c].targetIDs = thread[c].targetIDs
  /\ thread'[c].reached = thread[c].reached
  /\ \A d \in Conn \ {c} : thread'[d] = thread[d]

\* The thread of c starts over at l.
StartsOver(c, l) ==
  /\ thread'[c].pc = l
  /\ thread'[c].connectedUser = me(c)
  /\ thread'[c].req = NoRequest
  /\ thread'[c].resp = "none"
  /\ thread'[c].out = <<>>
  /\ thread'[c].targetIDs = NoTargets
  /\ \A d \in Conn \ {c} : thread'[d] = thread[d]

\* Only the thread that moves changes.
Local == UNCHANGED <<dbVars, registry, clients, world>>

-----------------------------------------------------------------------------
(* Updates of the records *)

\* An update of a thread is an update of that thread only.
LEMMA BecomesOnly ==
  ASSUME IInv, NEW c \in Conn, NEW t, Becomes(c, t)
  PROVE  thread'[c] = t /\ \A d \in Conn \ {c} : thread'[d] = thread[d]
  BY DEF IInv, TypeOK, Becomes

\* A thread has the fields of Threads.
LEMMA ThreadFields ==
  ASSUME IInv, NEW c \in Conn
  PROVE  /\ thread[c] \in Threads
         /\ thread[c].pc \in Labels
         /\ me(c) \in User \cup {NoUser}
         /\ thread[c].req \in Requests
         /\ thread[c].names \in Names
         /\ thread[c].out \in Seq(Calls)
         /\ thread[c].targetIDs \in [Conn -> Nat]
         /\ thread[c].reached \in BOOLEAN
  BY DEF IInv, TypeOK, Threads, me

\* The updates the actions are made of, as Acts.
LEMMA ActsIs ==
  ASSUME IInv, NEW c \in Conn, NEW l, NEW r, NEW n, NEW o
  PROVE  /\ Goto(c, l) => Acts(c, l, thread[c].resp, thread[c].names, thread[c].out)
         /\ Answer(c, r) => Acts(c, "respond", r, thread[c].names, thread[c].out)
         /\ Becomes(c, To(c, l)) => Acts(c, l, thread[c].resp, thread[c].names, thread[c].out)
         /\ Becomes(c, [To(c, l) EXCEPT !.resp = r])
              => Acts(c, l, r, thread[c].names, thread[c].out)
         /\ Becomes(c, [To(c, l) EXCEPT !.out = o])
              => Acts(c, l, thread[c].resp, thread[c].names, o)
         /\ Becomes(c, [Replying(c, r) EXCEPT !.out = o])
              => Acts(c, "respond", r, thread[c].names, o)
         /\ Becomes(c, [thread[c] EXCEPT !.pc = l, !.names = n])
              => Acts(c, l, thread[c].resp, n, thread[c].out)
<1>1. thread[c] \in Threads
  BY ThreadFields
<1>2. Goto(c, l)
        => Acts(c, l, thread[c].resp, thread[c].names, thread[c].out)
  <2> DEFINE t == [thread[c] EXCEPT !.pc = l]
  <2>1. Goto(c, l) => Becomes(c, t)
    BY DEF Goto
  <2>2. Becomes(c, t) => thread'[c] = t /\ \A d \in Conn \ {c} : thread'[d] = thread[d]
    BY BecomesOnly
  <2>3. /\ t.pc = l /\ t.resp = thread[c].resp /\ t.names = thread[c].names /\ t.out = thread[c].out
        /\ t.connectedUser = thread[c].connectedUser /\ t.req = thread[c].req
        /\ t.targetIDs = thread[c].targetIDs /\ t.reached = thread[c].reached
    BY <1>1 DEF Threads
  <2> HIDE DEF t
  <2> QED
    BY <2>1, <2>2, <2>3 DEF Acts, me
<1>3. Answer(c, r)
        => Acts(c, "respond", r, thread[c].names, thread[c].out)
  <2> DEFINE t == [thread[c] EXCEPT !.pc = "respond", !.resp = r]
  <2>1. Answer(c, r) => Becomes(c, t)
    BY DEF Answer
  <2>2. Becomes(c, t) => thread'[c] = t /\ \A d \in Conn \ {c} : thread'[d] = thread[d]
    BY BecomesOnly
  <2>3. /\ t.pc = "respond" /\ t.resp = r /\ t.names = thread[c].names /\ t.out = thread[c].out
        /\ t.connectedUser = thread[c].connectedUser /\ t.req = thread[c].req
        /\ t.targetIDs = thread[c].targetIDs /\ t.reached = thread[c].reached
    BY <1>1 DEF Threads
  <2> HIDE DEF t
  <2> QED
    BY <2>1, <2>2, <2>3 DEF Acts, me
<1>4. Becomes(c, To(c, l))
        => Acts(c, l, thread[c].resp, thread[c].names, thread[c].out)
  <2> DEFINE t == [thread[c] EXCEPT !.pc = l]
  <2>1. Becomes(c, To(c, l)) => Becomes(c, t)
    BY DEF To
  <2>2. Becomes(c, t) => thread'[c] = t /\ \A d \in Conn \ {c} : thread'[d] = thread[d]
    BY BecomesOnly
  <2>3. /\ t.pc = l /\ t.resp = thread[c].resp /\ t.names = thread[c].names /\ t.out = thread[c].out
        /\ t.connectedUser = thread[c].connectedUser /\ t.req = thread[c].req
        /\ t.targetIDs = thread[c].targetIDs /\ t.reached = thread[c].reached
    BY <1>1 DEF Threads, To
  <2> HIDE DEF t
  <2> QED
    BY <2>1, <2>2, <2>3 DEF Acts, me
<1>5. Becomes(c, [To(c, l) EXCEPT !.resp = r])
        => Acts(c, l, r, thread[c].names, thread[c].out)
  <2> DEFINE t == [To(c, l) EXCEPT !.resp = r]
  <2>1. Becomes(c, [To(c, l) EXCEPT !.resp = r]) => Becomes(c, t)
    BY DEF To
  <2>2. Becomes(c, t) => thread'[c] = t /\ \A d \in Conn \ {c} : thread'[d] = thread[d]
    BY BecomesOnly
  <2>3. /\ t.pc = l /\ t.resp = r /\ t.names = thread[c].names /\ t.out = thread[c].out
        /\ t.connectedUser = thread[c].connectedUser /\ t.req = thread[c].req
        /\ t.targetIDs = thread[c].targetIDs /\ t.reached = thread[c].reached
    BY <1>1 DEF Threads, To
  <2> HIDE DEF t
  <2> QED
    BY <2>1, <2>2, <2>3 DEF Acts, me
<1>6. Becomes(c, [To(c, l) EXCEPT !.out = o])
        => Acts(c, l, thread[c].resp, thread[c].names, o)
  <2> DEFINE t == [To(c, l) EXCEPT !.out = o]
  <2>1. Becomes(c, [To(c, l) EXCEPT !.out = o]) => Becomes(c, t)
    BY DEF To
  <2>2. Becomes(c, t) => thread'[c] = t /\ \A d \in Conn \ {c} : thread'[d] = thread[d]
    BY BecomesOnly
  <2>3. /\ t.pc = l /\ t.resp = thread[c].resp /\ t.names = thread[c].names /\ t.out = o
        /\ t.connectedUser = thread[c].connectedUser /\ t.req = thread[c].req
        /\ t.targetIDs = thread[c].targetIDs /\ t.reached = thread[c].reached
    BY <1>1 DEF Threads, To
  <2> HIDE DEF t
  <2> QED
    BY <2>1, <2>2, <2>3 DEF Acts, me
<1>7. Becomes(c, [Replying(c, r) EXCEPT !.out = o])
        => Acts(c, "respond", r, thread[c].names, o)
  <2> DEFINE t == [Replying(c, r) EXCEPT !.out = o]
  <2>1. Becomes(c, [Replying(c, r) EXCEPT !.out = o]) => Becomes(c, t)
    BY DEF Replying
  <2>2. Becomes(c, t) => thread'[c] = t /\ \A d \in Conn \ {c} : thread'[d] = thread[d]
    BY BecomesOnly
  <2>3. /\ t.pc = "respond" /\ t.resp = r /\ t.names = thread[c].names /\ t.out = o
        /\ t.connectedUser = thread[c].connectedUser /\ t.req = thread[c].req
        /\ t.targetIDs = thread[c].targetIDs /\ t.reached = thread[c].reached
    BY <1>1 DEF Threads, Replying
  <2> HIDE DEF t
  <2> QED
    BY <2>1, <2>2, <2>3 DEF Acts, me
<1>8. Becomes(c, [thread[c] EXCEPT !.pc = l, !.names = n])
        => Acts(c, l, thread[c].resp, n, thread[c].out)
  <2> DEFINE t == [thread[c] EXCEPT !.pc = l, !.names = n]
  <2>1. Becomes(c, [thread[c] EXCEPT !.pc = l, !.names = n]) => Becomes(c, t)
    OBVIOUS
  <2>2. Becomes(c, t) => thread'[c] = t /\ \A d \in Conn \ {c} : thread'[d] = thread[d]
    BY BecomesOnly
  <2>3. /\ t.pc = l /\ t.resp = thread[c].resp /\ t.names = n /\ t.out = thread[c].out
        /\ t.connectedUser = thread[c].connectedUser /\ t.req = thread[c].req
        /\ t.targetIDs = thread[c].targetIDs /\ t.reached = thread[c].reached
    BY <1>1 DEF Threads
  <2> HIDE DEF t
  <2> QED
    BY <2>1, <2>2, <2>3 DEF Acts, me
<1> QED
  BY <1>2, <1>3, <1>4, <1>5, <1>6, <1>7, <1>8

\* ... and as StartsOver.
LEMMA StartsOverIs ==
  ASSUME IInv, NEW c \in Conn, NEW l,
         Becomes(c, [Fresh(l) EXCEPT !.connectedUser = me(c)])
  PROVE  StartsOver(c, l)
  BY BecomesOnly DEF Fresh, StartsOver

\* Nothing fails in a step after which no failure has happened.
LEMMA NoneFails ==
  ASSUME IInv, faults' = 0
  PROVE  ~Fault
  BY DEF IInv, TypeOK, WorldTypeOK, Fault

-----------------------------------------------------------------------------
(* Steps that only move a thread *)

\* From where to where a thread moves without touching anything.
Moves == {<<"create_check", "create_insert">>, <<"create_check", "respond">>,
          <<"login_check", "login_password">>, <<"login_check", "respond">>,
          <<"login_password", "register">>, <<"login_password", "respond">>,
          <<"ask_check", "ask_insert">>, <<"ask_check", "respond">>,
          <<"message_check", "respond">>, <<"each_friend", "respond">>,
          <<"recv", "bye_friends">>, <<"recv", "close">>, <<"each_bye", "close">>}

\* One of them; whoever leaves as a user is one, a refusal is an answer, and the
\* greetings end when all friends are greeted.
Move(c) ==
  \E l \in Labels, r \in {"none", "yes", "no"} :
    /\ <<thread[c].pc, l>> \in Moves
    /\ l = "bye_friends" => me(c) \in User
    /\ thread[c].pc = "message_check" => r = "no"
    /\ thread[c].pc = "each_friend" => thread[c].names = Nobody
    /\ thread[c].out = <<>>
    /\ Acts(c, l, r, thread[c].names, <<>>)
    /\ Local

\* The checks of names and passwords, and the ends of the loops, are moves.
LEMMA MoveIs ==
  ASSUME IInv, NEW c \in Conn, faults' = 0,
         \/ CreateCheck(c) \/ LoginCheck(c) \/ LoginPassword(c) \/ AskCheck(c)
         \/ LoginDone(c) \/ ByeDone(c) \/ Disconnected(c)
  PROVE  Move(c)
<1>1. thread[c].resp \in {"none", "yes", "no"}
  BY ThreadFields DEF Threads
<1>2. {"create_insert", "respond", "login_password", "register", "ask_insert",
       "bye_friends", "close"} \subseteq Labels
  BY DEF Labels
<1>3. me(c) \in User \cup {NoUser}
  BY ThreadFields
<1>a. ~Fault
  BY NoneFails
<1>4. CASE CreateCheck(c)
  <2>1. thread[c].pc = "create_check" /\ thread[c].out = <<>> /\ Local
    BY <1>a, <1>4 DEF CreateCheck, At, Local, NoFault
  <2>2. \/ Goto(c, "create_insert")
        \/ Answer(c, "no")
    BY <1>4 DEF CreateCheck
  <2>3. \/ Acts(c, "create_insert", thread[c].resp, thread[c].names, <<>>)
        \/ Acts(c, "respond", "no", thread[c].names, <<>>)
    BY <2>1, <2>2, ActsIs
  <2> QED
    BY <1>1, <1>2, <2>1, <2>3 DEF Move, Moves
<1>5. CASE LoginCheck(c)
  <2>1. thread[c].pc = "login_check" /\ thread[c].out = <<>> /\ Local
    BY <1>a, <1>5 DEF LoginCheck, At, Local, NoFault
  <2>2. \/ Goto(c, "login_password")
        \/ Answer(c, "no")
    BY <1>5 DEF LoginCheck
  <2>3. \/ Acts(c, "login_password", thread[c].resp, thread[c].names, <<>>)
        \/ Acts(c, "respond", "no", thread[c].names, <<>>)
    BY <2>1, <2>2, ActsIs
  <2> QED
    BY <1>1, <1>2, <2>1, <2>3 DEF Move, Moves
<1>6. CASE LoginPassword(c)
  <2>1. thread[c].pc = "login_password" /\ thread[c].out = <<>> /\ Local
    BY <1>a, <1>6 DEF LoginPassword, At, Local, NoFault
  <2>2. \/ Becomes(c, [To(c, "register") EXCEPT !.resp = "yes"])
        \/ Answer(c, "no")
    BY <1>6 DEF LoginPassword
  <2>3. \/ Acts(c, "register", "yes", thread[c].names, <<>>)
        \/ Acts(c, "respond", "no", thread[c].names, <<>>)
    BY <2>1, <2>2, ActsIs
  <2> QED
    BY <1>1, <1>2, <2>1, <2>3 DEF Move, Moves
<1>7. CASE AskCheck(c)
  <2>1. thread[c].pc = "ask_check" /\ thread[c].out = <<>> /\ Local
    BY <1>a, <1>7 DEF AskCheck, At, Local, NoFault
  <2>2. \/ Goto(c, "ask_insert")
        \/ Answer(c, "no")
    BY <1>7 DEF AskCheck
  <2>3. \/ Acts(c, "ask_insert", thread[c].resp, thread[c].names, <<>>)
        \/ Acts(c, "respond", "no", thread[c].names, <<>>)
    BY <2>1, <2>2, ActsIs
  <2> QED
    BY <1>1, <1>2, <2>1, <2>3 DEF Move, Moves
<1>8. CASE LoginDone(c)
  <2>1. /\ thread[c].pc = "each_friend" /\ thread[c].out = <<>> /\ Local
        /\ thread[c].names = Nobody
    BY <1>a, <1>8 DEF LoginDone, At, Local, NoFault
  <2>2. Goto(c, "respond")
    BY <1>8 DEF LoginDone
  <2>3. Acts(c, "respond", thread[c].resp, thread[c].names, <<>>)
    BY <2>1, <2>2, ActsIs
  <2> QED
    BY <1>1, <1>2, <2>1, <2>3 DEF Move, Moves
<1>9. CASE ByeDone(c)
  <2>1. thread[c].pc = "each_bye" /\ thread[c].out = <<>> /\ Local
    BY <1>a, <1>9 DEF ByeDone, At, Local, NoFault
  <2>2. Goto(c, "close")
    BY <1>9 DEF ByeDone
  <2>3. Acts(c, "close", thread[c].resp, thread[c].names, <<>>)
    BY <2>1, <2>2, ActsIs
  <2> QED
    BY <1>1, <1>2, <2>1, <2>3 DEF Move, Moves
<1>10. CASE Disconnected(c)
  <2>1. thread[c].pc = "recv" /\ thread[c].out = <<>> /\ Local
    BY <1>10 DEF Disconnected, At, Local
  <2>2. Goto(c, "close") \/ (me(c) \in User /\ Goto(c, "bye_friends"))
    BY <1>3, <1>10 DEF Disconnected
  <2>3. \/ Acts(c, "close", thread[c].resp, thread[c].names, <<>>)
        \/ me(c) \in User /\ Acts(c, "bye_friends", thread[c].resp, thread[c].names, <<>>)
    BY <2>1, <2>2, ActsIs
  <2> QED
    BY <1>1, <1>2, <2>1, <2>3 DEF Move, Moves
<1> QED
  BY <1>4, <1>5, <1>6, <1>7, <1>8, <1>9, <1>10

-----------------------------------------------------------------------------
(* Statements on the database, and calls of sendOutPacket *)

\* Only the database changes, besides the thread that moves.
Stored == UNCHANGED <<registry, clients, world>>

\* The account is inserted, and the thread goes on to register.
LEMMA CreateInsertIs ==
  ASSUME IInv, NEW c \in Conn, faults' = 0, CreateInsert(c)
  PROVE  /\ thread[c].pc = "create_insert" /\ thread[c].out = <<>>
         /\ insertNewUser(you(c), thread[c].req.pass)
         /\ Acts(c, "register", "yes", thread[c].names, <<>>)
         /\ Stored
<1>a. ~Fault
  BY NoneFails
<1>1. thread[c].pc = "create_insert" /\ thread[c].out = <<>>
  BY DEF CreateInsert, At
<1>2. insertNewUser(you(c), thread[c].req.pass) /\ Becomes(c, [To(c, "register") EXCEPT !.resp = "yes"]) /\ Stored
  BY <1>a DEF CreateInsert, Run, Stored, NoFault
<1>3. Acts(c, "register", "yes", thread[c].names, <<>>)
  BY <1>1, <1>2, ActsIs
<1> QED
  BY <1>1, <1>2, <1>3

\* The request is stored, and is to be forwarded.
LEMMA AskInsertIs ==
  ASSUME IInv, NEW c \in Conn, faults' = 0, AskInsert(c)
  PROVE  /\ thread[c].pc = "ask_insert" /\ thread[c].out = <<>>
         /\ insertFriendRequest(me(c), you(c))
         /\ Acts(c, "respond", "yes", thread[c].names, <<Call(you(c), "FORWARD", me(c))>>)
         /\ Stored
<1>a. ~Fault
  BY NoneFails
<1>1. thread[c].pc = "ask_insert" /\ thread[c].out = <<>>
  BY DEF AskInsert, At
<1>2. insertFriendRequest(me(c), you(c)) /\ Becomes(c, [Replying(c, "yes") EXCEPT !.out = <<Call(you(c), "FORWARD", me(c))>>]) /\ Stored
  BY <1>a DEF AskInsert, Run, Stored, NoFault
<1>3. Acts(c, "respond", "yes", thread[c].names, <<Call(you(c), "FORWARD", me(c))>>)
  BY <1>1, <1>2, ActsIs
<1> QED
  BY <1>1, <1>2, <1>3

\* The request accepted is deleted.
LEMMA AcceptRemoveIs ==
  ASSUME IInv, NEW c \in Conn, faults' = 0, AcceptRemove(c)
  PROVE  /\ thread[c].pc = "accept_remove" /\ thread[c].out = <<>>
         /\ removeFriendRequest(you(c), me(c))
         /\ Acts(c, "accept_first", thread[c].resp, thread[c].names, <<>>)
         /\ Stored
<1>a. ~Fault
  BY NoneFails
<1>1. thread[c].pc = "accept_remove" /\ thread[c].out = <<>>
  BY DEF AcceptRemove, At
<1>2. removeFriendRequest(you(c), me(c)) /\ Becomes(c, To(c, "accept_first")) /\ Stored
  BY <1>a DEF AcceptRemove, Run, Stored, NoFault
<1>3. Acts(c, "accept_first", thread[c].resp, thread[c].names, <<>>)
  BY <1>1, <1>2, ActsIs
<1> QED
  BY <1>1, <1>2, <1>3

\* The first row of the friendship is inserted.
LEMMA AcceptFirstIs ==
  ASSUME IInv, NEW c \in Conn, faults' = 0, AcceptFirst(c)
  PROVE  /\ thread[c].pc = "accept_first" /\ thread[c].out = <<>>
         /\ insertFriendRow(you(c), me(c))
         /\ Acts(c, "accept_second", thread[c].resp, thread[c].names, <<>>)
         /\ Stored
<1>a. ~Fault
  BY NoneFails
<1>1. thread[c].pc = "accept_first" /\ thread[c].out = <<>>
  BY DEF AcceptFirst, At
<1>2. insertFriendRow(you(c), me(c)) /\ Becomes(c, To(c, "accept_second")) /\ Stored
  BY <1>a DEF AcceptFirst, Run, Stored, NoFault
<1>3. Acts(c, "accept_second", thread[c].resp, thread[c].names, <<>>)
  BY <1>1, <1>2, ActsIs
<1> QED
  BY <1>1, <1>2, <1>3

\* The second row of the friendship is inserted.
LEMMA AcceptSecondIs ==
  ASSUME IInv, NEW c \in Conn, faults' = 0, AcceptSecond(c)
  PROVE  /\ thread[c].pc = "accept_second" /\ thread[c].out = <<>>
         /\ insertFriendRow(me(c), you(c))
         /\ Acts(c, "accept_announce", thread[c].resp, thread[c].names, <<>>)
         /\ Stored
<1>a. ~Fault
  BY NoneFails
<1>1. thread[c].pc = "accept_second" /\ thread[c].out = <<>>
  BY DEF AcceptSecond, At
<1>2. insertFriendRow(me(c), you(c)) /\ Becomes(c, To(c, "accept_announce")) /\ Stored
  BY <1>a DEF AcceptSecond, Run, Stored, NoFault
<1>3. Acts(c, "accept_announce", thread[c].resp, thread[c].names, <<>>)
  BY <1>1, <1>2, ActsIs
<1> QED
  BY <1>1, <1>2, <1>3

\* The request rejected is deleted.
LEMMA RejectRemoveIs ==
  ASSUME IInv, NEW c \in Conn, faults' = 0, RejectRemove(c)
  PROVE  /\ thread[c].pc = "reject_remove" /\ thread[c].out = <<>>
         /\ removeFriendRequest(you(c), me(c))
         /\ Acts(c, "respond", thread[c].resp, thread[c].names, <<>>)
         /\ Stored
<1>a. ~Fault
  BY NoneFails
<1>1. thread[c].pc = "reject_remove" /\ thread[c].out = <<>>
  BY DEF RejectRemove, At
<1>2. removeFriendRequest(you(c), me(c)) /\ Becomes(c, To(c, "respond")) /\ Stored
  BY <1>a DEF RejectRemove, Run, Stored, NoFault
<1>3. Acts(c, "respond", thread[c].resp, thread[c].names, <<>>)
  BY <1>1, <1>2, ActsIs
<1> QED
  BY <1>1, <1>2, <1>3

\* The request is hidden.
LEMMA HideIs ==
  ASSUME IInv, NEW c \in Conn, faults' = 0, Hide(c)
  PROVE  /\ thread[c].pc = "hide" /\ thread[c].out = <<>>
         /\ hideFriendRequest(you(c), me(c))
         /\ Acts(c, "respond", thread[c].resp, thread[c].names, <<>>)
         /\ Stored
<1>a. ~Fault
  BY NoneFails
<1>1. thread[c].pc = "hide" /\ thread[c].out = <<>>
  BY DEF Hide, At
<1>2. hideFriendRequest(you(c), me(c)) /\ Becomes(c, To(c, "respond")) /\ Stored
  BY <1>a DEF Hide, Run, Stored, NoFault
<1>3. Acts(c, "respond", thread[c].resp, thread[c].names, <<>>)
  BY <1>1, <1>2, ActsIs
<1> QED
  BY <1>1, <1>2, <1>3

\* The rejection is to be told.
LEMMA RejectTellIs ==
  ASSUME IInv, NEW c \in Conn, faults' = 0, RejectTell(c)
  PROVE  /\ thread[c].pc = "reject_tell" /\ thread[c].out = <<>>
         /\ Acts(c, "reject_remove", thread[c].resp, thread[c].names, <<Call(you(c), "REJECT", me(c))>>)
         /\ Local
<1>1. thread[c].pc = "reject_tell" /\ thread[c].out = <<>>
  BY DEF RejectTell, At
<1>2. Becomes(c, [To(c, "reject_remove") EXCEPT !.out = <<Call(you(c), "REJECT", me(c))>>]) /\ Local
  BY DEF RejectTell, Local
<1>3. Acts(c, "reject_remove", thread[c].resp, thread[c].names, <<Call(you(c), "REJECT", me(c))>>)
  BY <1>1, <1>2, ActsIs
<1> QED
  BY <1>1, <1>2, <1>3

\* What the acceptance is announced with.
Announcement(c) ==
  IF Online(you(c))
    THEN <<Call(me(c), "ONLINE", you(c)), Call(you(c), "ACCEPT", me(c)),
           Call(you(c), "ONLINE", me(c))>>
    ELSE <<Call(me(c), "OFFLINE", you(c))>>

\* The acceptance is to be announced.
LEMMA AcceptAnnounceIs ==
  ASSUME IInv, NEW c \in Conn, faults' = 0, AcceptAnnounce(c)
  PROVE  /\ thread[c].pc = "accept_announce" /\ thread[c].out = <<>>
         /\ Acts(c, "respond", thread[c].resp, thread[c].names, Announcement(c))
         /\ Local
<1>1. thread[c].pc = "accept_announce" /\ thread[c].out = <<>>
  BY DEF AcceptAnnounce, At
<1>2. Becomes(c, [To(c, "respond") EXCEPT !.out = Announcement(c)]) /\ Local
  BY DEF AcceptAnnounce, Announcement, Local
<1>3. Acts(c, "respond", thread[c].resp, thread[c].names, Announcement(c))
  BY <1>1, <1>2, ActsIs
<1> QED
  BY <1>1, <1>2, <1>3

\* A message goes to whoever is online, and is refused otherwise.
LEMMA MessageCheckIs ==
  ASSUME IInv, NEW c \in Conn, faults' = 0, MessageCheck(c)
  PROVE  \/ Move(c)
         \/ /\ thread[c].pc = "message_check" /\ thread[c].out = <<>>
            /\ Online(you(c))
            /\ Acts(c, "respond", "yes", thread[c].names, <<Call(you(c), "MESSAGE", me(c))>>)
            /\ Local
<1>1. thread[c].pc = "message_check" /\ thread[c].out = <<>> /\ Local
  BY DEF MessageCheck, At, Local
<1>2. CASE ~Online(you(c))
  <2>1. Answer(c, "no")
    BY <1>2 DEF MessageCheck
  <2>2. Acts(c, "respond", "no", thread[c].names, <<>>)
    BY <1>1, <2>1, ActsIs
  <2> QED
    BY <1>1, <2>2 DEF Move, Moves, Labels
<1>3. CASE Online(you(c))
  <2>1. Becomes(c, [Replying(c, "yes") EXCEPT !.out = <<Call(you(c), "MESSAGE", me(c))>>])
    BY <1>3 DEF MessageCheck
  <2>2. Acts(c, "respond", "yes", thread[c].names, <<Call(you(c), "MESSAGE", me(c))>>)
    BY <2>1, ActsIs
  <2> QED
    BY <1>1, <1>3, <2>2
<1> QED
  BY <1>2, <1>3

-----------------------------------------------------------------------------
(* The loops *)

\* The thread of c starts loop l on the whole of the result b.
Walks(c, l, b) ==
  /\ Acts(c, l, thread[c].resp, b, <<>>)
  /\ Local

\* A query that does not fail returns all there is.
LEMMA WalkIs ==
  ASSUME IInv, NEW c \in Conn, faults' = 0, NEW l, NEW b, Walk(c, l, b),
         thread[c].out = <<>>
  PROVE  Walks(c, l, b)
<1>1. ~Fault
  BY NoneFails
<1>2. Becomes(c, [thread[c] EXCEPT !.pc = l, !.names = b]) /\ Local
  BY <1>1 DEF Walk, Local, NoFault
<1>3. Acts(c, l, thread[c].resp, b, <<>>)
  BY <1>2, ActsIs
<1> QED
  BY <1>2, <1>3 DEF Walks

\* The beginnings of the loops at login and at the end of a session.
LEMMA WalksAre ==
  ASSUME IInv, NEW c \in Conn, faults' = 0
  PROVE  /\ LoginIncoming(c) =>
              /\ thread[c].pc = "login_incoming" /\ thread[c].out = <<>>
              /\ Walks(c, "each_incoming", getIncomingFriendRequests(me(c)))
         /\ LoginOutgoing(c) =>
              /\ thread[c].pc = "each_incoming" /\ thread[c].out = <<>>
              /\ thread[c].names = Nobody
              /\ Walks(c, "each_outgoing", getOutgoingFriendRequests(me(c)))
         /\ LoginFriends(c) =>
              /\ thread[c].pc = "each_outgoing" /\ thread[c].out = <<>>
              /\ thread[c].names = Nobody
              /\ Walks(c, "each_friend", getFriendList(me(c)))
         /\ ByeFriends(c) =>
              /\ thread[c].pc = "bye_friends" /\ thread[c].out = <<>>
              /\ Walks(c, "each_bye", getFriendList(me(c)))
  BY WalkIs DEF LoginIncoming, LoginOutgoing, LoginFriends, ByeFriends, At

\* A turn of a loop for name n: one less of it is left, and o is to be called.
Turns(c, n, o) ==
  \E m \in Names :
    /\ thread[c].names[n] > 0 /\ m[n] = thread[c].names[n] - 1
    /\ \A v \in User \ {n} : m[v] = thread[c].names[v]
    /\ Acts(c, thread[c].pc, thread[c].resp, m, o)
    /\ Local

\* The body of a loop is a turn of it.
LEMMA VisitIs ==
  ASSUME IInv, NEW c \in Conn, NEW n \in User, NEW o, Visit(c, n, o)
  PROVE  Turns(c, n, o)
<1> DEFINE m == [thread[c].names EXCEPT ![n] = @ - 1]
           t == [thread[c] EXCEPT !.names = m, !.out = o]
<1>1. thread[c] \in Threads /\ thread[c].names \in Names
  BY ThreadFields
<1>2. thread[c].names[n] > 0 /\ Becomes(c, t) /\ Local
  BY DEF Visit, Local
<1>3. /\ m \in Names /\ m[n] = thread[c].names[n] - 1
      /\ \A v \in User \ {n} : m[v] = thread[c].names[v]
  BY <1>1, <1>2 DEF Names
<1> HIDE DEF m
<1>4. /\ t.pc = thread[c].pc /\ t.resp = thread[c].resp /\ t.names = m /\ t.out = o
      /\ t.connectedUser = thread[c].connectedUser /\ t.req = thread[c].req
      /\ t.targetIDs = thread[c].targetIDs /\ t.reached = thread[c].reached
  BY <1>1 DEF Threads
<1>5. thread'[c] = t /\ \A d \in Conn \ {c} : thread'[d] = thread[d]
  BY <1>2, BecomesOnly
<1> HIDE DEF t
<1>6. Acts(c, thread[c].pc, thread[c].resp, m, o)
  BY <1>4, <1>5 DEF Acts, me
<1> QED
  BY <1>2, <1>3, <1>6 DEF Turns

\* What friend n and the user of c are told of each other at login.
Greeting(c, n) ==
  IF Online(n) THEN <<Call(me(c), "ONLINE", n), Call(n, "ONLINE", me(c))>>
               ELSE <<Call(me(c), "OFFLINE", n)>>

\* What friend n is told at the end of the session of c.
Farewell(c, n) == IF Online(n) THEN <<Call(n, "OFFLINE", me(c))>> ELSE <<>>

\* The turns of the loops.
LEMMA TurnsAre ==
  ASSUME IInv, NEW c \in Conn, NEW n \in User
  PROVE  /\ EachIncoming(c, n) =>
              /\ thread[c].pc = "each_incoming" /\ thread[c].out = <<>>
              /\ Turns(c, n, <<Call(me(c), "FORWARD", n)>>)
         /\ EachOutgoing(c, n) =>
              /\ thread[c].pc = "each_outgoing" /\ thread[c].out = <<>>
              /\ Turns(c, n, <<Call(me(c), "PENDING", n)>>)
         /\ EachFriend(c, n) =>
              /\ thread[c].pc = "each_friend" /\ thread[c].out = <<>>
              /\ Turns(c, n, Greeting(c, n))
         /\ EachBye(c, n) =>
              /\ thread[c].pc = "each_bye" /\ thread[c].out = <<>>
              /\ Turns(c, n, Farewell(c, n))
  BY VisitIs DEF EachIncoming, EachOutgoing, EachFriend, EachBye, At, Greeting, Farewell

-----------------------------------------------------------------------------
(* Sessions *)

\* spin starts the thread of a connection nobody is logged in over.
LEMMA SpawnIs ==
  ASSUME IInv, NEW c \in Conn, Spawn(c)
  PROVE  /\ thread[c].pc = "none" /\ me(c) = NoUser
         /\ StartsOver(c, "recv")
         /\ live' = live \cup {c}
         /\ UNCHANGED <<dbVars, clientIDs, clients, world>>
<1>1. thread[c].pc = "none" /\ me(c) = NoUser /\ Becomes(c, Fresh("recv"))
  BY DEF Spawn, IInv, LocalsOK, me
<1>2. StartsOver(c, "recv")
  BY <1>1, BecomesOnly DEF Fresh, StartsOver
<1> QED
  BY <1>1, <1>2 DEF Spawn

\* The thread of c has read request r.
LEMMA ReceiveIs ==
  ASSUME IInv, NEW c \in Conn, NEW r, Receive(c, r)
  PROVE  /\ thread[c].pc = "recv" /\ thread[c].out = <<>>
         /\ thread'[c].pc = Case(r.type) /\ thread'[c].req = r
         /\ thread'[c].connectedUser = me(c)
         /\ thread'[c].out = <<>>
         /\ thread'[c].resp = thread[c].resp
         /\ thread'[c].names = thread[c].names
         /\ thread'[c].targetIDs = thread[c].targetIDs
         /\ thread'[c].reached = thread[c].reached
         /\ \A d \in Conn \ {c} : thread'[d] = thread[d]
         /\ UNCHANGED <<dbVars, registry, status, world>>
<1> DEFINE t == [thread[c] EXCEPT !.pc = Case(r.type), !.req = r]
<1>1. thread[c].pc = "recv" /\ thread[c].out = <<>> /\ Becomes(c, t)
      /\ UNCHANGED <<dbVars, registry, status, world>>
  BY DEF Receive, At
<1>2. thread[c] \in Threads
  BY ThreadFields
<1>3. /\ t.pc = Case(r.type) /\ t.resp = thread[c].resp /\ t.names = thread[c].names
      /\ t.out = thread[c].out /\ t.req = r
      /\ t.connectedUser = thread[c].connectedUser
      /\ t.targetIDs = thread[c].targetIDs /\ t.reached = thread[c].reached
  BY <1>2 DEF Threads
<1>4. thread'[c] = t /\ \A d \in Conn \ {c} : thread'[d] = thread[d]
  BY <1>1, BecomesOnly
<1> HIDE DEF t
<1> QED
  BY <1>1, <1>3, <1>4 DEF me

\* The session of c begins: its thread goes on to the login loops, or, after
\* the creation of an account, to the answer.
LEMMA RegisterIs ==
  ASSUME IInv, NEW c \in Conn, Register(c)
  PROVE  /\ thread[c].pc = "register" /\ thread[c].out = <<>> /\ you(c) \in User
         /\ thread'[c].pc = IF thread[c].req.type = "create" THEN "respond"
                                                            ELSE "login_incoming"
         /\ thread'[c].connectedUser = you(c)
         /\ thread'[c].req = thread[c].req
         /\ thread'[c].out = <<>>
         /\ thread'[c].resp = thread[c].resp
         /\ thread'[c].names = thread[c].names
         /\ thread'[c].targetIDs = thread[c].targetIDs
         /\ thread'[c].reached = thread[c].reached
         /\ \A d \in Conn \ {c} : thread'[d] = thread[d]
         /\ clientIDs' = [clientIDs EXCEPT ![you(c)][c] = @ + 1]
         /\ UNCHANGED <<dbVars, live, clients, world>>
<1> DEFINE t == [thread[c] EXCEPT !.connectedUser = you(c),
                   !.pc = IF thread[c].req.type = "create"
                            THEN "respond" ELSE "login_incoming"]
<1>1. /\ thread[c].pc = "register" /\ thread[c].out = <<>> /\ Becomes(c, t)
      /\ clientIDs' = [clientIDs EXCEPT ![you(c)][c] = @ + 1]
      /\ UNCHANGED <<dbVars, live, clients, world>>
  BY DEF Register, At
<1>2. thread[c] \in Threads
  BY ThreadFields
<1>3. /\ t.pc = IF thread[c].req.type = "create" THEN "respond" ELSE "login_incoming"
      /\ t.resp = thread[c].resp /\ t.names = thread[c].names
      /\ t.out = thread[c].out /\ t.req = thread[c].req
      /\ t.connectedUser = you(c)
      /\ t.targetIDs = thread[c].targetIDs /\ t.reached = thread[c].reached
  BY <1>2 DEF Threads
<1>4. thread'[c] = t /\ \A d \in Conn \ {c} : thread'[d] = thread[d]
  BY <1>1, BecomesOnly
<1>5. you(c) \in User
  BY <1>1 DEF IInv, LocalsOK, AskingLabels, CredentialLabels, you
<1> HIDE DEF t
<1> QED
  BY <1>1, <1>3, <1>4, <1>5

\* An answer that can be sent ends the request.
LEMMA RespondIs ==
  ASSUME IInv, NEW c \in Conn, faults' = 0, Respond(c)
  PROVE  /\ thread[c].pc = "respond" /\ thread[c].out = <<>>
         /\ StartsOver(c, "recv")
         /\ Local
<1>1. ~Fault
  BY NoneFails
<1>2. Becomes(c, [Fresh("recv") EXCEPT !.connectedUser = me(c)])
  BY <1>1 DEF Respond, BackToRecv
<1> QED
  BY <1>1, <1>2, StartsOverIs DEF Respond, At, Local, NoFault

\* The end of handleClient.
LEMMA CloseIs ==
  ASSUME IInv, NEW c \in Conn, Close(c)
  PROVE  /\ thread[c].pc = "close" /\ thread[c].out = <<>>
         /\ StartsOver(c, "closed")
         /\ live' = live \ {c}
         /\ clientIDs' = IF me(c) = NoUser THEN clientIDs
                           ELSE [clientIDs EXCEPT ![me(c)][c] = @ - 1]
         /\ UNCHANGED <<dbVars, clients, world>>
  BY StartsOverIs DEF Close, At

-----------------------------------------------------------------------------
(* Its calls of sendOutPacket, step by step *)

\* The thread of c goes on sending: the calls o are left, and the first of them
\* to the targets i.
Sends(c, o, i, b) ==
  /\ thread'[c].out = o
  /\ thread'[c].targetIDs = i
  /\ thread'[c].reached = b
  /\ thread'[c].pc = thread[c].pc
  /\ thread'[c].connectedUser = me(c)
  /\ thread'[c].req = thread[c].req
  /\ thread'[c].resp = thread[c].resp
  /\ thread'[c].names = thread[c].names
  /\ \A d \in Conn \ {c} : thread'[d] = thread[d]

\* The targets of a call are the connections under the name of its addressee.
LEMMA CollectIs ==
  ASSUME IInv, NEW c \in Conn, Collect(c)
  PROVE  /\ thread[c].out # <<>> /\ thread[c].targetIDs = NoTargets
         /\ LET ids == clientIDs[Head(thread[c].out).to]
            IN \/ /\ ids = NoTargets
                  /\ Sends(c, Tail(thread[c].out), NoTargets, thread[c].reached)
               \/ /\ ids # NoTargets
                  /\ Sends(c, thread[c].out, ids, thread[c].reached)
         /\ Local
<1> DEFINE ids == clientIDs[Head(thread[c].out).to]
           t == [thread[c] EXCEPT !.targetIDs = ids]
<1>1. /\ thread[c].out # <<>> /\ thread[c].targetIDs = NoTargets
      /\ Becomes(c, IF ids = NoTargets THEN Returned(c) ELSE t)
      /\ Local
  BY DEF Collect, Sending, Local
<1>2. thread[c] \in Threads
  BY ThreadFields
<1>3. /\ Returned(c).out = Tail(thread[c].out) /\ Returned(c).targetIDs = NoTargets
      /\ Returned(c).reached = thread[c].reached /\ Returned(c).pc = thread[c].pc
      /\ Returned(c).connectedUser = thread[c].connectedUser
      /\ Returned(c).req = thread[c].req /\ Returned(c).resp = thread[c].resp
      /\ Returned(c).names = thread[c].names
  BY <1>2 DEF Threads, Returned
<1> HIDE DEF ids
<1>4. /\ t.out = thread[c].out /\ t.targetIDs = ids /\ t.reached = thread[c].reached
      /\ t.pc = thread[c].pc /\ t.connectedUser = thread[c].connectedUser
      /\ t.req = thread[c].req /\ t.resp = thread[c].resp /\ t.names = thread[c].names
  BY <1>2 DEF Threads
<1> HIDE DEF t
<1>5. CASE ids = NoTargets
  <2>1. Sends(c, Tail(thread[c].out), NoTargets, thread[c].reached)
    BY <1>1, <1>3, <1>5, BecomesOnly DEF Sends, me
  <2> QED
    BY <1>1, <1>5, <2>1 DEF ids
<1>6. CASE ids # NoTargets
  <2>1. Sends(c, thread[c].out, ids, thread[c].reached)
    BY <1>1, <1>4, <1>6, BecomesOnly DEF Sends, me
  <2> QED
    BY <1>1, <1>6, <2>1 DEF ids
<1> QED
  BY <1>5, <1>6

\* One of the targets i served.
Without(i, k) == [i EXCEPT ![k] = @ - 1]

\* A send that does not fail tells the client of k.
LEMMA DeliverIs ==
  ASSUME IInv, NEW c \in Conn, NEW k \in Conn, faults' = 0, Deliver(c, k)
  PROVE  LET p == Head(thread[c].out)
             left == Without(thread[c].targetIDs, k)
             heard == thread[c].reached \/ p.type = "MESSAGE"
         IN /\ thread[c].out # <<>> /\ thread[c].targetIDs[k] > 0
            /\ k \in live
            /\ p \in Calls /\ Tail(thread[c].out) \in Seq(Calls)
            /\ left \in [Conn -> Nat]
            /\ Learns(k, p)
            /\ \/ left = NoTargets /\ Sends(c, Tail(thread[c].out), NoTargets, heard)
               \/ left # NoTargets /\ Sends(c, thread[c].out, left, heard)
            /\ UNCHANGED <<dbVars, registry, received, world>>
<1> DEFINE p == Head(thread[c].out)
           left == Without(thread[c].targetIDs, k)
           heard == thread[c].reached \/ p.type = "MESSAGE"
           one == [thread[c] EXCEPT !.targetIDs = left, !.reached = heard]
           last == [one EXCEPT !.out = Tail(@)]
<1>1. ~Fault
  BY NoneFails
<1>2. /\ Sending(c) /\ thread[c].out # <<>> /\ thread[c].targetIDs[k] > 0 /\ k \in live
      /\ Learns(k, p)
      /\ UNCHANGED <<dbVars, registry, received, world>>
      /\ Served(c, k, p)
  BY <1>1 DEF Deliver, Sending, NoFault
<1>3. /\ thread[c] \in Threads /\ p \in Calls /\ Tail(thread[c].out) \in Seq(Calls)
  BY <1>2, SenderRuns
<1>4. left \in [Conn -> Nat]
  BY <1>2, <1>3 DEF Threads, Without
<1>5. Becomes(c, IF left = NoTargets THEN last ELSE one)
  BY <1>2 DEF Served, Without
<1> HIDE DEF p, left, heard
<1>6. /\ one.out = thread[c].out /\ one.targetIDs = left /\ one.reached = heard
      /\ one.pc = thread[c].pc /\ one.connectedUser = thread[c].connectedUser
      /\ one.req = thread[c].req /\ one.resp = thread[c].resp
      /\ one.names = thread[c].names
  BY <1>3 DEF Threads
<1>7. /\ last.out = Tail(thread[c].out) /\ last.targetIDs = left /\ last.reached = heard
      /\ last.pc = thread[c].pc /\ last.connectedUser = thread[c].connectedUser
      /\ last.req = thread[c].req /\ last.resp = thread[c].resp
      /\ last.names = thread[c].names
  BY <1>3 DEF Threads
<1> HIDE DEF one, last
<1>8. CASE left = NoTargets
  <2>1. Sends(c, Tail(thread[c].out), NoTargets, heard)
    BY <1>5, <1>7, <1>8, BecomesOnly DEF Sends, me
  <2> QED
    BY <1>2, <1>3, <1>4, <1>8, <2>1 DEF p, left, heard
<1>9. CASE left # NoTargets
  <2>1. Sends(c, thread[c].out, left, heard)
    BY <1>5, <1>6, <1>9, BecomesOnly DEF Sends, me
  <2> QED
    BY <1>2, <1>3, <1>4, <1>9, <2>1 DEF p, left, heard
<1> QED
  BY <1>8, <1>9

-----------------------------------------------------------------------------
(* All the steps of a thread *)

\* Request r arrives over c; an answer to a friend request uses up an offer.
Arrives(c, r) ==
  /\ Receive(c, r)
  /\ r.type \in Workload /\ r.type \in Kinds /\ r.name \in User
  /\ IF r.type \in {"create", "login"} THEN me(c) = NoUser \/ Relogin ELSE me(c) \in User
  /\ IF r.type \in {"accept", "reject", "hide"}
       THEN /\ offers[c][r.name] > 0
            /\ offers' = [offers EXCEPT ![c][r.name] = @ - 1]
       ELSE UNCHANGED offers

\* The steps of the thread of c when nothing fails.
Proceeds(c) ==
  \/ Move(c)
  \/ Spawn(c) \/ Close(c) \/ Respond(c)
  \/ \E r \in Requests : Arrives(c, r)
  \/ CreateInsert(c) \/ Register(c)
  \/ LoginIncoming(c) \/ LoginOutgoing(c) \/ LoginFriends(c) \/ ByeFriends(c)
  \/ \E n \in User : \/ EachIncoming(c, n) \/ EachOutgoing(c, n)
                     \/ EachFriend(c, n) \/ EachBye(c, n)
  \/ AskInsert(c)
  \/ AcceptRemove(c) \/ AcceptFirst(c) \/ AcceptSecond(c) \/ AcceptAnnounce(c)
  \/ RejectTell(c) \/ RejectRemove(c) \/ Hide(c)
  \/ MessageCheck(c)
  \/ Collect(c) \/ \E k \in Conn : Deliver(c, k)

\* Whatever request comes, it arrives.
LEMMA ArrivesIs ==
  ASSUME IInv, NEW c \in Conn, NEW u \in User,
         \/ \E p \in Password, type \in {"create", "login"} :
              ReceiveCredentials(c, type, u, p)
         \/ ReceiveAsk(c, u) \/ ReceiveMessage(c, u)
         \/ \E type \in {"accept", "reject", "hide"} : ReceiveAcknowledge(c, type, u)
  PROVE  \E r \in Requests : Arrives(c, r)
<1> DEFINE Req(k, p) == [type |-> k, name |-> u, pass |-> p]
<1>1. \A k \in Kinds, p \in Password \cup {NoPassword} :
         Req(k, p) \in Requests /\ Req(k, p).type = k /\ Req(k, p).name = u
  BY DEF Requests
<1>2. me(c) \in User \cup {NoUser}
  BY ThreadFields
<1>3. ASSUME NEW p \in Password, NEW type \in {"create", "login"},
             ReceiveCredentials(c, type, u, p)
      PROVE  \E r \in Requests : Arrives(c, r)
  <2>1. /\ Receive(c, Req(type, p)) /\ UNCHANGED offers /\ type \in Workload
        /\ me(c) = NoUser \/ Relogin
    BY <1>3 DEF ReceiveCredentials
  <2>2. type \in Kinds /\ type \notin {"accept", "reject", "hide"}
    BY DEF Kinds
  <2> HIDE DEF Req
  <2>3. Arrives(c, Req(type, p))
    BY <1>1, <2>1, <2>2 DEF Arrives
  <2> QED
    BY <1>1, <2>2, <2>3
<1>4. ASSUME NEW k \in {"ask", "message"} \cap Workload, me(c) # NoUser, UNCHANGED offers,
             Receive(c, Req(k, NoPassword))
      PROVE  \E r \in Requests : Arrives(c, r)
  <2>1. k \in Kinds /\ k \notin {"accept", "reject", "hide", "create", "login"}
    BY DEF Kinds
  <2> HIDE DEF Req
  <2>2. Arrives(c, Req(k, NoPassword))
    BY <1>1, <1>2, <1>4, <2>1 DEF Arrives
  <2> QED
    BY <1>1, <2>1, <2>2
<1>5. ASSUME NEW k \in {"accept", "reject", "hide"}, ReceiveAcknowledge(c, k, u)
      PROVE  \E r \in Requests : Arrives(c, r)
  <2>1. /\ k \in Workload /\ me(c) # NoUser /\ Receive(c, Req(k, NoPassword))
        /\ offers[c][u] > 0 /\ offers' = [offers EXCEPT ![c][u] = @ - 1]
    BY <1>5 DEF ReceiveAcknowledge
  <2>2. k \in Kinds /\ k \notin {"create", "login"}
    BY DEF Kinds
  <2> HIDE DEF Req
  <2>3. Arrives(c, Req(k, NoPassword))
    BY <1>1, <1>2, <2>1, <2>2 DEF Arrives
  <2> QED
    BY <1>1, <2>2, <2>3
<1>6. CASE ReceiveAsk(c, u)
  BY <1>4, <1>6 DEF ReceiveAsk
<1>7. CASE ReceiveMessage(c, u)
  BY <1>4, <1>7 DEF ReceiveMessage
<1> QED
  BY <1>3, <1>5, <1>6, <1>7

\* None of them changes the world.
LEMMA ProceedsQuietly ==
  ASSUME IInv, NEW c \in Conn, Proceeds(c), faults' = 0
  PROVE  UNCHANGED world
<1>1. Move(c) => UNCHANGED world
  BY DEF Move, Local
<1>2. Spawn(c) \/ Close(c) \/ Respond(c) => UNCHANGED world
  BY SpawnIs, CloseIs, RespondIs DEF Local
<1>3. ASSUME NEW r \in Requests, Arrives(c, r) PROVE UNCHANGED world
  BY <1>3 DEF Arrives, Receive
<1>4. CreateInsert(c) \/ Register(c) \/ AskInsert(c) => UNCHANGED world
  BY CreateInsertIs, RegisterIs, AskInsertIs DEF Stored
<1>5. LoginIncoming(c) \/ LoginOutgoing(c) \/ LoginFriends(c) \/ ByeFriends(c)
        => UNCHANGED world
  BY WalksAre DEF Walks, Local
<1>6. ASSUME NEW n \in User,
             EachIncoming(c, n) \/ EachOutgoing(c, n) \/ EachFriend(c, n) \/ EachBye(c, n)
      PROVE  UNCHANGED world
  BY <1>6, TurnsAre DEF Turns, Local
<1>7. AcceptRemove(c) \/ AcceptFirst(c) \/ AcceptSecond(c) \/ RejectRemove(c) \/ Hide(c)
        => UNCHANGED world
  BY AcceptRemoveIs, AcceptFirstIs, AcceptSecondIs, RejectRemoveIs, HideIs DEF Stored
<1>8. AcceptAnnounce(c) \/ RejectTell(c) \/ MessageCheck(c) => UNCHANGED world
  BY AcceptAnnounceIs, RejectTellIs, MessageCheckIs DEF Local, Move
<1>9. Collect(c) => UNCHANGED world
  BY CollectIs DEF Local
<1>10. ASSUME NEW k \in Conn, Deliver(c, k) PROVE UNCHANGED world
  BY <1>10, DeliverIs
<1> QED
  BY <1>1, <1>2, <1>3, <1>4, <1>5, <1>6, <1>7, <1>8, <1>9, <1>10 DEF Proceeds

\* A step after which nothing has failed is such a step of some thread, or the
\* process ends or starts again.
LEMMA UnfailingStep ==
  ASSUME IInv, [Next]_vars, faults' = 0
  PROVE  /\ faults = 0
         /\ \/ UNCHANGED vars
            \/ \E c \in Conn : Proceeds(c) /\ UNCHANGED world
            \/ \E why \in {"crashed", "killed"} :
                 Down(why) /\ UNCHANGED <<dbVars, faults, restarts>>
            \/ Restart
<1>1. ~Fault
  BY NoneFails
<1>2. ~ (faults < MaxFaults /\ faults' = faults + 1)
  BY DEF IInv, TypeOK, WorldTypeOK
<1>3. ASSUME NEW c \in Conn, Work(c)
      PROVE  \/ Proceeds(c)
             \/ Down("crashed") /\ UNCHANGED <<dbVars, faults, restarts>>
  <2>1. ASSUME NEW k \in Conn, DeliverToErased(c, k)
        PROVE  Down("crashed") /\ UNCHANGED <<dbVars, faults, restarts>>
    BY <2>1 DEF DeliverToErased
  <2>2. CreateCheck(c) \/ LoginCheck(c) \/ LoginPassword(c) \/ AskCheck(c)
          \/ LoginDone(c) \/ ByeDone(c) => Move(c)
    BY MoveIs
  <2>3. CASE \E k \in Conn : Deliver(c, k) \/ DeliverToErased(c, k)
    BY <2>1, <2>3 DEF Proceeds
  <2> QED
    BY <1>3, <2>2, <2>3, Zenon DEF Work, Proceeds
<1>4. ASSUME NEW c \in Conn, Outside(c) PROVE Proceeds(c)
  <2>1. ~ReceiveInvalid(c) /\ ~SendRaisesSignal(c)
    BY <1>1, <1>2 DEF ReceiveInvalid, SendRaisesSignal
  <2> QED
    BY <1>4, <2>1, MoveIs, ArrivesIs DEF Outside, Proceeds
<1>5. Kill => Down("killed") /\ UNCHANGED <<dbVars, faults, restarts>>
  BY DEF Kill
<1>6. \/ UNCHANGED vars
      \/ \E c \in Conn : Proceeds(c) /\ UNCHANGED world
      \/ \E why \in {"crashed", "killed"} :
           Down(why) /\ UNCHANGED <<dbVars, faults, restarts>>
      \/ Restart
  BY <1>3, <1>4, <1>5, ProceedsQuietly DEF Next, Finished
<1>7. Restart => UNCHANGED faults
  BY DEF Restart
<1> QED
  BY <1>6, <1>7 DEF vars, world

\* In an undisturbed server some thread proceeds.
LEMMA UndisturbedStep ==
  ASSUME IInv, [Next]_vars, Undisturbed'
  PROVE  /\ Undisturbed
         /\ faults' = 0
         /\ UNCHANGED vars \/ \E c \in Conn : Proceeds(c)
<1>1. faults' = 0 /\ restarts' = 0 /\ server' = "up"
  BY DEF Undisturbed
<1>2. \A why \in {"crashed", "killed"} : ~Down(why)
  BY <1>1 DEF Down
<1>3. ~Restart
  <2>1. restarts \in Nat
    BY BoundAssumption DEF IInv, TypeOK, WorldTypeOK
  <2> QED
    BY <1>1, <2>1 DEF Restart
<1> QED
  BY <1>1, <1>2, <1>3, UnfailingStep DEF Undisturbed, vars, world

-----------------------------------------------------------------------------
(* The calls of sendOutPacket and their targets *)

\* A step that is not one of sendOutPacket is taken with no call left to make,
\* tells no client of a status, and leaves every thread its user, unless that is
\* where a session begins.
LEMMA NotSending ==
  ASSUME IInv, NEW c \in Conn, Proceeds(c), faults' = 0,
         ~Collect(c), \A k \in Conn : ~Deliver(c, k)
  PROVE  /\ thread[c].out = <<>>
         /\ thread'[c].targetIDs \in {thread[c].targetIDs, NoTargets}
         /\ thread'[c].pc = "recv" => thread'[c].out = <<>>
         /\ thread'[c].connectedUser = me(c) \/ Register(c)
         /\ \A d \in Conn \ {c} : thread'[d] = thread[d]
         /\ UNCHANGED status
<1> USE DEF clients
<1> DEFINE Still ==
      /\ thread[c].out = <<>>
      /\ thread'[c].targetIDs \in {thread[c].targetIDs, NoTargets}
      /\ thread'[c].pc = "recv" => thread'[c].out = <<>>
      /\ thread'[c].connectedUser = me(c) \/ Register(c)
      /\ \A d \in Conn \ {c} : thread'[d] = thread[d]
      /\ UNCHANGED status
<1> SUFFICES Still
  OBVIOUS
<1>1. Move(c) => Still
  BY DEF Move, Acts, Local
<1>2. Spawn(c) => Still
  <2>1. thread[c].pc = "none" => thread[c].out = <<>>
    BY DEF IInv, LocalsOK
  <2> QED
    BY <2>1, SpawnIs DEF StartsOver
<1>3. Close(c) \/ Respond(c) => Still
  BY CloseIs, RespondIs DEF StartsOver, Local
<1>4. ASSUME NEW r \in Requests, Arrives(c, r) PROVE Still
  BY <1>4, ReceiveIs DEF Arrives
<1>5. CreateInsert(c) \/ AskInsert(c) => Still
  BY CreateInsertIs, AskInsertIs DEF Acts, Stored
<1>6. Register(c) => Still
  BY RegisterIs
<1>7. LoginIncoming(c) \/ LoginOutgoing(c) \/ LoginFriends(c) \/ ByeFriends(c) => Still
  BY WalksAre DEF Walks, Acts, Local
<1>8. ASSUME NEW n \in User,
             EachIncoming(c, n) \/ EachOutgoing(c, n) \/ EachFriend(c, n) \/ EachBye(c, n)
      PROVE  Still
  BY <1>8, TurnsAre DEF Turns, Acts, Local
<1>9. AcceptRemove(c) \/ AcceptFirst(c) \/ AcceptSecond(c) \/ RejectRemove(c) \/ Hide(c)
        => Still
  BY AcceptRemoveIs, AcceptFirstIs, AcceptSecondIs, RejectRemoveIs, HideIs DEF Acts, Stored
<1>10. AcceptAnnounce(c) \/ RejectTell(c) => Still
  BY AcceptAnnounceIs, RejectTellIs DEF Acts, Local
<1>11. MessageCheck(c) => Still
  BY <1>1, MessageCheckIs DEF Acts, Local
<1> HIDE DEF Still
<1> QED
  BY <1>1, <1>2, <1>3, <1>4, <1>5, <1>6, <1>7, <1>8, <1>9, <1>10, <1>11 DEF Proceeds

\* Targets are those of a call; who waits for a request has no call left.
Settled ==
  \A c \in Conn :
    /\ thread[c].out = <<>> => thread[c].targetIDs = NoTargets
    /\ thread[c].pc = "recv" => thread[c].out = <<>>

\* The targets of a call are logged in as its addressee.
Aimed ==
  \A c, k \in Conn :
    thread[c].targetIDs[k] > 0
      => thread[c].out # <<>> /\ me(k) = Head(thread[c].out).to

AimInv ==
  /\ IInv
  /\ faults = 0 => Settled /\ (~Relogin => Aimed)

\* At the start, and after the process ended, nobody sends.
LEMMA NobodySends ==
  ASSUME thread = AllFresh
  PROVE  Settled /\ Aimed
<1>1. \A c \in Conn : thread[c].pc = "none" /\ thread[c].targetIDs = NoTargets
  BY DEF AllFresh, Fresh
<1> QED
  BY <1>1 DEF Settled, Aimed, NoTargets

\* sendOutPacket takes its targets from the registry, which is exact.
LEMMA AimStep ==
  ASSUME IInv, NEW c \in Conn, Proceeds(c), faults' = 0, Settled, ~Relogin => Aimed
  PROVE  Settled' /\ (~Relogin => Aimed')
<1>1. CASE Collect(c)
  <2> DEFINE p == Head(thread[c].out)
             ids == clientIDs[p.to]
  <2>1. /\ thread[c].out # <<>> /\ thread[c].targetIDs = NoTargets
        /\ \/ ids = NoTargets /\ Sends(c, Tail(thread[c].out), NoTargets, thread[c].reached)
           \/ Sends(c, thread[c].out, ids, thread[c].reached)
    BY <1>1, CollectIs
  <2>2. thread[c].pc # "recv" /\ p.to \in User
    BY <1>1, <2>1, SenderRuns DEF Collect, Settled, Calls
  <2>3. ~Relogin => \A k \in Conn : ids[k] > 0 => me(k) = p.to
    BY <2>2 DEF IInv, RegistryExact
  <2> HIDE DEF p, ids
  <2>4. Settled'
    BY <2>1, <2>2 DEF Settled, Sends
  <2>5. ASSUME ~Relogin PROVE Aimed'
    BY <2>1, <2>3, <2>5 DEF Aimed, Sends, me, p, NoTargets
  <2> QED
    BY <2>4, <2>5
<1>2. ASSUME NEW k \in Conn, Deliver(c, k) PROVE Settled' /\ (~Relogin => Aimed')
  <2> DEFINE left == Without(thread[c].targetIDs, k)
  <2>1. /\ thread[c].out # <<>>
        /\ left \in [Conn -> Nat]
        /\ \E heard : \/ left = NoTargets /\ Sends(c, Tail(thread[c].out), NoTargets, heard)
                      \/ left # NoTargets /\ Sends(c, thread[c].out, left, heard)
    BY <1>2, DeliverIs
  <2>2. thread[c].pc # "recv"
    BY <2>1 DEF Settled
  <2>3. \A j \in Conn : left[j] > 0 => thread[c].targetIDs[j] > 0
    BY <1>2, <2>1, DeliverIs, ThreadFields DEF Without
  <2> HIDE DEF left
  <2>4. Settled'
    BY <2>1, <2>2 DEF Settled, Sends
  <2>5. ASSUME ~Relogin PROVE Aimed'
    BY <2>1, <2>3, <2>5 DEF Aimed, Sends, me, NoTargets
  <2> QED
    BY <2>4, <2>5
<1>3. CASE ~Collect(c) /\ \A k \in Conn : ~Deliver(c, k)
  <2>1. /\ thread[c].out = <<>>
        /\ thread'[c].targetIDs \in {thread[c].targetIDs, NoTargets}
        /\ thread'[c].pc = "recv" => thread'[c].out = <<>>
        /\ thread'[c].connectedUser = me(c) \/ Register(c)
        /\ \A d \in Conn \ {c} : thread'[d] = thread[d]
    BY <1>3, NotSending
  <2>2. thread'[c].targetIDs = NoTargets
    BY <2>1 DEF Settled
  <2>3. Settled'
    BY <2>1, <2>2 DEF Settled
  <2>4. ASSUME ~Relogin PROVE Aimed'
    <3>1. Register(c) => me(c) = NoUser
      BY <2>4 DEF Register, At, IInv, LocalsOK, CredentialLabels, me
    <3>2. SUFFICES ASSUME NEW d \in Conn \ {c}, NEW k \in Conn, thread[d].targetIDs[k] > 0
                   PROVE  thread[d].out # <<>> /\ me(k)' = Head(thread[d].out).to
      BY <2>1, <2>2 DEF Aimed, NoTargets, me
    <3>3. thread[d].out # <<>> /\ me(k) = Head(thread[d].out).to
      BY <2>4, <3>2 DEF Aimed
    <3>4. Head(thread[d].out) \in Calls
      BY <3>3, ThreadFields
    <3>5. me(k) \in User
      BY <3>3, <3>4 DEF Calls
    <3> QED
      BY <2>1, <3>1, <3>3, <3>5, NoUserAssumption DEF me
  <2> QED
    BY <2>3, <2>4
<1> QED
  BY <1>1, <1>2, <1>3

\* Calls and targets stay in step.
LEMMA AimInvariant == Spec => []AimInv
<1>1. Init => AimInv
  BY InitInv, NobodySends DEF AimInv, Init
<1>2. AimInv /\ [Next]_vars => AimInv'
  <2> SUFFICES ASSUME AimInv, [Next]_vars, faults' = 0
               PROVE  Settled' /\ (~Relogin => Aimed')
    BY NextInv DEF AimInv
  <2>1. /\ faults = 0
        /\ \/ UNCHANGED vars
           \/ \E c \in Conn : Proceeds(c) /\ UNCHANGED world
           \/ \E why \in {"crashed", "killed"} :
                Down(why) /\ UNCHANGED <<dbVars, faults, restarts>>
           \/ Restart
    BY UnfailingStep DEF AimInv
  <2>2. IInv /\ Settled /\ (~Relogin => Aimed)
    BY <2>1 DEF AimInv
  <2>3. CASE UNCHANGED vars \/ Restart
    BY <2>2, <2>3 DEF vars, Restart, Settled, Aimed, me
  <2>4. ASSUME NEW c \in Conn, Proceeds(c) PROVE Settled' /\ (~Relogin => Aimed')
    BY <2>2, <2>4, AimStep
  <2>5. ASSUME NEW why \in {"crashed", "killed"}, Down(why)
        PROVE  Settled' /\ (~Relogin => Aimed')
    <3>1. (thread = AllFresh)'
      BY <2>5 DEF Down, AllFresh, Fresh, NoTargets, Nobody, NoRequest
    <3> QED
      BY <3>1, NobodySends, PTL
  <2> QED
    BY <2>1, <2>3, <2>4, <2>5
<1> QED
  BY <1>1, <1>2, PTL DEF Spec
=============================================================================
