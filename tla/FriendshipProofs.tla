-------------------------- MODULE FriendshipProofs --------------------------
(***************************************************************************)
(* Friendships and friend requests in Falcon, for every set of users and   *)
(* connections and every bound: the two rows of a friendship are inserted  *)
(* in equal numbers; a client is told the status of its user's friends     *)
(* only; and no request that is stored and shown is lost on a session of   *)
(* its recipient that logged in by password.  Then who is online, and what *)
(* others make of it: a message that was confirmed reached somebody, and   *)
(* two friends never both miss each other.                                 *)
(*                                                                         *)
(* That no request is lost assumes that no client of the run creates an    *)
(* account: a session that begins with CREATE_ACCOUNT does not look up the *)
(* requests that wait for it (server.cpp:262).                             *)
(***************************************************************************)
EXTENDS FalconProofs, FiniteSetTheorems

-----------------------------------------------------------------------------
(* Friendship is mutual *)

\* The threads that HalfDone counts.
Halves(u, v) ==
  {c \in Conn : thread[c].pc = "accept_second" /\ you(c) = u /\ me(c) = v}

Mutual ==
  \A u, v \in User : friends[u][v] + HalfDone(v, u) = friends[v][u] + HalfDone(u, v)

\* Cardinalities mean something for finite sets: connections are opened one by
\* one, so those that are open are finitely many, and the halves are among them.
MutualInv ==
  /\ IInv
  /\ Undisturbed => IsFiniteSet(live) /\ Mutual

\* The halves are finitely many.
LEMMA HalvesFinite ==
  ASSUME IInv, IsFiniteSet(live), NEW u, NEW v
  PROVE  /\ IsFiniteSet(Halves(u, v))
         /\ HalfDone(u, v) = Cardinality(Halves(u, v))
         /\ HalfDone(u, v) \in Nat
<1>1. Halves(u, v) \subseteq live
  BY DEF Halves, IInv, SocketsExact
<1>2. IsFiniteSet(Halves(u, v)) /\ Cardinality(Halves(u, v)) \in Nat
  BY <1>1, FS_Subset, FS_CardinalityType
<1> QED
  BY <1>2 DEF HalfDone, Halves

\* A step that inserts no friendship moves no thread to or from half way.
LEMMA NoHalfStep ==
  ASSUME IInv, NEW c \in Conn, Proceeds(c), faults' = 0,
         ~AcceptFirst(c), ~AcceptSecond(c)
  PROVE  /\ UNCHANGED friends
         /\ \A d \in Conn \ {c} : thread'[d] = thread[d]
         /\ \/ thread[c].pc # "accept_second" /\ thread'[c].pc # "accept_second"
            \/ /\ thread'[c].pc = thread[c].pc /\ thread'[c].req = thread[c].req
               /\ thread'[c].connectedUser = me(c)
         /\ live' \in {live, live \cup {c}, live \ {c}}
<1> DEFINE Aside ==
      /\ UNCHANGED friends
      /\ \A d \in Conn \ {c} : thread'[d] = thread[d]
      /\ \/ thread[c].pc # "accept_second" /\ thread'[c].pc # "accept_second"
         \/ /\ thread'[c].pc = thread[c].pc /\ thread'[c].req = thread[c].req
            /\ thread'[c].connectedUser = me(c)
      /\ live' \in {live, live \cup {c}, live \ {c}}
<1> SUFFICES Aside
  OBVIOUS
<1>1. Move(c) => Aside
  BY DEF Move, Moves, Acts, Local, dbVars, registry
<1>2. Spawn(c) \/ Close(c) => Aside
  BY SpawnIs, CloseIs DEF StartsOver, dbVars, registry
<1>3. Respond(c) => Aside
  BY RespondIs DEF StartsOver, Local, dbVars, registry
<1>4. ASSUME NEW r \in Requests, Arrives(c, r) PROVE Aside
  <2>1. Case(r.type) # "accept_second"
    BY <1>4 DEF Case, Kinds, Arrives
  <2> QED
    BY <1>4, <2>1, ReceiveIs DEF Arrives, dbVars, registry
<1>5. CreateInsert(c) => Aside
  BY CreateInsertIs DEF Acts, Stored, insertNewUser, registry
<1>6. Register(c) => Aside
  BY RegisterIs DEF dbVars
<1>7. LoginIncoming(c) \/ LoginOutgoing(c) \/ LoginFriends(c) \/ ByeFriends(c) => Aside
  BY WalksAre DEF Walks, Acts, Local, dbVars, registry
<1>8. ASSUME NEW n \in User,
             EachIncoming(c, n) \/ EachOutgoing(c, n) \/ EachFriend(c, n) \/ EachBye(c, n)
      PROVE  Aside
  BY <1>8, TurnsAre DEF Turns, Acts, Local, dbVars, registry
<1>9. AskInsert(c) => Aside
  BY AskInsertIs DEF Acts, Stored, insertFriendRequest, registry
<1>10. AcceptRemove(c) \/ RejectRemove(c) \/ Hide(c) => Aside
  BY AcceptRemoveIs, RejectRemoveIs, HideIs
  DEF Acts, Stored, removeFriendRequest, hideFriendRequest, registry
<1>11. AcceptAnnounce(c) \/ RejectTell(c) => Aside
  BY AcceptAnnounceIs, RejectTellIs DEF Acts, Local, dbVars, registry
<1>12. MessageCheck(c) => Aside
  BY <1>1, MessageCheckIs DEF Acts, Local, dbVars, registry
<1>13. Collect(c) => Aside
  BY CollectIs DEF Sends, Local, dbVars, registry
<1>14. ASSUME NEW k \in Conn, Deliver(c, k) PROVE Aside
  BY <1>14, DeliverIs DEF Sends, dbVars, registry
<1> HIDE DEF Aside
<1> QED
  BY <1>1, <1>2, <1>3, <1>4, <1>5, <1>6, <1>7, <1>8, <1>9, <1>10, <1>11, <1>12, <1>13, <1>14
  DEF Proceeds

\* ... so that the friendship stays as mutual as it was.
LEMMA NoHalfMutual ==
  ASSUME IInv, IInv', NEW c \in Conn, Proceeds(c), faults' = 0,
         ~AcceptFirst(c), ~AcceptSecond(c), IsFiniteSet(live), Mutual
  PROVE  IsFiniteSet(live)' /\ Mutual'
<1>1. /\ UNCHANGED friends
      /\ \A d \in Conn \ {c} : thread'[d] = thread[d]
      /\ \/ thread[c].pc # "accept_second" /\ thread'[c].pc # "accept_second"
         \/ /\ thread'[c].pc = thread[c].pc /\ thread'[c].req = thread[c].req
            /\ thread'[c].connectedUser = me(c)
      /\ live' \in {live, live \cup {c}, live \ {c}}
  BY NoHalfStep
<1>2. IsFiniteSet(live')
  BY <1>1, FS_AddElement, FS_RemoveElement
<1>3. \A u, v \in User : HalfDone(u, v)' = HalfDone(u, v)
  BY <1>1 DEF HalfDone, you, me
<1> QED
  BY <1>1, <1>2, <1>3 DEF Mutual

\* One row more.
LEMMA RowInserted ==
  ASSUME IInv, NEW l \in User, NEW r \in User, insertFriendRow(l, r),
         NEW u \in User, NEW v \in User
  PROVE  /\ friends[u][v] \in Nat
         /\ friends'[u][v] = IF u = l /\ v = r THEN friends[u][v] + 1 ELSE friends[u][v]
<1>1. friends \in [User -> Names] /\ friends[u] \in Names /\ friends[u][v] \in Nat
  BY DEF IInv, TypeOK, DbTypeOK, Names
<1>2. friends' = [friends EXCEPT ![l] = [friends[l] EXCEPT ![r] = friends[l][r] + 1]]
  BY DEF insertFriendRow
<1>3. friends'[u] = IF u = l THEN [friends[u] EXCEPT ![r] = friends[u][r] + 1] ELSE friends[u]
  BY <1>1, <1>2
<1> QED
  BY <1>1, <1>3 DEF Names

\* The first row of a friendship makes one half more.
LEMMA FirstMutual ==
  ASSUME IInv, IInv', NEW c \in Conn, AcceptFirst(c), faults' = 0, IsFiniteSet(live), Mutual
  PROVE  IsFiniteSet(live)' /\ Mutual'
<1>1. /\ thread[c].pc = "accept_first"
      /\ insertFriendRow(you(c), me(c))
      /\ Acts(c, "accept_second", thread[c].resp, thread[c].names, <<>>)
      /\ live' = live
  BY AcceptFirstIs DEF Stored, registry
<1>2. you(c) \in User /\ me(c) \in User
  BY <1>1 DEF IInv, LocalsOK, UserLabels, AskingLabels, you, me
<1>3. IsFiniteSet(live')
  BY <1>1
<1>4. ASSUME NEW u \in User, NEW v \in User
      PROVE  /\ HalfDone(u, v) \in Nat
             /\ HalfDone(u, v)' = IF u = you(c) /\ v = me(c) THEN HalfDone(u, v) + 1
                                                          ELSE HalfDone(u, v)
  <2>1. /\ IsFiniteSet(Halves(u, v)) /\ HalfDone(u, v) = Cardinality(Halves(u, v))
        /\ HalfDone(u, v) \in Nat
    BY HalvesFinite
  <2>2. HalfDone(u, v)' = Cardinality(Halves(u, v)')
    BY DEF HalfDone, Halves
  <2>3. CASE u = you(c) /\ v = me(c)
    <3>1. c \notin Halves(u, v) /\ c \in Halves(u, v)'
      BY <1>1, <2>3 DEF Halves, Acts, you, me
    <3>2. \A d \in Conn \ {c} : d \in Halves(u, v)' <=> d \in Halves(u, v)
      BY <1>1 DEF Halves, Acts, you, me
    <3>3. Halves(u, v) \subseteq Conn /\ Halves(u, v)' \subseteq Conn
      BY DEF Halves
    <3>4. Halves(u, v)' = Halves(u, v) \cup {c}
      BY <3>1, <3>2, <3>3
    <3> QED
      BY ZenonT(30), <2>1, <2>2, <2>3, <3>1, <3>4, FS_AddElement
  <2>4. CASE ~(u = you(c) /\ v = me(c))
    <3>1. Halves(u, v)' = Halves(u, v)
      BY <1>1, <2>4 DEF Halves, Acts, you, me
    <3> QED
      BY <2>1, <2>2, <2>4, <3>1
  <2> QED
    BY <2>1, <2>3, <2>4
<1>5. ASSUME NEW u \in User, NEW v \in User
      PROVE  /\ friends[u][v] \in Nat
             /\ friends'[u][v] = IF u = you(c) /\ v = me(c) THEN friends[u][v] + 1
                                                         ELSE friends[u][v]
  BY <1>1, <1>2, RowInserted
<1>6. Mutual'
  <2> SUFFICES ASSUME NEW u \in User, NEW v \in User
               PROVE  friends'[u][v] + HalfDone(v, u)' = friends'[v][u] + HalfDone(u, v)'
    BY DEF Mutual
  <2>1. friends[u][v] + HalfDone(v, u) = friends[v][u] + HalfDone(u, v)
    BY DEF Mutual
  <2> QED
    BY <1>4, <1>5, <2>1
<1> QED
  BY <1>3, <1>6

\* The second row of a friendship makes one half less.
LEMMA SecondMutual ==
  ASSUME IInv, IInv', NEW c \in Conn, AcceptSecond(c), faults' = 0, IsFiniteSet(live), Mutual
  PROVE  IsFiniteSet(live)' /\ Mutual'
<1>1. /\ thread[c].pc = "accept_second"
      /\ insertFriendRow(me(c), you(c))
      /\ Acts(c, "accept_announce", thread[c].resp, thread[c].names, <<>>)
      /\ live' = live
  BY AcceptSecondIs DEF Stored, registry
<1>2. you(c) \in User /\ me(c) \in User
  BY <1>1 DEF IInv, LocalsOK, UserLabels, AskingLabels, you, me
<1>3. IsFiniteSet(live')
  BY <1>1
<1>4. ASSUME NEW u \in User, NEW v \in User
      PROVE  /\ HalfDone(u, v) \in Nat
             /\ HalfDone(u, v)' = IF u = you(c) /\ v = me(c) THEN HalfDone(u, v) - 1
                                                          ELSE HalfDone(u, v)
  <2>1. /\ IsFiniteSet(Halves(u, v)) /\ HalfDone(u, v) = Cardinality(Halves(u, v))
        /\ HalfDone(u, v) \in Nat
    BY HalvesFinite
  <2>2. HalfDone(u, v)' = Cardinality(Halves(u, v)')
    BY DEF HalfDone, Halves
  <2>3. CASE u = you(c) /\ v = me(c)
    <3>1. Halves(u, v)' = Halves(u, v) \ {c} /\ c \in Halves(u, v)
      <4>1. c \in Halves(u, v)
        BY <1>1, <2>3 DEF Halves
      <4>2. c \notin Halves(u, v)'
        BY <1>1 DEF Halves, Acts
      <4>3. \A d \in Conn \ {c} : d \in Halves(u, v)' <=> d \in Halves(u, v)
        BY <1>1 DEF Halves, Acts, you, me
      <4> QED
        BY <4>1, <4>2, <4>3 DEF Halves
    <3>2. Cardinality(Halves(u, v) \ {c}) = Cardinality(Halves(u, v)) - 1
      BY <2>1, <3>1, FS_RemoveElement
    <3> QED
      BY <2>1, <2>2, <2>3, <3>1, <3>2
  <2>4. CASE ~(u = you(c) /\ v = me(c))
    <3>1. Halves(u, v)' = Halves(u, v)
      BY <1>1, <2>4 DEF Halves, Acts, you, me
    <3> QED
      BY <2>1, <2>2, <2>4, <3>1
  <2> QED
    BY <2>1, <2>3, <2>4
<1>5. ASSUME NEW u \in User, NEW v \in User
      PROVE  /\ friends[u][v] \in Nat
             /\ friends'[u][v] = IF u = me(c) /\ v = you(c) THEN friends[u][v] + 1
                                                         ELSE friends[u][v]
  BY <1>1, <1>2, RowInserted
<1>6. Mutual'
  <2> SUFFICES ASSUME NEW u \in User, NEW v \in User
               PROVE  friends'[u][v] + HalfDone(v, u)' = friends'[v][u] + HalfDone(u, v)'
    BY DEF Mutual
  <2>1. friends[u][v] + HalfDone(v, u) = friends[v][u] + HalfDone(u, v)
    BY DEF Mutual
  <2> QED
    BY <1>4, <1>5, <2>1
<1> QED
  BY <1>3, <1>6

\* The pairs befriended at the start are symmetric.
LEMMA InitMutual == Init => MutualInv
<1> SUFFICES ASSUME Init PROVE IInv /\ IsFiniteSet(live) /\ Mutual
  BY DEF MutualInv
<1>1. IInv
  BY InitInv
<1>2. IsFiniteSet(live)
  BY FS_EmptySet DEF Init
<1>3. \A c \in Conn : thread[c].pc = "none"
  BY DEF Init, AllFresh, Fresh
<1>4. \A u, v \in User : HalfDone(u, v) = 0
  <2> SUFFICES ASSUME NEW u \in User, NEW v \in User PROVE HalfDone(u, v) = 0
    OBVIOUS
  <2>1. Halves(u, v) = {}
    BY <1>3 DEF Halves
  <2> QED
    BY <1>1, <1>2, <2>1, HalvesFinite, FS_EmptySet
<1>5. \A u, v \in User : friends[u][v] = friends[v][u] /\ friends[u][v] \in Nat
  BY BefriendedAssumption DEF Init
<1>6. Mutual
  BY <1>4, <1>5 DEF Mutual
<1> QED
  BY <1>1, <1>2, <1>6

\* No step makes a friendship one-sided.
LEMMA NextMutual == MutualInv /\ [Next]_vars => MutualInv'
<1> SUFFICES ASSUME MutualInv, [Next]_vars PROVE MutualInv'
  OBVIOUS
<1>1. IInv /\ IInv'
  BY NextInv DEF MutualInv
<1> SUFFICES ASSUME Undisturbed' PROVE IsFiniteSet(live)' /\ Mutual'
  BY <1>1 DEF MutualInv
<1>2. /\ Undisturbed /\ faults' = 0
      /\ UNCHANGED vars \/ \E c \in Conn : Proceeds(c)
  BY <1>1, UndisturbedStep
<1>3. IsFiniteSet(live) /\ Mutual
  BY <1>2 DEF MutualInv
<1>4. CASE UNCHANGED vars
  BY <1>3, <1>4 DEF vars, Mutual, HalfDone, you, me
<1>5. ASSUME NEW c \in Conn, Proceeds(c) PROVE IsFiniteSet(live)' /\ Mutual'
  BY <1>1, <1>2, <1>3, <1>5, NoHalfMutual, FirstMutual, SecondMutual
<1> QED
  BY <1>2, <1>4, <1>5

\* Friendship is mutual: in a server that nothing has disturbed, there are as
\* many rows one way as the other, but for the acceptances half way, however
\* many sessions accept, repeat and cross each other's requests
\* ("Insert bidirectional friendship (both directions)", database.cpp).
THEOREM FriendshipMutual == Spec => []FriendsMutual
<1>1. MutualInv => FriendsMutual
  BY DEF MutualInv, Mutual, FriendsMutual
<1> QED
  BY <1>1, InitMutual, NextMutual, PTL DEF Spec

-----------------------------------------------------------------------------
(* Status is told of friends only *)

Related(u, v) == friends[u][v] + friends[v][u] > 0

\* What is called with p, if it is a status, is of a friend of the addressee.
Proper(p) == p.type \in {"ONLINE", "OFFLINE"} => Related(p.to, p.name)

\* The calls a thread has to make are proper, the names it walks to tell of its
\* user are those of friends, and what it is about to announce has a row.
Discreet(c) ==
  /\ \A i \in 1..Len(thread[c].out) : Proper(thread[c].out[i])
  /\ thread[c].pc \in {"each_friend", "each_bye"}
       => \A n \in User : thread[c].names[n] > 0 => friends[me(c)][n] > 0
  /\ thread[c].pc \in {"accept_second", "accept_announce"} => friends[you(c)][me(c)] > 0

\* Whoever a client has heard of is a friend of the user of its session.
Heard ==
  \A c \in Conn, u \in User :
    status[c][u] # "unknown" => me(c) # NoUser /\ Related(me(c), u)

StatusInv ==
  Undisturbed /\ ~Relogin => Heard /\ \A c \in Conn : Discreet(c)

\* No row of friends is ever deleted.
LEMMA FriendsGrow ==
  ASSUME IInv, NEW c \in Conn, Proceeds(c), faults' = 0, NEW u \in User, NEW v \in User
  PROVE  friends[u][v] \in Nat /\ friends'[u][v] \in Nat /\ friends[u][v] <= friends'[u][v]
<1>1. friends[u][v] \in Nat
  BY DEF IInv, TypeOK, DbTypeOK, Names
<1>2. CASE AcceptFirst(c) \/ AcceptSecond(c)
  <2>1. /\ you(c) \in User /\ me(c) \in User
        /\ insertFriendRow(you(c), me(c)) \/ insertFriendRow(me(c), you(c))
    BY <1>2, AcceptFirstIs, AcceptSecondIs
    DEF IInv, LocalsOK, UserLabels, AskingLabels, you, me
  <2> QED
    BY <1>1, <2>1, RowInserted
<1>3. CASE ~AcceptFirst(c) /\ ~AcceptSecond(c)
  BY <1>1, <1>3, NoHalfStep
<1> QED
  BY <1>2, <1>3

\* So whoever is related stays related.
LEMMA RelatedStays ==
  ASSUME IInv, NEW c \in Conn, Proceeds(c), faults' = 0, NEW u \in User, NEW v \in User,
         Related(u, v)
  PROVE  Related(u, v)'
<1>1. /\ friends[u][v] \in Nat /\ friends'[u][v] \in Nat /\ friends[u][v] <= friends'[u][v]
      /\ friends[v][u] \in Nat /\ friends'[v][u] \in Nat /\ friends[v][u] <= friends'[v][u]
  BY FriendsGrow
<1> QED
  BY <1>1 DEF Related

\* What a thread that does not move was discreet about it is discreet about.
LEMMA DiscreetStays ==
  ASSUME IInv, NEW c \in Conn, Proceeds(c), faults' = 0,
         NEW d \in Conn, Discreet(d), thread'[d] = thread[d]
  PROVE  Discreet(d)'
<1>1. ASSUME NEW i \in 1..Len(thread[d].out) PROVE Proper(thread[d].out[i])'
  <2>1. thread[d].out[i] \in Calls
    BY <1>1, ThreadFields
  <2> QED
    BY <1>1, <2>1, RelatedStays DEF Discreet, Proper, Calls
<1>2. ASSUME thread[d].pc \in {"each_friend", "each_bye"}, NEW n \in User,
             thread[d].names[n] > 0
      PROVE  friends'[me(d)][n] > 0
  <2>1. me(d) \in User /\ friends[me(d)][n] > 0
    BY <1>2 DEF Discreet, IInv, LocalsOK, UserLabels, me
  <2> QED
    BY <2>1, FriendsGrow
<1>3. ASSUME thread[d].pc \in {"accept_second", "accept_announce"}
      PROVE  friends'[you(d)][me(d)] > 0
  <2>1. me(d) \in User /\ you(d) \in User /\ friends[you(d)][me(d)] > 0
    BY <1>3 DEF Discreet, IInv, LocalsOK, UserLabels, AskingLabels, me, you
  <2> QED
    BY <2>1, FriendsGrow
<1> QED
  BY <1>1, <1>2, <1>3 DEF Discreet, Proper, me, you

\* A thread that moves outside the loops and the acceptances, making no call of
\* a status, is discreet.
LEMMA NothingToTell ==
  ASSUME NEW c \in Conn, NEW o, thread'[c].out = o,
         \/ o = <<>>
         \/ \E p \in Calls : o = <<p>> /\ p.type \notin {"ONLINE", "OFFLINE"},
         thread'[c].pc \notin {"each_friend", "each_bye", "accept_second", "accept_announce"}
  PROVE  Discreet(c)'
  BY DEF Discreet, Proper

\* What a step of a thread leaves it to tell is of friends.
LEMMA ActorDiscreet ==
  ASSUME IInv, IInv', NEW c \in Conn, Proceeds(c), faults' = 0, Discreet(c),
         ~Collect(c), \A k \in Conn : ~Deliver(c, k)
  PROVE  Discreet(c)' /\ UNCHANGED status
<1> USE DEF clients
<1>0. \A u, v \in User : \A y \in {"FORWARD", "PENDING", "REJECT", "MESSAGE"} :
        Call(u, y, v) \in Calls /\ Call(u, y, v).type \notin {"ONLINE", "OFFLINE"}
  BY CallTyped DEF Call, PacketTypes
<1>a. \A d \in Conn : me(d) \in User \cup {NoUser}
  BY ThreadFields
<1>b. thread[c].pc \in UserLabels => me(c) \in User
  BY DEF IInv, LocalsOK, me
<1>c. thread[c].pc \in AskingLabels => you(c) \in User
  BY DEF IInv, LocalsOK, you
<1>1. CASE Move(c)
  <2>1. /\ thread'[c].out = <<>> /\ UNCHANGED status
        /\ thread'[c].pc \notin {"each_friend", "each_bye", "accept_second", "accept_announce"}
    BY <1>1 DEF Move, Moves, Acts, Local
  <2> QED
    BY <2>1, NothingToTell
<1>2. CASE Spawn(c) \/ Close(c) \/ Respond(c)
  <2>1. /\ thread'[c].out = <<>> /\ UNCHANGED status
        /\ thread'[c].pc \in {"recv", "closed"}
    BY <1>2, SpawnIs, CloseIs, RespondIs DEF StartsOver, Local
  <2> QED
    BY <2>1, NothingToTell
<1>3. CASE \E r \in Requests : Arrives(c, r)
  <2>1. PICK r \in Requests : Arrives(c, r)
    BY <1>3
  <2>2. thread'[c].out = <<>> /\ UNCHANGED status /\ thread'[c].pc = Case(r.type)
    BY <2>1, ReceiveIs DEF Arrives
  <2>3. Case(r.type) \notin {"each_friend", "each_bye", "accept_second", "accept_announce"}
    BY <2>1 DEF Arrives, Case, Kinds
  <2> QED
    BY <2>2, <2>3, NothingToTell
<1>4. CASE CreateInsert(c) \/ Register(c)
  <2>1. /\ thread'[c].out = <<>> /\ UNCHANGED status
        /\ thread'[c].pc \in {"register", "respond", "login_incoming"}
    BY <1>4, CreateInsertIs, RegisterIs DEF Acts, Stored
  <2> QED
    BY <2>1, NothingToTell
<1>5. CASE LoginIncoming(c) \/ LoginOutgoing(c)
  <2>1. /\ thread'[c].out = <<>> /\ UNCHANGED status
        /\ thread'[c].pc \in {"each_incoming", "each_outgoing"}
    BY <1>5, WalksAre DEF Walks, Acts, Local
  <2> QED
    BY <2>1, NothingToTell
<1>6. CASE LoginFriends(c) \/ ByeFriends(c)
  <2>1. /\ thread'[c].out = <<>> /\ UNCHANGED <<status, friends>>
        /\ thread'[c].pc \in {"each_friend", "each_bye"}
        /\ thread'[c].names = friends[me(c)]
        /\ thread'[c].connectedUser = me(c)
    BY <1>6, WalksAre DEF Walks, Acts, Local, dbVars, getFriendList
  <2> QED
    BY <2>1 DEF Discreet, me
<1>7. CASE \E n \in User : EachIncoming(c, n) \/ EachOutgoing(c, n)
  <2>1. PICK n \in User : EachIncoming(c, n) \/ EachOutgoing(c, n)
    BY <1>7
  <2>2. /\ UNCHANGED status
        /\ thread'[c].pc \in {"each_incoming", "each_outgoing"}
        /\ thread[c].pc \in UserLabels
        /\ thread'[c].out = <<Call(me(c), "FORWARD", n)>>
             \/ thread'[c].out = <<Call(me(c), "PENDING", n)>>
    BY <2>1, TurnsAre DEF Turns, Acts, Local, UserLabels
  <2> QED
    BY <1>0, <1>b, <2>2, NothingToTell
<1>8. CASE \E n \in User : EachFriend(c, n) \/ EachBye(c, n)
  <2>1. PICK n \in User : EachFriend(c, n) \/ EachBye(c, n)
    BY <1>8
  <2>2. PICK m \in Names :
          /\ UNCHANGED <<status, friends>>
          /\ thread[c].pc \in {"each_friend", "each_bye"} /\ thread'[c].pc = thread[c].pc
          /\ thread[c].names[n] > 0 /\ thread'[c].names = m
          /\ m[n] = thread[c].names[n] - 1
          /\ \A v \in User \ {n} : m[v] = thread[c].names[v]
          /\ thread'[c].out \in {Greeting(c, n), Farewell(c, n)}
          /\ thread'[c].connectedUser = me(c)
    BY <2>1, TurnsAre DEF Turns, Acts, Local, dbVars
  <2>3. me(c) \in User /\ friends[me(c)][n] > 0
    BY <1>b, <2>2 DEF UserLabels, Discreet
  <2>4. \A v \in User : m[v] > 0 => friends[me(c)][v] > 0
    BY <2>2, <2>3 DEF Discreet
  <2>5. /\ friends'[me(c)][n] + friends'[n][me(c)] > 0
        /\ friends'[n][me(c)] + friends'[me(c)][n] > 0
    <3>1. friends[me(c)][n] \in Nat /\ friends[n][me(c)] \in Nat
      BY <2>3 DEF IInv, TypeOK, DbTypeOK, Names
    <3> QED
      BY <2>2, <2>3, <3>1
  <2>6. \A i \in 1..Len(thread'[c].out) :
           \/ thread'[c].out[i].to = me(c) /\ thread'[c].out[i].name = n
           \/ thread'[c].out[i].to = n /\ thread'[c].out[i].name = me(c)
    BY <2>2 DEF Greeting, Farewell, Call
  <2>7. (\A i \in 1..Len(thread[c].out) : Proper(thread[c].out[i]))'
    BY <2>5, <2>6 DEF Proper, Related
  <2> QED
    BY <2>2, <2>4, <2>7 DEF Discreet, me
<1>9. CASE AskInsert(c)
  <2>1. /\ UNCHANGED status /\ thread'[c].pc = "respond"
        /\ thread[c].pc \in UserLabels /\ thread[c].pc \in AskingLabels
        /\ thread'[c].out = <<Call(you(c), "FORWARD", me(c))>>
    BY <1>9, AskInsertIs DEF Acts, Stored, UserLabels, AskingLabels
  <2> QED
    BY <1>0, <1>b, <1>c, <2>1, NothingToTell
<1>10. CASE AcceptRemove(c) \/ RejectRemove(c) \/ Hide(c)
  <2>1. /\ UNCHANGED status /\ thread'[c].pc \in {"accept_first", "respond"}
        /\ thread'[c].out = <<>>
    BY <1>10, AcceptRemoveIs, RejectRemoveIs, HideIs DEF Acts, Stored
  <2> QED
    BY <2>1, NothingToTell
<1>11. CASE AcceptFirst(c)
  <2>1. /\ UNCHANGED status /\ thread'[c].pc = "accept_second" /\ thread'[c].out = <<>>
        /\ insertFriendRow(you(c), me(c))
        /\ thread'[c].connectedUser = me(c) /\ thread'[c].req = thread[c].req
        /\ thread[c].pc \in UserLabels /\ thread[c].pc \in AskingLabels
    BY <1>11, AcceptFirstIs DEF Acts, Stored, UserLabels, AskingLabels
  <2>2. friends'[you(c)][me(c)] > 0
    BY <1>b, <1>c, <2>1, RowInserted
  <2> QED
    BY <2>1, <2>2 DEF Discreet, me, you
<1>12. CASE AcceptSecond(c)
  <2>1. /\ UNCHANGED status /\ thread'[c].pc = "accept_announce" /\ thread'[c].out = <<>>
        /\ thread'[c].connectedUser = me(c) /\ thread'[c].req = thread[c].req
        /\ thread[c].pc = "accept_second"
        /\ thread[c].pc \in UserLabels /\ thread[c].pc \in AskingLabels
    BY <1>12, AcceptSecondIs DEF Acts, Stored, UserLabels, AskingLabels
  <2>2. friends'[you(c)][me(c)] > 0
    BY <1>b, <1>c, <2>1, FriendsGrow DEF Discreet
  <2> QED
    BY <2>1, <2>2 DEF Discreet, me, you
<1>13. CASE AcceptAnnounce(c)
  <2>1. /\ UNCHANGED <<status, friends>> /\ thread'[c].pc = "respond"
        /\ thread'[c].out = Announcement(c)
        /\ thread[c].pc = "accept_announce"
        /\ thread[c].pc \in UserLabels /\ thread[c].pc \in AskingLabels
    BY <1>13, AcceptAnnounceIs DEF Acts, Local, dbVars, UserLabels, AskingLabels
  <2>2. me(c) \in User /\ you(c) \in User /\ friends[you(c)][me(c)] > 0
    BY <1>b, <1>c, <2>1 DEF Discreet
  <2>3. /\ friends'[me(c)][you(c)] + friends'[you(c)][me(c)] > 0
        /\ friends'[you(c)][me(c)] + friends'[me(c)][you(c)] > 0
    <3>1. friends[me(c)][you(c)] \in Nat /\ friends[you(c)][me(c)] \in Nat
      BY <2>2 DEF IInv, TypeOK, DbTypeOK, Names
    <3> QED
      BY <2>1, <2>2, <3>1
  <2>4. \A i \in 1..Len(thread'[c].out) :
           \E t \in {"ONLINE", "OFFLINE", "ACCEPT"} :
             thread'[c].out[i] \in {Call(me(c), t, you(c)), Call(you(c), t, me(c))}
    BY <2>1 DEF Announcement
  <2>5. (\A i \in 1..Len(thread[c].out) : Proper(thread[c].out[i]))'
    BY <2>3, <2>4 DEF Proper, Related, Call
  <2> QED
    BY <2>1, <2>5 DEF Discreet
<1>14. CASE RejectTell(c)
  <2>1. /\ UNCHANGED status /\ thread'[c].pc = "reject_remove"
        /\ thread[c].pc \in UserLabels /\ thread[c].pc \in AskingLabels
        /\ thread'[c].out = <<Call(you(c), "REJECT", me(c))>>
    BY <1>14, RejectTellIs DEF Acts, Local, UserLabels, AskingLabels
  <2> QED
    BY <1>0, <1>b, <1>c, <2>1, NothingToTell
<1>15. CASE MessageCheck(c) /\ ~Move(c)
  <2>1. /\ UNCHANGED status /\ thread'[c].pc = "respond"
        /\ thread[c].pc \in UserLabels /\ thread[c].pc \in AskingLabels
        /\ thread'[c].out = <<Call(you(c), "MESSAGE", me(c))>>
    BY <1>15, MessageCheckIs DEF Acts, Local, UserLabels, AskingLabels
  <2> QED
    BY <1>0, <1>b, <1>c, <2>1, NothingToTell
<1> QED
  BY <1>1, <1>2, <1>3, <1>4, <1>5, <1>6, <1>7, <1>8, <1>9, <1>10, <1>11, <1>12, <1>13, <1>14, <1>15
  DEF Proceeds

\* A thread that sends has at most what it had to tell.
LEMMA SendsDiscreet ==
  ASSUME IInv, NEW c \in Conn, thread[c].out # <<>>, UNCHANGED friends, Discreet(c),
         \E o \in {thread[c].out, Tail(thread[c].out)} : \E i, b : Sends(c, o, i, b)
  PROVE  Discreet(c)'
<1>0. PICK o \in {thread[c].out, Tail(thread[c].out)} : \E i, b : Sends(c, o, i, b)
  OBVIOUS
<1>1. PICK i, b : Sends(c, o, i, b)
  BY <1>0
<1>2. thread[c].out \in Seq(Calls)
  BY ThreadFields
<1>3. \A j \in 1..Len(o) : \E l \in 1..Len(thread[c].out) : o[j] = thread[c].out[l]
  <2>1. CASE o = thread[c].out
    BY <2>1
  <2>2. CASE o = Tail(thread[c].out)
    <3>1. Len(o) = Len(thread[c].out) - 1 /\ \A j \in 1..Len(o) : o[j] = thread[c].out[j + 1]
      BY <1>2, <2>2
    <3>2. \A j \in 1..Len(o) : j + 1 \in 1..Len(thread[c].out)
      BY <1>2, <3>1
    <3> QED
      BY <3>1, <3>2
  <2> QED
    BY <2>1, <2>2
<1>4. \A j \in 1..Len(o) : Proper(o[j])
  BY <1>3 DEF Discreet
<1>5. (\A j \in 1..Len(thread[c].out) : Proper(thread[c].out[j]))'
  BY <1>1, <1>4 DEF Sends, Proper, Related
<1> QED
  BY <1>1, <1>5 DEF Discreet, Sends, me, you

\* What a delivery tells is of a friend, and what is left to tell too.
LEMMA DeliverDiscreet ==
  ASSUME IInv, NEW c \in Conn, NEW k \in Conn, Deliver(c, k), faults' = 0, Aimed,
         Discreet(c), Heard
  PROVE  Discreet(c)' /\ Heard'
<1> DEFINE p == Head(thread[c].out)
<1>1. /\ thread[c].out # <<>> /\ thread[c].out \in Seq(Calls) /\ p \in Calls
      /\ thread[c].targetIDs[k] > 0
      /\ Learns(k, p)
      /\ UNCHANGED friends
      /\ \E o \in {thread[c].out, Tail(thread[c].out)} : \E i, b : Sends(c, o, i, b)
  BY DeliverIs, ThreadFields DEF dbVars
<1>2. Discreet(c)'
  BY <1>1, SendsDiscreet
<1>3. me(k) = p.to /\ p.to \in User /\ p.name \in User
  BY <1>1 DEF Aimed, Calls
<1>4. p = thread[c].out[1] /\ 1 \in 1..Len(thread[c].out)
  BY <1>1
<1>5. p.type \in {"ONLINE", "OFFLINE"} => Related(me(k), p.name)
  BY <1>3, <1>4 DEF Discreet, Proper
<1>6. \A d \in Conn : me(d)' = me(d)
  BY <1>1 DEF Sends, me
<1>7. status \in [Conn -> [User -> {"unknown", "ONLINE", "OFFLINE"}]]
  BY DEF IInv, TypeOK, ClientsTypeOK
<1> HIDE DEF p
<1>8. ASSUME NEW d \in Conn, NEW u \in User, status'[d][u] # "unknown"
      PROVE  me(d) # NoUser /\ Related(me(d), u)
  <2>1. CASE d = k /\ u = p.name /\ p.type \in {"ONLINE", "OFFLINE"}
    BY <1>3, <1>5, <2>1, NoUserAssumption
  <2>2. CASE ~(d = k /\ u = p.name /\ p.type \in {"ONLINE", "OFFLINE"})
    <3>1. status'[d][u] = status[d][u]
      BY <1>1, <1>3, <1>7, <2>2 DEF Learns
    <3> QED
      BY <1>8, <3>1 DEF Heard
  <2> QED
    BY <2>1, <2>2
<1>9. Heard'
  BY <1>1, <1>6, <1>8 DEF Heard, Related
<1> QED
  BY <1>2, <1>9

\* Every step of a thread leaves every thread discreet, and the clients with
\* news of friends.
LEMMA StatusStep ==
  ASSUME IInv, IInv', NEW c \in Conn, Proceeds(c), faults' = 0, ~Relogin, Aimed,
         Heard, \A d \in Conn : Discreet(d)
  PROVE  Heard' /\ \A d \in Conn : Discreet(d)'
<1>1. CASE Collect(c)
  <2>1. /\ thread[c].out # <<>> /\ thread[c].out \in Seq(Calls)
        /\ UNCHANGED <<friends, status>>
        /\ \E o \in {thread[c].out, Tail(thread[c].out)} : \E i, b : Sends(c, o, i, b)
    BY <1>1, CollectIs, ThreadFields DEF Local, dbVars, clients
  <2>2. Discreet(c)'
    BY <2>1, SendsDiscreet
  <2>3. \A d \in Conn : me(d)' = me(d)
    BY <2>1 DEF Sends, me
  <2>4. Heard'
    BY <2>1, <2>3 DEF Heard, Related
  <2> QED
    BY <2>1, <2>2, <2>4, DiscreetStays DEF Sends
<1>2. ASSUME NEW k \in Conn, Deliver(c, k) PROVE Heard' /\ \A d \in Conn : Discreet(d)'
  <2>1. \A d \in Conn \ {c} : thread'[d] = thread[d]
    BY <1>2, DeliverIs DEF Sends
  <2> QED
    BY <1>2, <2>1, DeliverDiscreet, DiscreetStays
<1>3. CASE ~Collect(c) /\ \A k \in Conn : ~Deliver(c, k)
  <2>1. /\ thread'[c].connectedUser = me(c) \/ Register(c)
        /\ \A d \in Conn \ {c} : thread'[d] = thread[d]
    BY <1>3, NotSending
  <2>2. Discreet(c)' /\ UNCHANGED status
    BY <1>3, ActorDiscreet
  <2>3. \A d \in Conn : Discreet(d)'
    BY <2>1, <2>2, DiscreetStays
  <2>4. ASSUME NEW d \in Conn, NEW u \in User, status'[d][u] # "unknown"
        PROVE  me(d)' # NoUser /\ Related(me(d), u)'
    <3>1. me(d) # NoUser /\ Related(me(d), u)
      BY <2>2, <2>4 DEF Heard
    <3>2. Register(c) => me(c) = NoUser
      BY DEF Register, At, IInv, LocalsOK, CredentialLabels, me
    <3>3. me(d)' = me(d)
      BY <2>1, <3>1, <3>2 DEF me
    <3>4. me(d) \in User
      BY <3>1, ThreadFields
    <3>5. \A v \in User : Related(v, u) => Related(v, u)'
      BY RelatedStays
    <3> QED
      BY <3>1, <3>3, <3>4, <3>5 DEF Related
  <2>5. Heard'
    BY <2>4 DEF Heard
  <2> QED
    BY <2>3, <2>5
<1> QED
  BY <1>1, <1>2, <1>3

\* As long as no client logs in twice over one connection, and nothing has
\* disturbed the server, the client of a session has been told the status of
\* its user's friends only, whatever threads tell whom of whom meanwhile.
THEOREM StatusIsOfFriends ==
  ASSUME ~Relogin
  PROVE  Spec => []StatusOfFriendsOnly
<1>1. Init => StatusInv
  <2> SUFFICES ASSUME Init PROVE Heard /\ \A c \in Conn : Discreet(c)
    BY DEF StatusInv
  <2>1. \A c \in Conn : thread[c].pc = "none" /\ thread[c].out = <<>>
    BY DEF Init, AllFresh, Fresh
  <2>2. \A c \in Conn : Discreet(c)
    BY <2>1 DEF Discreet
  <2>3. Heard
    BY DEF Init, AllUnknown, Heard
  <2> QED
    BY <2>2, <2>3
<1>2. AimInv /\ AimInv' /\ StatusInv /\ [Next]_vars => StatusInv'
  <2> SUFFICES ASSUME AimInv, AimInv', StatusInv, [Next]_vars, Undisturbed'
               PROVE  Heard' /\ \A c \in Conn : Discreet(c)'
    BY DEF StatusInv
  <2>1. /\ Undisturbed /\ faults' = 0 /\ IInv /\ IInv'
        /\ UNCHANGED vars \/ \E c \in Conn : Proceeds(c)
    BY UndisturbedStep DEF AimInv
  <2>2. Heard /\ (\A c \in Conn : Discreet(c)) /\ Aimed
    BY <2>1 DEF StatusInv, AimInv, Undisturbed
  <2>3. CASE UNCHANGED vars
    BY <2>2, <2>3 DEF vars, Heard, Discreet, Proper, Related, me, you
  <2> QED
    BY <2>1, <2>2, <2>3, StatusStep
<1>3. StatusInv => StatusOfFriendsOnly
  BY DEF StatusInv, StatusOfFriendsOnly, Heard, Related
<1> QED
  BY <1>1, <1>2, <1>3, AimInvariant, PTL DEF Spec

-----------------------------------------------------------------------------
(* No request is lost *)

Running(c) == thread[c].pc \notin {"none", "closed"}

\* The login of c has the request of s still to find, or to forward.
LookingUp(c, s) ==
  \/ thread[c].pc = "login_incoming"
  \/ thread[c].pc = "each_incoming" /\ thread[c].names[s] > 0

\* The user of c has answered s, and the answer is not stored yet.
Answering(c, s) ==
  /\ thread[c].pc \in {"accept_remove", "reject_tell", "reject_remove", "hide"}
  /\ you(c) = s

\* The thread of d is telling c of the request of s.
Forwarding(d, c, s) ==
  /\ thread[d].out # <<>>
  /\ Head(thread[d].out) = Call(me(c), "FORWARD", s)
  /\ thread[d].targetIDs = NoTargets \/ thread[d].targetIDs[c] > 0

\* The client of c knows of the request of s, or is being told.
Told(c, s) == offers[c][s] > 0 \/ \E d \in Conn : Forwarding(d, c, s)

\* A request of s that is shown to the user of c has not been lost on c.
Kept(c, s) ==
  Running(c) /\ me(c) # NoUser /\ requests[s][me(c)].shown > 0
    => Told(c, s) \/ LookingUp(c, s) \/ Answering(c, s)

NobodyCreates == \A c \in Conn : thread[c].req.type # "create"

KeptInv ==
  faults = 0 => NobodyCreates /\ \A c \in Conn, s \in User : Kept(c, s)

-----------------------------------------------------------------------------
(* The table of requests *)

\* A request stored is one more row of its pair.
LEMMA RequestStored ==
  ASSUME IInv, NEW u \in User, NEW v \in User, insertFriendRequest(u, v),
         NEW s \in User, NEW r \in User, requests'[s][r] # requests[s][r]
  PROVE  s = u /\ r = v
<1>1. /\ requests \in [User -> [User -> [shown : Nat, hidden : Nat]]]
      /\ requests[s] \in [User -> [shown : Nat, hidden : Nat]]
  BY DEF IInv, TypeOK, DbTypeOK
<1>2. s # u => requests'[s] = requests[s]
  BY <1>1 DEF insertFriendRequest
<1> DEFINE x == [requests[u][v] EXCEPT !.shown = requests[u][v].shown + 1]
<1>3. requests' = [requests EXCEPT ![u] = [requests[u] EXCEPT ![v] = x]]
  BY DEF insertFriendRequest
<1> HIDE DEF x
<1>4. requests'[u] = [requests[u] EXCEPT ![v] = x]
  BY <1>1, <1>3
<1>5. s = u /\ r # v => requests'[s][r] = requests[s][r]
  BY <1>1, <1>4
<1> QED
  BY <1>2, <1>5

\* A request deleted or hidden is shown no more, and no other changes.
LEMMA RequestDropped ==
  ASSUME IInv, NEW u \in User, NEW v \in User,
         removeFriendRequest(u, v) \/ hideFriendRequest(u, v),
         NEW s \in User, NEW r \in User
  PROVE  IF s = u /\ r = v THEN requests'[s][r].shown = 0 ELSE requests'[s][r] = requests[s][r]
<1>1. /\ requests \in [User -> [User -> [shown : Nat, hidden : Nat]]]
      /\ requests[s] \in [User -> [shown : Nat, hidden : Nat]]
  BY DEF IInv, TypeOK, DbTypeOK
<1>2. PICK h : requests' = [requests EXCEPT ![u] =
                             [requests[u] EXCEPT ![v] = [shown |-> 0, hidden |-> h]]]
  BY DEF removeFriendRequest, hideFriendRequest
<1>3. requests'[s] = IF s = u
                       THEN [requests[s] EXCEPT ![v] = [shown |-> 0, hidden |-> h]]
                       ELSE requests[s]
  BY <1>1, <1>2
<1> QED
  BY <1>1, <1>3

-----------------------------------------------------------------------------
(* Nobody creates an account *)

\* A workload without creations never has one.
LEMMA CreateStep ==
  ASSUME "create" \notin Workload, IInv, NEW c \in Conn, Proceeds(c), faults' = 0, NobodyCreates
  PROVE  NobodyCreates'
<1> DEFINE Same == /\ thread'[c].req \in {thread[c].req, NoRequest}
                   /\ \A d \in Conn \ {c} : thread'[d] = thread[d]
<1>1. Move(c) => Same
  BY DEF Move, Acts
<1>2. Spawn(c) \/ Close(c) \/ Respond(c) => Same
  BY SpawnIs, CloseIs, RespondIs DEF StartsOver
<1>3. ASSUME NEW r \in Requests, Arrives(c, r) PROVE NobodyCreates'
  <2>1. /\ thread'[c].req = r /\ r.type # "create"
        /\ \A d \in Conn \ {c} : thread'[d] = thread[d]
    BY <1>3, ReceiveIs DEF Arrives
  <2> QED
    BY <2>1 DEF NobodyCreates
<1>4. CreateInsert(c) \/ Register(c) \/ AskInsert(c) => Same
  BY CreateInsertIs, RegisterIs, AskInsertIs DEF Acts
<1>5. LoginIncoming(c) \/ LoginOutgoing(c) \/ LoginFriends(c) \/ ByeFriends(c) => Same
  BY WalksAre DEF Walks, Acts
<1>6. ASSUME NEW n \in User,
             EachIncoming(c, n) \/ EachOutgoing(c, n) \/ EachFriend(c, n) \/ EachBye(c, n)
      PROVE  Same
  BY <1>6, TurnsAre DEF Turns, Acts
<1>7. AcceptRemove(c) \/ AcceptFirst(c) \/ AcceptSecond(c) \/ RejectRemove(c) \/ Hide(c)
        => Same
  BY AcceptRemoveIs, AcceptFirstIs, AcceptSecondIs, RejectRemoveIs, HideIs DEF Acts
<1>8. AcceptAnnounce(c) \/ RejectTell(c) => Same
  BY AcceptAnnounceIs, RejectTellIs DEF Acts
<1>9. MessageCheck(c) => Same
  BY <1>1, MessageCheckIs DEF Acts
<1>10. Collect(c) => Same
  BY CollectIs DEF Sends
<1>11. ASSUME NEW k \in Conn, Deliver(c, k) PROVE Same
  BY <1>11, DeliverIs DEF Sends
<1>12. Same => NobodyCreates'
  BY DEF NobodyCreates, NoRequest
<1> HIDE DEF Same
<1> QED
  BY <1>1, <1>2, <1>3, <1>4, <1>5, <1>6, <1>7, <1>8, <1>9, <1>10, <1>11, <1>12 DEF Proceeds

-----------------------------------------------------------------------------
(* sendOutPacket loses no request on its way *)

\* The targets of a call are all sessions of its addressee,
LEMMA CollectKeeps ==
  ASSUME IInv, NEW a \in Conn, Collect(a), NEW c \in Conn, NEW s \in User, Kept(c, s)
  PROVE  Kept(c, s)'
<1> DEFINE ids == clientIDs[Head(thread[a].out).to]
<1>1. /\ thread[a].out # <<>> /\ thread[a].targetIDs = NoTargets
      /\ \/ ids = NoTargets /\ Sends(a, Tail(thread[a].out), NoTargets, thread[a].reached)
         \/ ids # NoTargets /\ Sends(a, thread[a].out, ids, thread[a].reached)
      /\ UNCHANGED <<requests, offers>>
  BY CollectIs DEF Local, dbVars, clients
<1>2. /\ thread'[c].pc = thread[c].pc /\ thread'[c].connectedUser = thread[c].connectedUser
      /\ thread'[c].req = thread[c].req /\ thread'[c].names = thread[c].names
  BY <1>1 DEF Sends, me
<1>3. ASSUME NEW d \in Conn, Forwarding(d, c, s), Running(c), me(c) # NoUser
      PROVE  Forwarding(d, c, s)'
  <2>1. CASE d # a
    BY <1>1, <1>2, <1>3, <2>1 DEF Forwarding, Sends, me, Call
  <2>2. CASE d = a
    <3>1. Head(thread[a].out).to = me(c)
      BY <1>3, <2>2 DEF Forwarding, Call
    <3>2. ids[c] > 0
      BY <1>3, <3>1 DEF IInv, HoldsID, Running
    <3>3. ids # NoTargets
      BY <3>2 DEF NoTargets
    <3> HIDE DEF ids
    <3>4. Sends(a, thread[a].out, ids, thread[a].reached)
      BY <1>1, <3>3
    <3> QED
      BY <1>2, <1>3, <2>2, <3>2, <3>4 DEF Forwarding, Sends, me, Call
  <2> QED
    BY <2>1, <2>2
<1>4. Running(c) /\ me(c) # NoUser /\ Told(c, s) => Told(c, s)'
  BY <1>1, <1>3 DEF Told
<1> HIDE DEF ids
<1> QED
  BY <1>1, <1>2, <1>4 DEF Kept, Running, LookingUp, Answering, me, you

\* ... and the call ends when each of them has been served.
LEMMA DeliverKeeps ==
  ASSUME IInv, NEW a \in Conn, NEW k \in Conn, Deliver(a, k), faults' = 0,
         NEW c \in Conn, NEW s \in User, Kept(c, s)
  PROVE  Kept(c, s)'
<1> DEFINE left == Without(thread[a].targetIDs, k)
           p == Head(thread[a].out)
<1>1. /\ thread[a].out # <<>> /\ thread[a].targetIDs[k] > 0
      /\ left \in [Conn -> Nat]
      /\ Learns(k, p) /\ p \in Calls
      /\ \E heard : \/ left = NoTargets /\ Sends(a, Tail(thread[a].out), NoTargets, heard)
                    \/ left # NoTargets /\ Sends(a, thread[a].out, left, heard)
      /\ UNCHANGED requests
  BY DeliverIs DEF dbVars
<1>2. /\ thread'[c].pc = thread[c].pc /\ thread'[c].connectedUser = thread[c].connectedUser
      /\ thread'[c].req = thread[c].req /\ thread'[c].names = thread[c].names
  BY <1>1 DEF Sends, me
<1>3. /\ offers \in [Conn -> Names] /\ offers' \in [Conn -> Names]
      /\ offers'[c][s] >= offers[c][s]
      /\ p.type = "FORWARD" /\ p.name = s /\ k = c => offers'[c][s] > 0
  <2>1. offers \in [Conn -> Names] /\ offers[c] \in Names /\ offers[k] \in Names
        /\ p.name \in User
    BY <1>1 DEF IInv, TypeOK, ClientsTypeOK, Calls
  <2>2. CASE p.type # "FORWARD"
    BY <1>1, <2>1, <2>2 DEF Learns, Names
  <2>3. CASE p.type = "FORWARD"
    <3> HIDE DEF p
    <3>1. offers' = [offers EXCEPT ![k] = [offers[k] EXCEPT ![p.name] = offers[k][p.name] + 1]]
      BY <1>1, <2>3 DEF Learns
    <3>2. [offers[k] EXCEPT ![p.name] = offers[k][p.name] + 1] \in Names
      BY <2>1 DEF Names
    <3>3. offers' \in [Conn -> Names]
      BY <2>1, <3>1, <3>2
    <3>4. offers'[c] = IF c = k THEN [offers[c] EXCEPT ![p.name] = offers[c][p.name] + 1]
                                ELSE offers[c]
      BY <2>1, <3>1
    <3> QED
      BY <2>1, <3>3, <3>4 DEF Names
  <2> QED
    BY <2>2, <2>3
<1>4. thread[a].targetIDs \in [Conn -> Nat] /\ thread[a].targetIDs # NoTargets
  BY <1>1, ThreadFields DEF NoTargets
<1>5. \A j \in Conn \ {k} : left[j] = thread[a].targetIDs[j]
  BY <1>4 DEF Without
<1> HIDE DEF left
<1>6. ASSUME NEW d \in Conn, Forwarding(d, c, s)
      PROVE  Forwarding(d, c, s)' \/ offers'[c][s] > 0
  <2>1. CASE d # a
    BY <1>1, <1>2, <1>6, <2>1 DEF Forwarding, Sends, me, Call
  <2>2. CASE d = a /\ k = c
    BY <1>3, <1>6, <2>2 DEF Forwarding, Call
  <2>3. CASE d = a /\ k # c
    <3>1. thread[a].targetIDs[c] > 0
      BY <1>4, <1>6, <2>3 DEF Forwarding
    <3>2. left[c] > 0 /\ left # NoTargets
      BY <1>5, <2>3, <3>1 DEF NoTargets
    <3> QED
      BY <1>1, <1>2, <1>6, <2>3, <3>2 DEF Forwarding, Sends, me, Call
  <2> QED
    BY <2>1, <2>2, <2>3
<1>7. offers[c][s] \in Nat /\ offers'[c][s] \in Nat
  BY <1>3 DEF Names
<1>8. Told(c, s) => Told(c, s)'
  BY <1>3, <1>6, <1>7 DEF Told
<1> QED
  BY <1>1, <1>2, <1>8 DEF Kept, Running, LookingUp, Answering, me, you

-----------------------------------------------------------------------------
(* The other steps *)

\* A step that makes no call of sendOutPacket and reads no answer leaves what
\* the sessions have been told.
LEMMA ToldStays ==
  ASSUME IInv, NEW a \in Conn, thread[a].out = <<>>,
         \A d \in Conn \ {a} : thread'[d] = thread[d],
         NEW c \in Conn, NEW s \in User, offers'[c][s] = offers[c][s],
         me(c)' = me(c), Told(c, s)
  PROVE  Told(c, s)'
<1>1. CASE offers[c][s] > 0
  BY <1>1 DEF Told
<1>2. ASSUME NEW d \in Conn, Forwarding(d, c, s) PROVE Forwarding(d, c, s)'
  <2>1. d # a
    BY <1>2 DEF Forwarding
  <2> QED
    BY <1>2, <2>1 DEF Forwarding, Call
<1> QED
  BY <1>1, <1>2 DEF Told

\* Which steps change the table of requests, and which what clients have on offer.
LEMMA WhoStores ==
  ASSUME IInv, NEW a \in Conn, Proceeds(a), faults' = 0,
         ~Collect(a), \A k \in Conn : ~Deliver(a, k)
  PROVE  /\ \/ UNCHANGED requests
            \/ AskInsert(a) \/ AcceptRemove(a) \/ RejectRemove(a) \/ Hide(a)
         /\ UNCHANGED offers \/ \E r \in Requests : Arrives(a, r)
<1> USE DEF dbVars, clients
<1>1. Move(a) => UNCHANGED <<requests, offers>>
  BY DEF Move, Local
<1>2. Spawn(a) \/ Close(a) \/ Respond(a) => UNCHANGED <<requests, offers>>
  BY SpawnIs, CloseIs, RespondIs DEF Local
<1>3. ASSUME NEW r \in Requests, Arrives(a, r) PROVE UNCHANGED requests
  BY <1>3, ReceiveIs DEF Arrives
<1>4. CreateInsert(a) \/ Register(a) => UNCHANGED <<requests, offers>>
  BY CreateInsertIs, RegisterIs DEF Stored, insertNewUser
<1>5. LoginIncoming(a) \/ LoginOutgoing(a) \/ LoginFriends(a) \/ ByeFriends(a)
        => UNCHANGED <<requests, offers>>
  BY WalksAre DEF Walks, Local
<1>6. ASSUME NEW n \in User,
             EachIncoming(a, n) \/ EachOutgoing(a, n) \/ EachFriend(a, n) \/ EachBye(a, n)
      PROVE  UNCHANGED <<requests, offers>>
  BY <1>6, TurnsAre DEF Turns, Local
<1>7. AskInsert(a) \/ AcceptRemove(a) \/ RejectRemove(a) \/ Hide(a) => UNCHANGED offers
  BY AskInsertIs, AcceptRemoveIs, RejectRemoveIs, HideIs DEF Stored
<1>8. AcceptFirst(a) \/ AcceptSecond(a) => UNCHANGED <<requests, offers>>
  BY AcceptFirstIs, AcceptSecondIs DEF Stored, insertFriendRow
<1>9. AcceptAnnounce(a) \/ RejectTell(a) => UNCHANGED <<requests, offers>>
  BY AcceptAnnounceIs, RejectTellIs DEF Local
<1>10. MessageCheck(a) => UNCHANGED <<requests, offers>>
  BY <1>1, MessageCheckIs DEF Local
<1> QED
  BY <1>1, <1>2, <1>3, <1>4, <1>5, <1>6, <1>7, <1>8, <1>9, <1>10 DEF Proceeds

\* A step of another thread stores a request and is to forward it, or leaves
\* the session of c what it had.
LEMMA OthersKeep ==
  ASSUME IInv, NEW a \in Conn, Proceeds(a), faults' = 0,
         ~Collect(a), \A k \in Conn : ~Deliver(a, k), Settled,
         NEW c \in Conn \ {a}, NEW s \in User, Kept(c, s)
  PROVE  Kept(c, s)'
<1>1. thread[a].out = <<>> /\ \A d \in Conn \ {a} : thread'[d] = thread[d]
  BY NotSending
<1>2. thread'[c] = thread[c] /\ me(c)' = me(c)
  BY <1>1 DEF me
<1>3. offers'[c][s] = offers[c][s]
  <2>1. offers \in [Conn -> Names]
    BY DEF IInv, TypeOK, ClientsTypeOK
  <2> QED
    BY <2>1, WhoStores DEF Arrives
<1>4. SUFFICES ASSUME Running(c), me(c) # NoUser, requests'[s][me(c)].shown > 0
               PROVE  Told(c, s)' \/ LookingUp(c, s) \/ Answering(c, s)
  BY <1>2 DEF Kept, Running, LookingUp, Answering, me, you
<1>5. me(c) \in User
  BY <1>4, ThreadFields
<1>6. CASE requests[s][me(c)].shown > 0
  <2>1. Told(c, s) => Told(c, s)'
    BY <1>1, <1>2, <1>3, ToldStays
  <2> QED
    BY <1>4, <1>6, <2>1 DEF Kept
<1>7. CASE ~(requests[s][me(c)].shown > 0)
  <2>1. requests'[s][me(c)] # requests[s][me(c)]
    BY <1>4, <1>7
  <2>2. CASE AskInsert(a)
    <3>1. /\ thread[a].pc = "ask_insert"
          /\ insertFriendRequest(me(a), you(a))
          /\ thread'[a].out = <<Call(you(a), "FORWARD", me(a))>>
          /\ thread'[a].targetIDs = thread[a].targetIDs
      BY <2>2, AskInsertIs DEF Acts
    <3>2. me(a) \in User /\ you(a) \in User
      BY <3>1 DEF IInv, LocalsOK, UserLabels, AskingLabels, me, you
    <3>3. s = me(a) /\ me(c) = you(a)
      BY <1>5, <2>1, <3>1, <3>2, RequestStored
    <3>4. thread'[a].targetIDs = NoTargets
      BY <1>1, <3>1 DEF Settled
    <3>5. Forwarding(a, c, s)'
      BY <1>2, <3>1, <3>3, <3>4 DEF Forwarding, Call
    <3> QED
      BY <3>5 DEF Told
  <2>3. CASE AcceptRemove(a) \/ RejectRemove(a) \/ Hide(a)
    <3>1. /\ thread[a].pc \in {"accept_remove", "reject_remove", "hide"}
          /\ removeFriendRequest(you(a), me(a)) \/ hideFriendRequest(you(a), me(a))
      BY <2>3, AcceptRemoveIs, RejectRemoveIs, HideIs
    <3>2. me(a) \in User /\ you(a) \in User
      BY <3>1 DEF IInv, LocalsOK, UserLabels, AskingLabels, me, you
    <3>3. requests'[s][me(c)].shown = 0
      BY <1>5, <2>1, <3>1, <3>2, RequestDropped
    <3> QED
      BY <1>4, <3>3
  <2> QED
    BY <2>1, <2>2, <2>3, WhoStores
<1> QED
  BY <1>6, <1>7

\* A step of the session's own thread that neither changes what is stored nor
\* moves it within the login loops or an answer keeps what it was told.
LEMMA ToldOnly ==
  ASSUME IInv, NEW c \in Conn, NEW s \in User, Kept(c, s), thread[c].out = <<>>,
         \A d \in Conn \ {c} : thread'[d] = thread[d],
         me(c)' = me(c), offers'[c][s] = offers[c][s],
         requests'[s][me(c)].shown > 0 => requests[s][me(c)].shown > 0,
         Running(c)' => Running(c),
         ~LookingUp(c, s), ~Answering(c, s)
  PROVE  Kept(c, s)'
<1>1. Told(c, s) => Told(c, s)'
  BY ToldStays
<1> QED
  BY <1>1 DEF Kept

\* A step of the session's own thread finds, forwards and drops requests in
\* time.
LEMMA OwnKeeps ==
  ASSUME IInv, NEW c \in Conn, Proceeds(c), faults' = 0,
         ~Collect(c), \A k \in Conn : ~Deliver(c, k), Settled, NobodyCreates,
         NEW s \in User, Kept(c, s)
  PROVE  Kept(c, s)'
<1> USE DEF dbVars, clients
<1>0. /\ thread[c].out = <<>>
      /\ thread[c].targetIDs = NoTargets
      /\ \A d \in Conn \ {c} : thread'[d] = thread[d]
  BY NotSending DEF Settled
<1>a. thread[c].pc \in UserLabels => me(c) \in User
  BY DEF IInv, LocalsOK, me
<1>b. thread[c].pc \in AskingLabels => you(c) \in User
  BY DEF IInv, LocalsOK, you
<1>1. CASE Move(c)
  <2>1. /\ me(c)' = me(c) /\ UNCHANGED <<requests, offers>>
        /\ thread[c].pc \notin {"none", "closed", "login_incoming", "each_incoming",
             "accept_remove", "reject_tell", "reject_remove", "hide"}
    BY <1>1 DEF Move, Moves, Acts, Local, me
  <2> QED
    BY <1>0, <2>1, ToldOnly DEF Running, LookingUp, Answering
<1>2. CASE Spawn(c) \/ Close(c)
  <2>1. thread'[c].pc = "closed" \/ me(c)' = NoUser
    BY <1>2, SpawnIs, CloseIs DEF StartsOver, me
  <2> QED
    BY <2>1 DEF Kept, Running
<1>3. CASE Respond(c)
  <2>1. /\ me(c)' = me(c) /\ UNCHANGED <<requests, offers>> /\ thread[c].pc = "respond"
    BY <1>3, RespondIs DEF StartsOver, Local, me
  <2> QED
    BY <1>0, <2>1, ToldOnly DEF Running, LookingUp, Answering
<1>4. CASE \E r \in Requests : Arrives(c, r)
  <2>1. PICK r \in Requests : Arrives(c, r)
    BY <1>4
  <2>2. /\ thread[c].pc = "recv" /\ thread'[c].pc = Case(r.type) /\ thread'[c].req = r
        /\ me(c)' = me(c) /\ UNCHANGED requests
    BY <2>1, ReceiveIs DEF Arrives, me
  <2>3. CASE r.type \in {"accept", "reject", "hide"} /\ r.name = s
    <3>1. Case(r.type) \in {"accept_remove", "reject_tell", "hide"}
      BY <2>3 DEF Case
    <3>2. Answering(c, s)'
      BY <2>2, <2>3, <3>1 DEF Answering, you
    <3> QED
      BY <3>2 DEF Kept
  <2>4. CASE ~(r.type \in {"accept", "reject", "hide"} /\ r.name = s)
    <3>1. offers \in [Conn -> Names] /\ offers[c] \in Names
      BY DEF IInv, TypeOK, ClientsTypeOK
    <3>2. offers'[c][s] = offers[c][s]
      BY <2>1, <2>4, <3>1 DEF Arrives, Names
    <3> QED
      BY <1>0, <2>2, <3>2, ToldOnly DEF Running, LookingUp, Answering
  <2> QED
    BY <2>3, <2>4
<1>5. CASE CreateInsert(c)
  <2>1. /\ me(c)' = me(c) /\ UNCHANGED <<requests, offers>> /\ thread[c].pc = "create_insert"
    BY <1>5, CreateInsertIs DEF Acts, Stored, insertNewUser, me
  <2> QED
    BY <1>0, <2>1, ToldOnly DEF Running, LookingUp, Answering
<1>6. CASE Register(c)
  <2>1. thread'[c].pc = "login_incoming"
    BY <1>6, RegisterIs DEF NobodyCreates
  <2> QED
    BY <2>1 DEF Kept, LookingUp
<1>7. CASE LoginIncoming(c)
  <2>1. /\ thread[c].pc = "login_incoming" /\ thread'[c].pc = "each_incoming"
        /\ thread'[c].names = getIncomingFriendRequests(me(c))
        /\ me(c)' = me(c) /\ UNCHANGED requests
    BY <1>7, WalksAre DEF Walks, Acts, Local, me
  <2>2. thread'[c].names[s] = requests[s][me(c)].shown
    BY <2>1 DEF getIncomingFriendRequests
  <2> QED
    BY <2>1, <2>2 DEF Kept, LookingUp
<1>8. CASE LoginOutgoing(c) \/ LoginFriends(c) \/ ByeFriends(c)
  <2>1. /\ me(c)' = me(c) /\ UNCHANGED <<requests, offers>>
        /\ thread[c].pc \in {"each_incoming", "each_outgoing", "bye_friends"}
        /\ thread[c].pc = "each_incoming" => thread[c].names = Nobody
    BY <1>8, WalksAre DEF Walks, Acts, Local, me
  <2>2. ~LookingUp(c, s)
    BY <2>1 DEF LookingUp, Nobody
  <2> QED
    BY <1>0, <2>1, <2>2, ToldOnly DEF Running, Answering
<1>9. CASE \E n \in User : EachIncoming(c, n)
  <2>1. PICK n \in User : EachIncoming(c, n)
    BY <1>9
  <2>2. /\ me(c)' = me(c) /\ UNCHANGED <<requests, offers>>
        /\ thread[c].pc = "each_incoming" /\ thread'[c].pc = "each_incoming"
        /\ thread'[c].out = <<Call(me(c), "FORWARD", n)>>
        /\ thread'[c].targetIDs = NoTargets
        /\ \A v \in User \ {n} : thread'[c].names[v] = thread[c].names[v]
    BY <1>0, <2>1, TurnsAre DEF Turns, Acts, Local, me
  <2>3. CASE s = n
    <3>1. Forwarding(c, c, s)'
      BY <2>2, <2>3 DEF Forwarding, Call
    <3> QED
      BY <3>1 DEF Kept, Told
  <2>4. CASE s # n
    <3>1. Told(c, s) => Told(c, s)'
      BY <1>0, <2>2, ToldStays
    <3>2. LookingUp(c, s) => LookingUp(c, s)'
      BY <2>2, <2>4 DEF LookingUp
    <3> QED
      BY <2>2, <3>1, <3>2 DEF Kept, Running, Answering
  <2> QED
    BY <2>3, <2>4
<1>10. CASE \E n \in User : EachOutgoing(c, n) \/ EachFriend(c, n) \/ EachBye(c, n)
  <2>1. /\ me(c)' = me(c) /\ UNCHANGED <<requests, offers>>
        /\ thread[c].pc \in {"each_outgoing", "each_friend", "each_bye"}
    BY <1>10, TurnsAre DEF Turns, Acts, Local, me
  <2> QED
    BY <1>0, <2>1, ToldOnly DEF Running, LookingUp, Answering
<1>11. CASE AskInsert(c)
  <2>1. /\ thread[c].pc = "ask_insert" /\ me(c)' = me(c) /\ UNCHANGED offers
        /\ insertFriendRequest(me(c), you(c))
        /\ thread'[c].out = <<Call(you(c), "FORWARD", me(c))>>
        /\ thread'[c].targetIDs = NoTargets
    BY <1>0, <1>11, AskInsertIs DEF Acts, Stored, me
  <2>2. me(c) \in User /\ you(c) \in User
    BY <1>a, <1>b, <2>1 DEF UserLabels, AskingLabels
  <2>3. CASE s = me(c) /\ me(c) = you(c)
    <3>1. Forwarding(c, c, s)'
      BY <2>1, <2>3 DEF Forwarding, Call
    <3> QED
      BY <3>1 DEF Kept, Told
  <2>4. CASE ~(s = me(c) /\ me(c) = you(c))
    <3>1. requests'[s][me(c)] = requests[s][me(c)]
      BY <2>1, <2>2, <2>4, RequestStored
    <3> QED
      BY <1>0, <2>1, <3>1, ToldOnly DEF Running, LookingUp, Answering
  <2> QED
    BY <2>3, <2>4
<1>12. CASE AcceptRemove(c) \/ RejectRemove(c) \/ Hide(c)
  <2>1. /\ me(c)' = me(c) /\ UNCHANGED offers
        /\ thread[c].pc \in {"accept_remove", "reject_remove", "hide"}
        /\ removeFriendRequest(you(c), me(c)) \/ hideFriendRequest(you(c), me(c))
    BY <1>12, AcceptRemoveIs, RejectRemoveIs, HideIs DEF Acts, Stored, me
  <2>2. me(c) \in User /\ you(c) \in User
    BY <1>a, <1>b, <2>1 DEF UserLabels, AskingLabels
  <2>3. IF s = you(c) THEN requests'[s][me(c)].shown = 0
                      ELSE requests'[s][me(c)] = requests[s][me(c)]
    BY <2>1, <2>2, RequestDropped
  <2>4. CASE s = you(c)
    BY <2>1, <2>3, <2>4 DEF Kept
  <2>5. CASE s # you(c)
    BY <1>0, <2>1, <2>3, <2>5, ToldOnly DEF Running, LookingUp, Answering
  <2> QED
    BY <2>4, <2>5
<1>13. CASE AcceptFirst(c) \/ AcceptSecond(c) \/ AcceptAnnounce(c)
  <2>1. /\ me(c)' = me(c) /\ UNCHANGED <<requests, offers>>
        /\ thread[c].pc \in {"accept_first", "accept_second", "accept_announce"}
    BY <1>13, AcceptFirstIs, AcceptSecondIs, AcceptAnnounceIs
    DEF Acts, Stored, Local, insertFriendRow, me
  <2> QED
    BY <1>0, <2>1, ToldOnly DEF Running, LookingUp, Answering
<1>14. CASE RejectTell(c)
  <2>1. /\ me(c)' = me(c) /\ you(c)' = you(c) /\ UNCHANGED <<requests, offers>>
        /\ thread[c].pc = "reject_tell" /\ thread'[c].pc = "reject_remove"
    BY <1>14, RejectTellIs DEF Acts, Local, me, you
  <2>2. Told(c, s) => Told(c, s)'
    BY <1>0, <2>1, ToldStays
  <2> QED
    BY <2>1, <2>2 DEF Kept, Running, LookingUp, Answering
<1>15. CASE MessageCheck(c) /\ ~Move(c)
  <2>1. /\ me(c)' = me(c) /\ UNCHANGED <<requests, offers>> /\ thread[c].pc = "message_check"
    BY <1>15, MessageCheckIs DEF Acts, Local, me
  <2> QED
    BY <1>0, <2>1, ToldOnly DEF Running, LookingUp, Answering
<1> QED
  BY <1>1, <1>2, <1>3, <1>4, <1>5, <1>6, <1>7, <1>8, <1>9, <1>10, <1>11, <1>12, <1>13, <1>14, <1>15
  DEF Proceeds

\* The invariant holds at the start, and whenever the process has ended.
LEMMA NobodyRuns ==
  ASSUME thread = AllFresh
  PROVE  NobodyCreates /\ \A c \in Conn, s \in User : Kept(c, s)
<1>1. \A c \in Conn : thread[c].pc = "none" /\ thread[c].req.type = "none"
  BY DEF AllFresh, Fresh, NoRequest
<1> QED
  BY <1>1 DEF NobodyCreates, Kept, Running

\* No step loses a request.
LEMMA NextKeeps ==
  ASSUME "create" \notin Workload, AimInv, AimInv', KeptInv, [Next]_vars
  PROVE  KeptInv'
<1> SUFFICES ASSUME faults' = 0
             PROVE  NobodyCreates' /\ \A c \in Conn, s \in User : Kept(c, s)'
  BY DEF KeptInv
<1>1. /\ faults = 0
      /\ \/ UNCHANGED vars
         \/ \E c \in Conn : Proceeds(c) /\ UNCHANGED world
         \/ \E why \in {"crashed", "killed"} :
              Down(why) /\ UNCHANGED <<dbVars, faults, restarts>>
         \/ Restart
  BY UnfailingStep DEF AimInv
<1>2. /\ IInv /\ Settled
      /\ NobodyCreates /\ \A c \in Conn, s \in User : Kept(c, s)
  BY <1>1 DEF AimInv, KeptInv
<1>3. CASE UNCHANGED vars \/ Restart
  <2>1. UNCHANGED <<thread, requests, offers>>
    BY <1>3 DEF vars, Restart, dbVars, clients
  <2> QED
    BY <1>2, <2>1 DEF NobodyCreates, Kept, Told, Forwarding, Running, LookingUp, Answering,
       me, you, Call
<1>4. ASSUME NEW a \in Conn, Proceeds(a)
      PROVE  NobodyCreates' /\ \A c \in Conn, s \in User : Kept(c, s)'
  <2>1. NobodyCreates'
    BY <1>2, <1>4, CreateStep
  <2> SUFFICES ASSUME NEW c \in Conn, NEW s \in User PROVE Kept(c, s)'
    BY <2>1
  <2>2. CASE Collect(a)
    BY <1>2, <2>2, CollectKeeps
  <2>3. ASSUME NEW k \in Conn, Deliver(a, k) PROVE Kept(c, s)'
    BY <1>2, <2>3, DeliverKeeps
  <2>4. CASE ~Collect(a) /\ \A k \in Conn : ~Deliver(a, k)
    BY <1>2, <1>4, <2>4, OwnKeeps, OthersKeep
  <2> QED
    BY <2>2, <2>3, <2>4
<1>5. ASSUME NEW why \in {"crashed", "killed"}, Down(why)
      PROVE  NobodyCreates' /\ \A c \in Conn, s \in User : Kept(c, s)'
  <2>1. (thread = AllFresh)'
    BY <1>5 DEF Down, AllFresh, Fresh, NoTargets, Nobody, NoRequest
  <2>2. (NobodyCreates /\ \A c \in Conn, s \in User : Kept(c, s))'
    BY <2>1, NobodyRuns, PTL
  <2> QED
    BY <2>2
<1> QED
  BY <1>1, <1>3, <1>4, <1>5

\* As long as nothing fails and nobody creates an account, a request that is
\* stored and shown has, whenever the server is at rest, reached every session
\* of its recipient that has not answered it: whichever of the login and the
\* request came first, over however many sessions, logins repeated on one
\* connection, crashes, kills and restarts.
THEOREM RequestsKept ==
  ASSUME "create" \notin Workload
  PROVE  Spec => []NoLostRequest
<1>1. Init => KeptInv
  BY NobodyRuns DEF Init, KeptInv
<1>2. AimInv /\ AimInv' /\ KeptInv /\ [Next]_vars => KeptInv'
  BY NextKeeps
<1>3. AimInv /\ KeptInv => NoLostRequest
  <2> SUFFICES ASSUME AimInv, KeptInv, faults = 0, Quiet, NEW c \in Conn, NEW s \in User,
                      Idle(c), me(c) # NoUser, requests[s][me(c)].shown > 0
               PROVE  offers[c][s] > 0
    BY DEF NoLostRequest
  <2>1. Running(c) /\ ~LookingUp(c, s) /\ ~Answering(c, s)
    BY DEF Idle, Running, LookingUp, Answering
  <2>2. Told(c, s)
    BY <2>1 DEF KeptInv, Kept
  <2>3. \A d \in Conn : thread[d].out = <<>>
    BY DEF Quiet, AimInv, Settled, IInv, LocalsOK
  <2> QED
    BY <2>2, <2>3 DEF Told, Forwarding
<1> QED
  BY <1>1, <1>2, <1>3, AimInvariant, PTL DEF Spec

-----------------------------------------------------------------------------
(* Who is online *)

\* A session of u has left, or is about to.
Departed(u) == \E k \in Conn : me(k) = u /\ Leaving(k)

\* A step of a thread is a step of that thread only.
LEMMA OthersStill ==
  ASSUME IInv, NEW c \in Conn, Proceeds(c), faults' = 0
  PROVE  \A d \in Conn \ {c} : thread'[d] = thread[d]
<1>1. CASE Collect(c) \/ \E k \in Conn : Deliver(c, k)
  BY <1>1, CollectIs, DeliverIs DEF Sends
<1>2. CASE ~Collect(c) /\ \A k \in Conn : ~Deliver(c, k)
  BY <1>2, NotSending
<1> QED
  BY <1>1, <1>2

\* A call that is being sent is one of those that were to be sent.
LEMMA SendsAre ==
  ASSUME IInv, NEW c \in Conn, faults' = 0, Collect(c) \/ \E k \in Conn : Deliver(c, k)
  PROVE  /\ thread[c].out # <<>>
         /\ UNCHANGED <<dbVars, registry>>
         /\ \E o \in {thread[c].out, Tail(thread[c].out)} : \E i, b : Sends(c, o, i, b)
  BY CollectIs, DeliverIs DEF Local

\* Only the beginning and the end of a session change the registry.
LEMMA RegistrySteps ==
  ASSUME IInv, NEW c \in Conn, Proceeds(c), faults' = 0
  PROVE  UNCHANGED clientIDs \/ Register(c) \/ Close(c)
<1> USE DEF registry
<1>1. Move(c) \/ Respond(c) => UNCHANGED clientIDs
  BY RespondIs DEF Move, Local
<1>2. Spawn(c) => UNCHANGED clientIDs
  BY SpawnIs
<1>3. ASSUME NEW r \in Requests, Arrives(c, r) PROVE UNCHANGED clientIDs
  BY <1>3, ReceiveIs DEF Arrives
<1>4. CreateInsert(c) \/ AskInsert(c) => UNCHANGED clientIDs
  BY CreateInsertIs, AskInsertIs DEF Stored
<1>5. LoginIncoming(c) \/ LoginOutgoing(c) \/ LoginFriends(c) \/ ByeFriends(c)
        => UNCHANGED clientIDs
  BY WalksAre DEF Walks, Local
<1>6. ASSUME NEW n \in User,
             EachIncoming(c, n) \/ EachOutgoing(c, n) \/ EachFriend(c, n) \/ EachBye(c, n)
      PROVE  UNCHANGED clientIDs
  BY <1>6, TurnsAre DEF Turns, Local
<1>7. AcceptRemove(c) \/ AcceptFirst(c) \/ AcceptSecond(c) \/ RejectRemove(c) \/ Hide(c)
        => UNCHANGED clientIDs
  BY AcceptRemoveIs, AcceptFirstIs, AcceptSecondIs, RejectRemoveIs, HideIs DEF Stored
<1>8. AcceptAnnounce(c) \/ RejectTell(c) => UNCHANGED clientIDs
  BY AcceptAnnounceIs, RejectTellIs DEF Local
<1>9. MessageCheck(c) => UNCHANGED clientIDs
  BY <1>1, MessageCheckIs DEF Local
<1>10. Collect(c) \/ (\E k \in Conn : Deliver(c, k)) => UNCHANGED clientIDs
  BY SendsAre
<1> QED
  BY <1>1, <1>2, <1>3, <1>4, <1>5, <1>6, <1>7, <1>8, <1>9, <1>10 DEF Proceeds

\* Whoever leaves goes on leaving, as the user of the session.
LEMMA LeavingStays ==
  ASSUME IInv, NEW c \in Conn, Proceeds(c), faults' = 0, NEW d \in Conn, Leaving(d)
  PROVE  Leaving(d)' /\ me(d)' = me(d)
<1>1. CASE d # c
  BY <1>1, OthersStill DEF Leaving, me
<1>2. CASE d = c /\ (Collect(c) \/ \E k \in Conn : Deliver(c, k))
  BY <1>2, SendsAre DEF Sends, Leaving, me
<1>3. CASE d = c /\ ~Collect(c) /\ \A k \in Conn : ~Deliver(c, k)
  <2>1. Move(c) => Leaving(c)' /\ me(c)' = me(c)
    BY <1>3 DEF Move, Moves, Acts, Leaving, me
  <2>2. Close(c) => Leaving(c)' /\ me(c)' = me(c)
    BY CloseIs DEF StartsOver, Leaving, me
  <2>3. ByeFriends(c) => Leaving(c)' /\ me(c)' = me(c)
    BY WalksAre DEF Walks, Acts, Leaving, me
  <2>4. ASSUME NEW n \in User, EachBye(c, n) PROVE Leaving(c)' /\ me(c)' = me(c)
    BY <2>4, TurnsAre DEF Turns, Acts, Leaving, me
  <2>5. thread[c].pc \in {"bye_friends", "each_bye", "close", "closed"}
    BY <1>3 DEF Leaving
  <2>6. /\ ~Spawn(c) /\ ~Respond(c) /\ ~CreateInsert(c) /\ ~Register(c)
        /\ ~LoginIncoming(c) /\ ~LoginOutgoing(c) /\ ~LoginFriends(c)
        /\ ~AskInsert(c) /\ ~AcceptRemove(c) /\ ~AcceptFirst(c) /\ ~AcceptSecond(c)
        /\ ~AcceptAnnounce(c) /\ ~RejectTell(c) /\ ~RejectRemove(c) /\ ~Hide(c)
    BY <2>5 DEF At, Spawn, Respond, CreateInsert, Register, LoginIncoming, LoginOutgoing,
       LoginFriends, AskInsert, AcceptRemove, AcceptFirst, AcceptSecond, AcceptAnnounce,
       RejectTell, RejectRemove, Hide
  <2>7. ~MessageCheck(c) /\ \A r \in Requests : ~Arrives(c, r)
    BY <2>5 DEF At, MessageCheck, Arrives, Receive
  <2>8. \A n \in User : ~EachIncoming(c, n) /\ ~EachOutgoing(c, n) /\ ~EachFriend(c, n)
    BY <2>5 DEF At, EachIncoming, EachOutgoing, EachFriend
  <2> QED
    BY <1>3, <2>1, <2>2, <2>3, <2>4, <2>6, <2>7, <2>8 DEF Proceeds
<1> QED
  BY <1>1, <1>2, <1>3

\* Who has left, or is about to, has left for good.
LEMMA DepartedStays ==
  ASSUME IInv, NEW c \in Conn, Proceeds(c), faults' = 0, NEW u \in User, Departed(u)
  PROVE  Departed(u)'
  BY LeavingStays DEF Departed

\* A user stays online until a session of the user leaves.
LEMMA OnlineLasts ==
  ASSUME IInv, NEW c \in Conn, Proceeds(c), faults' = 0, NEW u \in User, Online(u)
  PROVE  Online(u)' \/ Departed(u)'
<1>1. PICK k \in Conn : clientIDs[u][k] > 0
  BY DEF Online
<1>2. clientIDs \in [User -> [Conn -> Nat]] /\ clientIDs[u] \in [Conn -> Nat]
  BY DEF IInv, TypeOK
<1>3. CASE UNCHANGED clientIDs
  BY <1>1, <1>3 DEF Online
<1>4. CASE Register(c)
  <2>1. /\ you(c) \in User
        /\ clientIDs' = [clientIDs EXCEPT ![you(c)] =
                           [clientIDs[you(c)] EXCEPT ![c] = clientIDs[you(c)][c] + 1]]
    BY <1>4, RegisterIs
  <2>2. clientIDs'[u][k] > 0
    BY <1>1, <1>2, <2>1
  <2> QED
    BY <2>2 DEF Online
<1>5. CASE Close(c)
  <2>1. /\ StartsOver(c, "closed")
        /\ \/ clientIDs' = clientIDs
           \/ clientIDs' = [clientIDs EXCEPT ![me(c)] =
                              [clientIDs[me(c)] EXCEPT ![c] = clientIDs[me(c)][c] - 1]]
    BY <1>5, CloseIs
  <2>2. CASE k = c /\ me(c) = u
    BY <2>1, <2>2 DEF StartsOver, Departed, Leaving, me
  <2>3. CASE ~(k = c /\ me(c) = u)
    <3>1. clientIDs'[u][k] = clientIDs[u][k]
      BY <1>2, <2>1, <2>3
    <3> QED
      BY <1>1, <3>1 DEF Online
  <2> QED
    BY <2>2, <2>3
<1> QED
  BY <1>3, <1>4, <1>5, RegistrySteps

-----------------------------------------------------------------------------
(* A confirmed message reached somebody *)

\* The thread of c that is to confirm a message has sent it, is sending it to
\* somebody, or lost somebody to send it to.
Confirming(c) ==
  thread[c].req.type = "message" =>
    /\ thread[c].pc \in {"message_check", "respond"}
    /\ you(c) \in User
    /\ thread[c].pc = "respond" /\ thread[c].resp = "yes" =>
         \/ thread[c].reached
         \/ Departed(you(c))
         \/ /\ thread[c].out # <<>>
            /\ Head(thread[c].out) = Call(you(c), "MESSAGE", me(c))
            /\ thread[c].targetIDs = NoTargets => Online(you(c))

ConfirmInv == Undisturbed => \A c \in Conn : Confirming(c)

\* What others do leaves a confirmation what it was.
LEMMA ConfirmingStays ==
  ASSUME IInv, NEW c \in Conn, Proceeds(c), faults' = 0,
         NEW d \in Conn, thread'[d] = thread[d], Confirming(d)
  PROVE  Confirming(d)'
<1>1. ASSUME thread[d].req.type = "message"
      PROVE  /\ Departed(you(d)) => Departed(you(d))'
             /\ Online(you(d)) => Online(you(d))' \/ Departed(you(d))'
  <2>1. you(d) \in User /\ you(d)' = you(d)
    BY <1>1 DEF Confirming, you
  <2>2. /\ \A u \in User : Departed(u) => Departed(u)'
        /\ \A u \in User : Online(u) => Online(u)' \/ Departed(u)'
    BY DepartedStays, OnlineLasts
  <2> QED
    BY <2>1, <2>2 DEF Departed, Online
<1> QED
  BY <1>1 DEF Confirming, me, you

\* A message checked is to be sent to somebody online.
LEMMA ActorConfirming ==
  ASSUME IInv, NEW c \in Conn, Proceeds(c), faults' = 0, Confirming(c),
         ~Collect(c), \A k \in Conn : ~Deliver(c, k)
  PROVE  Confirming(c)'
<1>0. /\ thread[c].out = <<>>
      /\ me(c)' = me(c) \/ Register(c)
      /\ \A d \in Conn \ {c} : thread'[d] = thread[d]
  BY NotSending DEF me
<1>1. CASE thread[c].req.type # "message" /\ thread'[c].req = thread[c].req
  BY <1>1 DEF Confirming
<1>2. CASE thread'[c].req = NoRequest
  BY <1>2 DEF Confirming, NoRequest
<1>3. CASE Move(c)
  <2>1. PICK l \in Labels, r \in {"none", "yes", "no"} :
          /\ <<thread[c].pc, l>> \in Moves
          /\ thread[c].pc = "message_check" => r = "no"
          /\ Acts(c, l, r, thread[c].names, <<>>)
    BY <1>3 DEF Move
  <2>2. thread'[c].req = thread[c].req /\ thread'[c].pc = l /\ thread'[c].resp = r
    BY <2>1 DEF Acts
  <2>3. CASE thread[c].req.type = "message"
    <3>1. thread[c].pc \in {"message_check", "respond"} /\ you(c) \in User
      BY <2>3 DEF Confirming
    <3>2. l = "respond" /\ r = "no"
      BY <2>1, <3>1 DEF Moves
    <3> QED
      BY <2>2, <3>1, <3>2 DEF Confirming, you
  <2> QED
    BY <1>1, <2>2, <2>3
<1>4. CASE Spawn(c) \/ Close(c) \/ Respond(c)
  BY <1>2, <1>4, SpawnIs, CloseIs, RespondIs DEF StartsOver
<1>5. CASE \E r \in Requests : Arrives(c, r)
  <2>1. PICK r \in Requests : Arrives(c, r)
    BY <1>5
  <2>2. thread'[c].req = r /\ thread'[c].pc = Case(r.type) /\ r.name \in User
    BY <2>1, ReceiveIs DEF Arrives
  <2>3. r.type = "message" => Case(r.type) = "message_check"
    BY DEF Case
  <2> QED
    BY <2>2, <2>3 DEF Confirming, you
<1>6. CASE MessageCheck(c) /\ ~Move(c)
  <2>1. /\ Online(you(c)) /\ UNCHANGED clientIDs /\ thread[c].pc = "message_check"
        /\ thread'[c].pc = "respond" /\ me(c)' = me(c) /\ you(c)' = you(c)
        /\ thread'[c].out = <<Call(you(c), "MESSAGE", me(c))>>
    BY <1>6, MessageCheckIs DEF Acts, Local, registry, me, you
  <2>2. you(c) \in User
    BY <2>1 DEF IInv, LocalsOK, AskingLabels, you
  <2> QED
    BY <2>1, <2>2 DEF Confirming, Online, Call
<1>7. CASE /\ ~Move(c) /\ ~Spawn(c) /\ ~Close(c) /\ ~Respond(c) /\ ~MessageCheck(c)
           /\ \A r \in Requests : ~Arrives(c, r)
  <2> DEFINE Aside == /\ thread[c].pc \notin {"message_check", "respond"}
                      /\ thread'[c].req = thread[c].req
  <2>1. CreateInsert(c) \/ Register(c) \/ AskInsert(c) => Aside
    BY CreateInsertIs, RegisterIs, AskInsertIs DEF Acts
  <2>2. LoginIncoming(c) \/ LoginOutgoing(c) \/ LoginFriends(c) \/ ByeFriends(c) => Aside
    BY WalksAre DEF Walks, Acts
  <2>3. ASSUME NEW n \in User,
               EachIncoming(c, n) \/ EachOutgoing(c, n) \/ EachFriend(c, n) \/ EachBye(c, n)
        PROVE  Aside
    BY <2>3, TurnsAre DEF Turns, Acts
  <2>4. AcceptRemove(c) \/ AcceptFirst(c) \/ AcceptSecond(c) \/ RejectRemove(c) \/ Hide(c)
          => Aside
    BY AcceptRemoveIs, AcceptFirstIs, AcceptSecondIs, RejectRemoveIs, HideIs DEF Acts
  <2>5. AcceptAnnounce(c) \/ RejectTell(c) => Aside
    BY AcceptAnnounceIs, RejectTellIs DEF Acts
  <2>6. Aside => Confirming(c)'
    BY <1>1 DEF Confirming
  <2> HIDE DEF Aside
  <2> QED
    BY <1>7, <2>1, <2>2, <2>3, <2>4, <2>5, <2>6 DEF Proceeds
<1> QED
  BY <1>3, <1>4, <1>5, <1>6, <1>7

\* Somebody online is among the targets, and a target served was reached.
LEMMA SenderConfirming ==
  ASSUME IInv, NEW c \in Conn, faults' = 0, Confirming(c), Proceeds(c),
         Collect(c) \/ \E k \in Conn : Deliver(c, k)
  PROVE  Confirming(c)'
<1> SUFFICES ASSUME thread[c].req.type = "message"
             PROVE  Confirming(c)'
  BY SendsAre DEF Sends, Confirming
<1>1. /\ thread'[c].pc = thread[c].pc /\ thread'[c].req = thread[c].req
      /\ thread'[c].resp = thread[c].resp /\ me(c)' = me(c) /\ you(c)' = you(c)
      /\ UNCHANGED clientIDs
      /\ thread[c].pc \in {"message_check", "respond"} /\ you(c) \in User
  BY SendsAre DEF Sends, Confirming, me, you, registry
<1>2. Departed(you(c)) => Departed(you(c))'
  <2>1. \A u \in User : Departed(u) => Departed(u)'
    BY DepartedStays
  <2> QED
    BY <1>1, <2>1 DEF Departed
<1>3. thread[c].reached => thread'[c].reached
  BY CollectIs, DeliverIs DEF Sends
<1>4. ASSUME thread[c].out # <<>>, Head(thread[c].out) = Call(you(c), "MESSAGE", me(c)),
             thread[c].targetIDs = NoTargets => Online(you(c))
      PROVE  \/ thread'[c].reached
             \/ /\ thread'[c].out # <<>>
                /\ Head(thread'[c].out) = Call(you(c), "MESSAGE", me(c))
                /\ thread'[c].targetIDs # NoTargets
  <2>1. CASE Collect(c)
    <3>1. Head(thread[c].out).to = you(c)
      BY <1>4 DEF Call
    <3>2. thread[c].targetIDs = NoTargets /\ Online(you(c))
      BY <1>4, <2>1, CollectIs
    <3>3. clientIDs[you(c)] # NoTargets
      BY <3>2 DEF Online, NoTargets
    <3>4. Sends(c, thread[c].out, clientIDs[you(c)], thread[c].reached)
      BY <2>1, <3>1, <3>3, CollectIs
    <3> QED
      BY <1>4, <3>3, <3>4 DEF Sends
  <2>2. ASSUME NEW k \in Conn, Deliver(c, k) PROVE thread'[c].reached
    <3>1. Head(thread[c].out).type = "MESSAGE"
      BY <1>4 DEF Call
    <3> QED
      BY <2>2, <3>1, DeliverIs DEF Sends
  <2> QED
    BY <2>1, <2>2
<1> QED
  BY <1>1, <1>2, <1>3, <1>4 DEF Confirming

\* The answer that a message was sent is given only when it reached a
\* connection of its recipient, as long as none of the recipient's sessions has
\* left between the two look-ups: for every number of sessions on either side,
\* and whatever else they are told meanwhile.
THEOREM ConfirmationHonest == Spec => []ConfirmedIsDelivered
<1>1. Init => ConfirmInv
  <2> SUFFICES ASSUME Init, NEW c \in Conn PROVE Confirming(c)
    BY DEF ConfirmInv
  <2>1. thread[c].req.type = "none"
    BY DEF Init, AllFresh, Fresh, NoRequest
  <2> QED
    BY <2>1 DEF Confirming
<1>2. IInv /\ ConfirmInv /\ [Next]_vars => ConfirmInv'
  <2> SUFFICES ASSUME IInv, ConfirmInv, [Next]_vars, Undisturbed'
               PROVE  \A d \in Conn : Confirming(d)'
    BY DEF ConfirmInv
  <2>1. /\ Undisturbed /\ faults' = 0
        /\ UNCHANGED vars \/ \E c \in Conn : Proceeds(c)
    BY UndisturbedStep
  <2>2. \A d \in Conn : Confirming(d)
    BY <2>1 DEF ConfirmInv
  <2>3. CASE UNCHANGED vars
    BY <2>2, <2>3 DEF vars, Confirming, Departed, Leaving, Online, me, you
  <2>4. ASSUME NEW c \in Conn, Proceeds(c), NEW d \in Conn PROVE Confirming(d)'
    <3>1. CASE d # c
      BY <2>1, <2>2, <2>4, <3>1, OthersStill, ConfirmingStays
    <3>2. CASE d = c
      BY <2>1, <2>2, <2>4, <3>2, ActorConfirming, SenderConfirming
    <3> QED
      BY <3>1, <3>2
  <2> QED
    BY <2>1, <2>3, <2>4
<1>3. ConfirmInv => ConfirmedIsDelivered
  BY DEF ConfirmInv, ConfirmedIsDelivered, Confirming, At, Departed
<1> QED
  BY <1>1, <1>2, <1>3, Invariance, PTL DEF Spec

-----------------------------------------------------------------------------
(* Two friends never both miss each other *)

\* The thread of d has a call p to make, to the connection b among others.
Unserved(d, b, p) ==
  \E i \in 1..Len(thread[d].out) :
    /\ thread[d].out[i] = p
    /\ i > 1 \/ thread[d].targetIDs = NoTargets \/ thread[d].targetIDs[b] > 0

\* The session over b, which looks up its friends, or an acceptance between its
\* user and x, has yet to tell b that x is online.
Owes(b, x) ==
  \/ thread[b].pc \in {"login_incoming", "each_incoming", "each_outgoing"}
  \/ thread[b].pc = "each_friend" /\ thread[b].names[x] > 0
  \/ Unserved(b, b, Call(me(b), "ONLINE", x))
  \/ \E d \in Conn :
       /\ Befriending(d, me(b), x)
       /\ \/ thread[d].pc \in {"accept_second", "accept_announce"}
          \/ Unserved(d, b, Call(me(b), "ONLINE", x))

Seen(b, x) == status[b][x] = "ONLINE" \/ Owes(b, x)

BothRows(x, y) == friends[x][y] > 0 /\ friends[y][x] > 0

\* Nobody is about to be told that x has left, of those who are y.
NoWarning(y, x) ==
  \A d \in Conn : \A i \in 1..Len(thread[d].out) : thread[d].out[i] # Call(y, "OFFLINE", x)

\* User y, logged in later than x, sees x in each of her sessions, or will.
Sees(y, x) ==
  /\ Online(y) => Online(x)
  /\ NoWarning(y, x)
  /\ \A b \in Conn : Running(b) /\ me(b) = y /\ BothRows(x, y) => Seen(b, x)

\* Who is called offline is told so by his own login, or has left.
Warned(d) ==
  \A i \in 1..Len(thread[d].out) :
    thread[d].out[i].type = "OFFLINE"
      => \/ thread[d].out[i].to = me(d)
         \/ thread[d].out[i].name = me(d) /\ Leaving(d)

AcceptLabels == {"accept_remove", "accept_first", "accept_second", "accept_announce"}
Accepting(c) == thread[c].pc \in AcceptLabels => thread[c].req.type = "accept"

SightInv ==
  Undisturbed /\ ~Relogin =>
    /\ NobodyCreates
    /\ \A c \in Conn : Warned(c) /\ Accepting(c)
    /\ \A x, y \in User :
         x # y /\ ~Departed(x) /\ ~Departed(y) => Sees(x, y) \/ Sees(y, x)

\* Whoever has a session is online.
LEMMA RunningOnline ==
  ASSUME IInv, NEW b \in Conn, Running(b), me(b) # NoUser
  PROVE  Online(me(b))
  BY DEF IInv, HoldsID, Running, Online

\* A user comes online by a session that begins.
LEMMA OnlineBegins ==
  ASSUME IInv, NEW c \in Conn, Proceeds(c), faults' = 0, NEW u \in User, Online(u)'
  PROVE  Online(u) \/ (Register(c) /\ you(c) = u)
<1>1. PICK k \in Conn : clientIDs'[u][k] > 0
  BY DEF Online
<1>2. clientIDs \in [User -> [Conn -> Nat]] /\ clientIDs[u] \in [Conn -> Nat]
  BY DEF IInv, TypeOK
<1>3. CASE UNCHANGED clientIDs
  BY <1>1, <1>3 DEF Online
<1>4. CASE Register(c) /\ you(c) # u
  <2>1. clientIDs' = [clientIDs EXCEPT ![you(c)] =
                        [clientIDs[you(c)] EXCEPT ![c] = clientIDs[you(c)][c] + 1]]
    BY <1>4, RegisterIs
  <2>2. clientIDs'[u] = clientIDs[u]
    BY <1>2, <1>4, <2>1
  <2> QED
    BY <1>1, <2>2 DEF Online
<1>5. CASE Close(c)
  <2>1. \/ clientIDs' = clientIDs
        \/ /\ me(c) # NoUser
           /\ clientIDs' = [clientIDs EXCEPT ![me(c)] =
                              [clientIDs[me(c)] EXCEPT ![c] = clientIDs[me(c)][c] - 1]]
    BY <1>5, CloseIs
  <2>2. \/ clientIDs'[u][k] = clientIDs[u][k]
        \/ clientIDs'[u][k] = clientIDs[u][k] - 1
    BY <1>2, <2>1
  <2>3. clientIDs[u][k] > 0
    BY <1>1, <1>2, <2>2
  <2> QED
    BY <2>3 DEF Online
<1> QED
  BY <1>3, <1>4, <1>5, RegistrySteps

\* What a thread may call offline: whom its own client misses, or its own user.
Warns(c, p) ==
  \/ p.to = me(c) /\ ~Online(p.name) /\ Running(c)
  \/ p.name = me(c) /\ Leaving(c)

\* It calls nobody else so.
LEMMA Warnings ==
  ASSUME IInv, NEW c \in Conn, Proceeds(c), faults' = 0,
         ~Collect(c), \A k \in Conn : ~Deliver(c, k)
  PROVE  \A i \in 1..Len(thread'[c].out) :
           thread'[c].out[i].type = "OFFLINE" => Warns(c, thread'[c].out[i])
<1> DEFINE Careful ==
      \A i \in 1..Len(thread'[c].out) :
        thread'[c].out[i].type = "OFFLINE" => Warns(c, thread'[c].out[i])
<1> SUFFICES Careful
  OBVIOUS
<1>0. thread'[c].out = <<>> => Careful
  OBVIOUS
<1>a. \A u, t, n : thread'[c].out = <<Call(u, t, n)>> /\ t # "OFFLINE" => Careful
  BY DEF Call
<1>1. Move(c) => Careful
  BY <1>0 DEF Move, Acts
<1>2. Spawn(c) \/ Close(c) \/ Respond(c) => Careful
  BY <1>0, SpawnIs, CloseIs, RespondIs DEF StartsOver
<1>3. ASSUME NEW r \in Requests, Arrives(c, r) PROVE Careful
  BY <1>0, <1>3, ReceiveIs DEF Arrives
<1>4. CreateInsert(c) \/ Register(c) => Careful
  BY <1>0, CreateInsertIs, RegisterIs DEF Acts
<1>5. AskInsert(c) => Careful
  BY <1>a, AskInsertIs DEF Acts
<1>6. LoginIncoming(c) \/ LoginOutgoing(c) \/ LoginFriends(c) \/ ByeFriends(c) => Careful
  BY <1>0, WalksAre DEF Walks, Acts
<1>7. ASSUME NEW n \in User, EachIncoming(c, n) \/ EachOutgoing(c, n) PROVE Careful
  BY <1>a, <1>7, TurnsAre DEF Turns, Acts
<1>8. ASSUME NEW n \in User, EachFriend(c, n) PROVE Careful
  <2>1. thread'[c].out = Greeting(c, n) /\ Running(c)
    BY <1>8, TurnsAre DEF Turns, Acts, Running
  <2>2. CASE Online(n)
    <3>1. thread'[c].out = <<Call(me(c), "ONLINE", n), Call(n, "ONLINE", me(c))>>
      BY <2>1, <2>2 DEF Greeting
    <3>2. \A i \in 1..Len(thread'[c].out) : thread'[c].out[i].type = "ONLINE"
      BY <3>1 DEF Call
    <3> QED
      BY <3>2
  <2>3. CASE ~Online(n)
    <3>1. thread'[c].out = <<Call(me(c), "OFFLINE", n)>>
      BY <2>1, <2>3 DEF Greeting
    <3>2. \A i \in 1..Len(thread'[c].out) : thread'[c].out[i] = Call(me(c), "OFFLINE", n)
      BY <3>1
    <3> QED
      BY <2>1, <2>3, <3>2 DEF Warns, Call
  <2> QED
    BY <2>2, <2>3
<1>9. ASSUME NEW n \in User, EachBye(c, n) PROVE Careful
  <2>1. thread'[c].out = Farewell(c, n) /\ Leaving(c)
    BY <1>9, TurnsAre DEF Turns, Acts, Leaving
  <2>2. \A i \in 1..Len(thread'[c].out) : thread'[c].out[i] = Call(n, "OFFLINE", me(c))
    BY <2>1 DEF Farewell
  <2> QED
    BY <2>1, <2>2 DEF Warns, Call
<1>10. AcceptRemove(c) \/ AcceptFirst(c) \/ AcceptSecond(c) \/ RejectRemove(c) \/ Hide(c)
         => Careful
  BY <1>0, AcceptRemoveIs, AcceptFirstIs, AcceptSecondIs, RejectRemoveIs, HideIs DEF Acts
<1>11. ASSUME AcceptAnnounce(c) PROVE Careful
  <2>1. thread'[c].out = Announcement(c) /\ Running(c)
    BY <1>11, AcceptAnnounceIs DEF Acts, Running
  <2>2. CASE Online(you(c))
    <3>1. \A i \in 1..Len(thread'[c].out) : thread'[c].out[i].type \in {"ONLINE", "ACCEPT"}
      BY <2>1, <2>2 DEF Announcement, Call
    <3> QED
      BY <3>1
  <2>3. CASE ~Online(you(c))
    <3>1. \A i \in 1..Len(thread'[c].out) : thread'[c].out[i] = Call(me(c), "OFFLINE", you(c))
      BY <2>1, <2>3 DEF Announcement
    <3> QED
      BY <2>1, <2>3, <3>1 DEF Warns, Call
  <2> QED
    BY <2>2, <2>3
<1>12. RejectTell(c) => Careful
  BY <1>a, RejectTellIs DEF Acts
<1>13. MessageCheck(c) => Careful
  BY <1>1, <1>a, MessageCheckIs DEF Acts
<1> HIDE DEF Careful
<1> QED
  BY <1>1, <1>2, <1>3, <1>4, <1>5, <1>6, <1>7, <1>8, <1>9, <1>10, <1>11, <1>12, <1>13 DEF Proceeds

\* Whom a thread was to warn of somebody, it still is, or nobody.
LEMMA SendsNothingNew ==
  ASSUME IInv, NEW c \in Conn, faults' = 0, Collect(c) \/ \E k \in Conn : Deliver(c, k)
  PROVE  \A j \in 1..Len(thread'[c].out) :
           \E l \in 1..Len(thread[c].out) : thread'[c].out[j] = thread[c].out[l]
<1>1. thread[c].out # <<>> /\ thread'[c].out \in {thread[c].out, Tail(thread[c].out)}
  BY SendsAre DEF Sends
<1>2. thread[c].out \in Seq(Calls)
  BY ThreadFields
<1>3. CASE thread'[c].out = thread[c].out
  BY <1>3
<1>4. CASE thread'[c].out = Tail(thread[c].out)
  <2>1. /\ Len(Tail(thread[c].out)) = Len(thread[c].out) - 1
        /\ \A j \in 1..Len(Tail(thread[c].out)) :
             /\ Tail(thread[c].out)[j] = thread[c].out[j + 1]
             /\ j + 1 \in 1..Len(thread[c].out)
    BY <1>1, <1>2
  <2> QED
    BY <1>4, <2>1
<1> QED
  BY <1>1, <1>3, <1>4

\* Whoever a thread calls offline goes on being one who may be called so.
LEMMA WarnedStays ==
  ASSUME IInv, NEW c \in Conn, Proceeds(c), faults' = 0, NEW d \in Conn, Warned(d)
  PROVE  Warned(d)'
<1> SUFFICES ASSUME NEW i \in 1..Len(thread'[d].out), thread'[d].out[i].type = "OFFLINE"
             PROVE  \/ thread'[d].out[i].to = me(d)'
                    \/ thread'[d].out[i].name = me(d)' /\ Leaving(d)'
  BY DEF Warned
<1>1. CASE d # c
  <2>1. thread'[d] = thread[d]
    BY <1>1, OthersStill
  <2> QED
    BY <2>1 DEF Warned, Leaving, me
<1>2. CASE d = c /\ (Collect(c) \/ \E k \in Conn : Deliver(c, k))
  <2>1. PICK l \in 1..Len(thread[c].out) : thread'[c].out[i] = thread[c].out[l]
    BY <1>2, SendsNothingNew
  <2>2. me(c)' = me(c) /\ thread'[c].pc = thread[c].pc
    BY <1>2, SendsAre DEF Sends, me
  <2> QED
    BY <1>2, <2>1, <2>2 DEF Warned, Leaving
<1>3. CASE d = c /\ ~Collect(c) /\ \A k \in Conn : ~Deliver(c, k)
  <2>1. Warns(c, thread'[c].out[i])
    BY <1>3, Warnings
  <2>2. ~Register(c)
    BY <1>3, RegisterIs
  <2>3. me(c)' = me(c)
    BY <1>3, <2>2, NotSending DEF me
  <2> QED
    BY <1>3, <2>1, <2>3, LeavingStays DEF Warns
<1> QED
  BY <1>1, <1>2, <1>3

\* As long as x stays, nobody is told otherwise.
LEMMA NoWarningStays ==
  ASSUME IInv, NEW c \in Conn, Proceeds(c), faults' = 0, NEW x \in User, NEW y \in User,
         ~Departed(x), Online(y) => Online(x), NoWarning(y, x)
  PROVE  NoWarning(y, x)'
<1> SUFFICES ASSUME NEW d \in Conn, NEW i \in 1..Len(thread'[d].out),
                    thread'[d].out[i] = Call(y, "OFFLINE", x)
             PROVE  FALSE
  BY DEF NoWarning, Call
<1>1. CASE d # c
  BY <1>1, OthersStill DEF NoWarning
<1>2. CASE d = c /\ (Collect(c) \/ \E k \in Conn : Deliver(c, k))
  BY <1>2, SendsNothingNew DEF NoWarning
<1>3. CASE d = c /\ ~Collect(c) /\ \A k \in Conn : ~Deliver(c, k)
  <2>1. Warns(c, Call(y, "OFFLINE", x))
    BY <1>3, Warnings DEF Call
  <2>2. CASE y = me(c) /\ ~Online(x) /\ Running(c)
    BY <2>2, RunningOnline, NoUserAssumption
  <2>3. CASE x = me(c) /\ Leaving(c)
    BY <2>3 DEF Departed
  <2> QED
    BY <2>1, <2>2, <2>3 DEF Warns, Call
<1> QED
  BY <1>1, <1>2, <1>3

\* Acceptances are the work of requests to accept.
LEMMA AcceptingStays ==
  ASSUME IInv, NEW c \in Conn, Proceeds(c), faults' = 0, NEW d \in Conn, Accepting(d)
  PROVE  Accepting(d)'
<1> USE DEF AcceptLabels
<1>1. CASE d # c
  BY <1>1, OthersStill DEF Accepting
<1>2. CASE d = c /\ (Collect(c) \/ \E k \in Conn : Deliver(c, k))
  BY <1>2, SendsAre DEF Sends, Accepting
<1>3. CASE d = c /\ ~Collect(c) /\ \A k \in Conn : ~Deliver(c, k)
  <2>0. thread'[c].pc \notin AcceptLabels => Accepting(c)'
    BY DEF Accepting
  <2>1. Move(c) => Accepting(c)'
    BY <2>0 DEF Move, Moves, Acts
  <2>2. Spawn(c) \/ Close(c) \/ Respond(c) => Accepting(c)'
    BY <2>0, SpawnIs, CloseIs, RespondIs DEF StartsOver
  <2>3. ASSUME NEW r \in Requests, Arrives(c, r) PROVE Accepting(c)'
    <3>1. thread'[c].req = r /\ thread'[c].pc = Case(r.type) /\ r.type \in Kinds
      BY <2>3, ReceiveIs DEF Arrives
    <3>2. Case(r.type) \in AcceptLabels => r.type = "accept"
      BY <3>1 DEF Case, Kinds
    <3> QED
      BY <3>1, <3>2 DEF Accepting
  <2>4. CreateInsert(c) \/ Register(c) \/ AskInsert(c) => Accepting(c)'
    BY <2>0, CreateInsertIs, RegisterIs, AskInsertIs DEF Acts
  <2>5. LoginIncoming(c) \/ LoginOutgoing(c) \/ LoginFriends(c) \/ ByeFriends(c)
          => Accepting(c)'
    BY <2>0, WalksAre DEF Walks, Acts
  <2>6. ASSUME NEW n \in User,
               EachIncoming(c, n) \/ EachOutgoing(c, n) \/ EachFriend(c, n) \/ EachBye(c, n)
        PROVE  Accepting(c)'
    BY <2>0, <2>6, TurnsAre DEF Turns, Acts
  <2>7. AcceptRemove(c) \/ AcceptFirst(c) \/ AcceptSecond(c) => Accepting(c)'
    BY <1>3, AcceptRemoveIs, AcceptFirstIs, AcceptSecondIs DEF Acts, Accepting
  <2>8. RejectRemove(c) \/ Hide(c) \/ AcceptAnnounce(c) \/ RejectTell(c) => Accepting(c)'
    BY <2>0, RejectRemoveIs, HideIs, AcceptAnnounceIs, RejectTellIs DEF Acts
  <2>9. MessageCheck(c) => Accepting(c)'
    BY <2>0, <2>1, MessageCheckIs DEF Acts
  <2> QED
    BY <1>3, <2>1, <2>2, <2>3, <2>4, <2>5, <2>6, <2>7, <2>8, <2>9 DEF Proceeds
<1> QED
  BY <1>1, <1>2, <1>3

\* A call that goes to all sessions of y reaches b, or is still on its way.
LEMMA UnservedSends ==
  ASSUME IInv, NEW c \in Conn, faults' = 0, Collect(c) \/ \E k \in Conn : Deliver(c, k),
         NEW b \in Conn, NEW x \in User, NEW y \in User, Running(b), me(b) = y,
         Unserved(c, b, Call(y, "ONLINE", x))
  PROVE  \/ Unserved(c, b, Call(y, "ONLINE", x))'
         \/ status'[b][x] = "ONLINE"
<1> DEFINE p == Call(y, "ONLINE", x)
<1>1. PICK i \in 1..Len(thread[c].out) :
        /\ thread[c].out[i] = p
        /\ i > 1 \/ thread[c].targetIDs = NoTargets \/ thread[c].targetIDs[b] > 0
  BY DEF Unserved
<1>2. thread[c].out \in Seq(Calls) /\ thread[c].targetIDs \in [Conn -> Nat]
  BY ThreadFields
<1>p. p.to = y /\ p.type = "ONLINE" /\ p.name = x
  BY DEF Call
<1> HIDE DEF p
<1>3. CASE i > 1
  <2>1. thread'[c].out = thread[c].out \/ thread'[c].out = Tail(thread[c].out)
    BY SendsAre DEF Sends
  <2>2. thread'[c].out = Tail(thread[c].out) => thread'[c].targetIDs = NoTargets
    <3>1. Tail(thread[c].out) # thread[c].out
      <4> DEFINE n == Len(thread[c].out)
                 m == Len(Tail(thread[c].out))
      <4>1. n \in Nat /\ m = n - 1
        BY <1>1, <1>2
      <4>2. Tail(thread[c].out) = thread[c].out => m = n
        BY Zenon
      <4> HIDE DEF n, m
      <4>3. m # n
        BY <4>1
      <4> QED
        BY <4>2, <4>3
    <3> QED
      BY <3>1, CollectIs, DeliverIs DEF Sends
  <2>3. /\ i - 1 \in 1..Len(Tail(thread[c].out))
        /\ Tail(thread[c].out)[i - 1] = thread[c].out[i]
    BY <1>1, <1>2, <1>3
  <2>4. Unserved(c, b, p)'
    BY <1>1, <1>3, <2>1, <2>2, <2>3 DEF Unserved, p, Call
  <2> QED
    BY <2>4 DEF p
<1>4. CASE i = 1
  <2>1. Head(thread[c].out) = p /\ 1 \in 1..Len(thread[c].out)
    BY <1>1, <1>2, <1>4
  <2>2. clientIDs[y][b] > 0
    BY NoUserAssumption DEF IInv, HoldsID, Running
  <2>3. CASE Collect(c)
    <3>1. clientIDs[y] # NoTargets
      BY <2>2 DEF NoTargets
    <3>2. Sends(c, thread[c].out, clientIDs[y], thread[c].reached)
      BY <1>p, <2>1, <2>3, <3>1, CollectIs
    <3>3. Unserved(c, b, p)'
      BY <2>1, <1>1, <1>4, <2>2, <3>2 DEF Unserved, Sends, p, Call
    <3> QED
      BY <3>3 DEF p
  <2>4. ASSUME NEW k \in Conn, Deliver(c, k)
        PROVE  Unserved(c, b, p)' \/ status'[b][x] = "ONLINE"
    <3> DEFINE left == Without(thread[c].targetIDs, k)
    <3>1. /\ thread[c].targetIDs[k] > 0
          /\ Learns(k, p)
          /\ \E heard : \/ left = NoTargets /\ Sends(c, Tail(thread[c].out), NoTargets, heard)
                        \/ left # NoTargets /\ Sends(c, thread[c].out, left, heard)
      BY <2>1, <2>4, DeliverIs
    <3>2. thread[c].targetIDs[b] > 0
      BY <1>1, <1>4, <3>1 DEF NoTargets
    <3>3. CASE k = b
      <4>1. status \in [Conn -> [User -> {"unknown", "ONLINE", "OFFLINE"}]]
        BY DEF IInv, TypeOK, ClientsTypeOK
      <4>2. status' = [status EXCEPT ![b] = [status[b] EXCEPT ![x] = "ONLINE"]]
        BY <1>p, <3>1, <3>3 DEF Learns
      <4> QED
        BY <4>1, <4>2
    <3>4. CASE k # b
      <4>1. left[b] > 0 /\ left # NoTargets
        BY <1>2, <3>2, <3>4 DEF Without, NoTargets
      <4> HIDE DEF left
      <4>2. PICK heard : Sends(c, thread[c].out, left, heard)
        BY <3>1, <4>1
      <4> QED
        BY <2>1, <1>1, <1>4, <4>1, <4>2 DEF Unserved, Sends, p, Call
    <3> QED
      BY <3>3, <3>4
  <2> QED
    BY <2>3, <2>4 DEF p
<1> QED
  BY <1>1, <1>3, <1>4

\* sendOutPacket takes nothing back that b saw or was to see.
LEMMA SenderSeen ==
  ASSUME IInv, NEW c \in Conn, faults' = 0, Collect(c) \/ \E k \in Conn : Deliver(c, k),
         Aimed, NEW b \in Conn, NEW x \in User, NEW y \in User, Running(b), me(b) = y,
         NoWarning(y, x), Seen(b, x)
  PROVE  Seen(b, x)'
<1>1. \A d \in Conn : /\ thread'[d].pc = thread[d].pc /\ thread'[d].names = thread[d].names
                      /\ thread'[d].req = thread[d].req
                      /\ me(d)' = me(d) /\ you(d)' = you(d)
  BY SendsAre DEF Sends, me, you
<1>2. \A d \in Conn \ {c} : thread'[d] = thread[d]
  BY SendsAre DEF Sends
<1>3. CASE status[b][x] = "ONLINE"
  <2>1. CASE Collect(c)
    BY <1>3, <2>1, CollectIs DEF Local, clients, Seen
  <2>2. ASSUME NEW k \in Conn, Deliver(c, k) PROVE status'[b][x] = "ONLINE"
    <3> DEFINE p == Head(thread[c].out)
    <3>1. /\ thread[c].out # <<>> /\ thread[c].targetIDs[k] > 0 /\ p \in Calls
          /\ Learns(k, p)
      BY <2>2, DeliverIs
    <3>2. me(k) = p.to
      BY <3>1 DEF Aimed
    <3>3. thread[c].out \in Seq(Calls)
      BY ThreadFields
    <3>4. 1 \in 1..Len(thread[c].out) /\ p = thread[c].out[1]
      BY <3>1, <3>3
    <3>5. p # Call(y, "OFFLINE", x)
      BY <3>4 DEF NoWarning
    <3>6. ~(k = b /\ p.type = "OFFLINE" /\ p.name = x)
      <4>1. p = [to |-> p.to, type |-> p.type, name |-> p.name]
        BY <3>1 DEF Calls
      <4> QED
        BY <3>2, <3>5, <4>1 DEF Call
    <3> HIDE DEF p
    <3>7. status \in [Conn -> [User -> {"unknown", "ONLINE", "OFFLINE"}]] /\ p.name \in User
      BY <3>1 DEF IInv, TypeOK, ClientsTypeOK, Calls
    <3>8. \/ status' = status
          \/ /\ p.type \in {"ONLINE", "OFFLINE"}
             /\ status' = [status EXCEPT ![k] = [status[k] EXCEPT ![p.name] = p.type]]
      BY <3>1 DEF Learns
    <3>9. \/ status'[b][x] = status[b][x]
          \/ k = b /\ p.name = x /\ status'[b][x] = p.type /\ p.type \in {"ONLINE", "OFFLINE"}
      BY <3>7, <3>8
    <3> QED
      BY <1>3, <3>6, <3>9
  <2> QED
    BY <2>1, <2>2 DEF Seen
<1>4. ASSUME NEW d \in Conn, Unserved(d, b, Call(y, "ONLINE", x))
      PROVE  \/ Unserved(d, b, Call(y, "ONLINE", x))'
             \/ status'[b][x] = "ONLINE"
  <2>1. CASE d = c
    BY <1>4, <2>1, UnservedSends
  <2>2. CASE d # c
    BY <1>2, <1>4, <2>2 DEF Unserved, Call
  <2> QED
    BY <2>1, <2>2
<1>5. \A d \in Conn : Unserved(d, b, Call(me(b), "ONLINE", x))'
                        <=> Unserved(d, b, Call(y, "ONLINE", x))'
  BY <1>1 DEF Unserved, Call
<1>6. \A d \in Conn : Befriending(d, me(b), x)' <=> Befriending(d, me(b), x)
  BY <1>1 DEF Befriending
<1>7. CASE Owes(b, x)
  <2>1. CASE \/ thread[b].pc \in {"login_incoming", "each_incoming", "each_outgoing"}
             \/ thread[b].pc = "each_friend" /\ thread[b].names[x] > 0
    BY <1>1, <2>1 DEF Seen, Owes
  <2>2. CASE Unserved(b, b, Call(me(b), "ONLINE", x))
    BY <1>4, <1>5, <2>2 DEF Seen, Owes
  <2>3. ASSUME NEW d \in Conn, Befriending(d, me(b), x),
               \/ thread[d].pc \in {"accept_second", "accept_announce"}
               \/ Unserved(d, b, Call(me(b), "ONLINE", x))
        PROVE  Seen(b, x)'
    BY <1>1, <1>4, <1>5, <1>6, <2>3 DEF Seen, Owes
  <2> QED
    BY <1>7, <2>1, <2>2, <2>3 DEF Owes
<1> QED
  BY <1>3, <1>7 DEF Seen

\* A call at index i of a thread without targets is to go to everybody.
LEMMA CallAt ==
  ASSUME NEW d \in Conn, NEW b \in Conn, NEW p, NEW i \in 1..Len(thread'[d].out),
         thread'[d].out[i] = p, thread'[d].targetIDs = NoTargets
  PROVE  \E j \in 1..Len(thread'[d].out) :
           /\ thread'[d].out[j] = p
           /\ j > 1 \/ thread'[d].targetIDs = NoTargets \/ thread'[d].targetIDs[b] > 0
  OBVIOUS

\* The login of b tells b of x, when x is online, before it is done.
LEMMA LoginSeen ==
  ASSUME IInv, NEW b \in Conn, Proceeds(b), faults' = 0,
         ~Collect(b), \A k \in Conn : ~Deliver(b, k), Settled,
         NEW x \in User, NEW y \in User, me(b) = y, Online(x), friends[y][x] > 0,
         \/ thread[b].pc \in {"login_incoming", "each_incoming", "each_outgoing"}
         \/ thread[b].pc = "each_friend" /\ thread[b].names[x] > 0
  PROVE  Owes(b, x)'
<1>1. thread[b].out = <<>> /\ thread[b].targetIDs = NoTargets
  BY NotSending DEF Settled
<1>2. thread[b].pc \in {"login_incoming", "each_incoming", "each_outgoing", "each_friend"}
  OBVIOUS
<1>3. CASE LoginIncoming(b) \/ LoginOutgoing(b)
  BY <1>3, WalksAre DEF Walks, Acts, Owes
<1>4. CASE LoginFriends(b)
  <2>1. thread'[b].pc = "each_friend" /\ thread'[b].names = friends[y]
    BY <1>4, WalksAre DEF Walks, Acts, getFriendList
  <2> QED
    BY <2>1 DEF Owes
<1>5. ASSUME NEW n \in User, EachIncoming(b, n) \/ EachOutgoing(b, n) PROVE Owes(b, x)'
  BY <1>5, TurnsAre DEF Turns, Acts, Owes
<1>6. ASSUME NEW n \in User, EachFriend(b, n) PROVE Owes(b, x)'
  <2>1. /\ thread[b].pc = "each_friend" /\ thread'[b].pc = "each_friend"
        /\ thread'[b].out = Greeting(b, n) /\ me(b)' = y
        /\ thread'[b].targetIDs = NoTargets
        /\ \A v \in User \ {n} : thread'[b].names[v] = thread[b].names[v]
    BY <1>1, <1>6, TurnsAre DEF Turns, Acts, me
  <2>2. CASE n # x
    BY <2>1, <2>2 DEF Owes
  <2>3. CASE n = x
    <3>1. thread'[b].out = <<Call(y, "ONLINE", x), Call(x, "ONLINE", y)>>
      BY <2>1, <2>3 DEF Greeting
    <3>2. 1 \in 1..Len(thread'[b].out) /\ thread'[b].out[1] = Call(y, "ONLINE", x)
      BY <3>1
    <3>3. Unserved(b, b, Call(me(b), "ONLINE", x))'
      BY <2>1, <3>2, CallAt DEF Unserved, Call
    <3> QED
      BY <3>3 DEF Owes
  <2> QED
    BY <2>2, <2>3
<1>7. ~Move(b)
  <2>1. SUFFICES ASSUME Move(b) PROVE FALSE
    OBVIOUS
  <2>2. thread[b].pc = "each_friend" /\ thread[b].names = Nobody
    BY <1>2, <2>1 DEF Move, Moves
  <2> QED
    BY <2>2 DEF Nobody
<1>8. /\ ~Spawn(b) /\ ~Close(b) /\ ~Respond(b) /\ ~CreateInsert(b) /\ ~Register(b)
      /\ ~ByeFriends(b) /\ ~AskInsert(b) /\ ~AcceptRemove(b) /\ ~AcceptFirst(b)
      /\ ~AcceptSecond(b) /\ ~AcceptAnnounce(b) /\ ~RejectTell(b) /\ ~RejectRemove(b)
      /\ ~Hide(b)
  BY <1>2 DEF At, Spawn, Close, Respond, CreateInsert, Register, ByeFriends, AskInsert,
     AcceptRemove, AcceptFirst, AcceptSecond, AcceptAnnounce, RejectTell, RejectRemove, Hide
<1>9. /\ ~MessageCheck(b)
      /\ \A r \in Requests : ~Arrives(b, r)
      /\ \A n \in User : ~EachBye(b, n)
  BY <1>2 DEF At, MessageCheck, Arrives, Receive, EachBye
<1> QED
  BY <1>3, <1>4, <1>5, <1>6, <1>7, <1>8, <1>9 DEF Proceeds

\* An acceptance between x and y tells both, when both are online, before it is
\* done.
LEMMA AcceptanceSeen ==
  ASSUME IInv, NEW d \in Conn, Proceeds(d), faults' = 0,
         ~Collect(d), \A k \in Conn : ~Deliver(d, k), Settled,
         NEW b \in Conn, NEW x \in User, NEW y \in User, me(b)' = y,
         Online(x), Online(y), x # y, Befriending(d, y, x),
         thread[d].pc \in {"accept_second", "accept_announce"}
  PROVE  Owes(b, x)'
<1>1. thread[d].out = <<>> /\ thread[d].targetIDs = NoTargets
  BY NotSending DEF Settled
<1>2. me(d) \in {x, y} /\ you(d) \in {x, y} /\ me(d) # you(d) /\ thread[d].req.type = "accept"
  BY DEF Befriending
<1>3. CASE AcceptSecond(d)
  <2>1. /\ thread'[d].pc = "accept_announce" /\ thread'[d].req = thread[d].req
        /\ me(d)' = me(d) /\ you(d)' = you(d)
    BY <1>3, AcceptSecondIs DEF Acts, me, you
  <2>2. Befriending(d, me(b), x)'
    BY <2>1 DEF Befriending
  <2> QED
    BY <2>1, <2>2 DEF Owes
<1>4. CASE AcceptAnnounce(d)
  <2>1. /\ thread'[d].out = Announcement(d) /\ thread'[d].req = thread[d].req
        /\ me(d)' = me(d) /\ you(d)' = you(d) /\ thread'[d].targetIDs = NoTargets
    BY <1>1, <1>4, AcceptAnnounceIs DEF Acts, me, you
  <2>2. Befriending(d, me(b), x)'
    BY <2>1 DEF Befriending
  <2>3. thread'[d].out = <<Call(me(d), "ONLINE", you(d)), Call(you(d), "ACCEPT", me(d)),
                           Call(you(d), "ONLINE", me(d))>>
    BY <1>2, <2>1 DEF Announcement
  <2>4. \E i \in 1..Len(thread'[d].out) : thread'[d].out[i] = Call(y, "ONLINE", x)
    <3>1. CASE me(d) = y
      <4>1. 1 \in 1..Len(thread'[d].out) /\ thread'[d].out[1] = Call(y, "ONLINE", x)
        BY <1>2, <2>3, <3>1
      <4> QED
        BY <4>1
    <3>2. CASE me(d) = x
      <4>1. 3 \in 1..Len(thread'[d].out) /\ thread'[d].out[3] = Call(y, "ONLINE", x)
        BY <1>2, <2>3, <3>2
      <4> QED
        BY <4>1
    <3> QED
      BY <1>2, <3>1, <3>2
  <2>5. Unserved(d, b, Call(me(b), "ONLINE", x))'
    BY <2>1, <2>4, CallAt DEF Unserved, Call
  <2> QED
    BY <2>2, <2>5 DEF Owes
<1>5. ~Move(d)
  BY DEF Move, Moves
<1>6. /\ ~Spawn(d) /\ ~Close(d) /\ ~Respond(d) /\ ~CreateInsert(d) /\ ~Register(d)
      /\ ~LoginIncoming(d) /\ ~LoginOutgoing(d) /\ ~LoginFriends(d)
      /\ ~ByeFriends(d) /\ ~AskInsert(d) /\ ~AcceptRemove(d) /\ ~AcceptFirst(d)
      /\ ~RejectTell(d) /\ ~RejectRemove(d) /\ ~Hide(d)
  BY DEF At, Spawn, Close, Respond, CreateInsert, Register, LoginIncoming, LoginOutgoing,
     LoginFriends, ByeFriends, AskInsert, AcceptRemove, AcceptFirst, RejectTell,
     RejectRemove, Hide
<1>7. /\ ~MessageCheck(d)
      /\ \A r \in Requests : ~Arrives(d, r)
      /\ \A n \in User : ~EachIncoming(d, n) /\ ~EachOutgoing(d, n) /\ ~EachFriend(d, n)
                         /\ ~EachBye(d, n)
  BY DEF At, MessageCheck, Arrives, Receive, EachIncoming, EachOutgoing, EachFriend, EachBye
<1> QED
  BY <1>3, <1>4, <1>5, <1>6, <1>7 DEF Proceeds

\* No other step does.
LEMMA ActorSeen ==
  ASSUME IInv, NEW c \in Conn, Proceeds(c), faults' = 0,
         ~Collect(c), \A k \in Conn : ~Deliver(c, k), Settled,
         NEW b \in Conn, NEW x \in User, NEW y \in User, x # y, Running(b),
         me(b) = y, me(b)' = y, Online(x), Online(y), friends[y][x] > 0, Seen(b, x)
  PROVE  Seen(b, x)'
<1>1. /\ thread[c].out = <<>> /\ UNCHANGED status
      /\ \A d \in Conn \ {c} : thread'[d] = thread[d]
  BY NotSending
<1>2. CASE status[b][x] = "ONLINE"
  BY <1>1, <1>2 DEF Seen
<1>3. ASSUME NEW d \in Conn, Unserved(d, b, Call(me(b), "ONLINE", x))
      PROVE  d # c /\ Unserved(d, b, Call(me(b), "ONLINE", x))'
  <2>1. d # c
    BY <1>1, <1>3 DEF Unserved
  <2>2. thread'[d] = thread[d]
    BY <1>1, <2>1
  <2> QED
    BY <1>3, <2>1, <2>2 DEF Unserved, Call
<1>4. CASE \/ thread[b].pc \in {"login_incoming", "each_incoming", "each_outgoing"}
           \/ thread[b].pc = "each_friend" /\ thread[b].names[x] > 0
  <2>1. CASE b # c
    <3>1. thread'[b] = thread[b]
      BY <1>1, <2>1
    <3> QED
      BY <1>4, <3>1 DEF Seen, Owes
  <2>2. CASE b = c
    BY <1>4, <2>2, LoginSeen DEF Seen
  <2> QED
    BY <2>1, <2>2
<1>5. CASE Unserved(b, b, Call(me(b), "ONLINE", x))
  BY <1>3, <1>5 DEF Seen, Owes
<1>6. ASSUME NEW d \in Conn, Befriending(d, me(b), x),
             \/ thread[d].pc \in {"accept_second", "accept_announce"}
             \/ Unserved(d, b, Call(me(b), "ONLINE", x))
      PROVE  Seen(b, x)'
  <2>1. CASE d # c
    <3>1. thread'[d] = thread[d]
      BY <1>1, <2>1
    <3>2. Befriending(d, me(b), x)'
      BY <1>6, <3>1 DEF Befriending, me, you
    <3> QED
      BY <1>3, <1>6, <3>1, <3>2 DEF Seen, Owes
  <2>2. CASE d = c
    <3>1. thread[d].pc \in {"accept_second", "accept_announce"}
      BY <1>3, <1>6, <2>2
    <3> QED
      BY <1>6, <2>2, <3>1, AcceptanceSeen DEF Seen
  <2> QED
    BY <2>1, <2>2
<1> QED
  BY <1>2, <1>4, <1>5, <1>6 DEF Seen, Owes

\* Whoever is a friend since this step is one by an acceptance that is not over.
LEMMA RowsBegin ==
  ASSUME IInv, NEW c \in Conn, Proceeds(c), faults' = 0, Accepting(c),
         NEW x \in User, NEW y \in User, ~BothRows(x, y), BothRows(x, y)'
  PROVE  /\ thread'[c].pc \in {"accept_second", "accept_announce"}
         /\ Befriending(c, y, x)'
<1>1. AcceptFirst(c) \/ AcceptSecond(c)
  <2>1. ~AcceptFirst(c) /\ ~AcceptSecond(c) => UNCHANGED friends
    BY NoHalfStep
  <2> QED
    BY <2>1 DEF BothRows
<1>2. /\ thread[c].pc \in {"accept_first", "accept_second"}
      /\ thread'[c].pc \in {"accept_second", "accept_announce"}
      /\ thread'[c].req = thread[c].req /\ me(c)' = me(c) /\ you(c)' = you(c)
      /\ insertFriendRow(you(c), me(c)) \/ insertFriendRow(me(c), you(c))
  BY <1>1, AcceptFirstIs, AcceptSecondIs DEF Acts, me, you
<1>3. me(c) \in User /\ you(c) \in User /\ thread[c].req.type = "accept"
  BY <1>2 DEF IInv, LocalsOK, UserLabels, AskingLabels, Accepting, AcceptLabels, me, you
<1>4. ASSUME NEW l \in User, NEW r \in User, insertFriendRow(l, r)
      PROVE  {x, y} = {l, r}
  <2>1. /\ friends'[x][y] = IF x = l /\ y = r THEN friends[x][y] + 1 ELSE friends[x][y]
        /\ friends'[y][x] = IF y = l /\ x = r THEN friends[y][x] + 1 ELSE friends[y][x]
    BY <1>4, RowInserted
  <2>2. (x = l /\ y = r) \/ (y = l /\ x = r)
    BY <2>1 DEF BothRows
  <2> QED
    BY <2>2
<1>5. {x, y} = {me(c), you(c)}
  BY <1>2, <1>3, <1>4
<1> QED
  BY <1>2, <1>3, <1>5 DEF Befriending

\* Whoever saw, and is to see, x goes on doing so, and so does a session that
\* begins.
LEMMA SeesStays ==
  ASSUME IInv, IInv', NEW c \in Conn, Proceeds(c), faults' = 0, Settled, Aimed,
         NobodyCreates, Accepting(c),
         NEW x \in User, NEW y \in User, x # y, ~Departed(x)', ~Departed(y)',
         Sees(y, x),
         ~ (Register(c) /\ you(c) = y /\ ~Online(x))
  PROVE  Sees(y, x)'
<1>1. ~Departed(x) /\ ~Departed(y)
  BY DepartedStays
<1>2. Online(y)' => Online(x)'
  BY OnlineBegins, OnlineLasts DEF Sees
<1>3. NoWarning(y, x)'
  BY <1>1, NoWarningStays DEF Sees
<1>4. ASSUME NEW b \in Conn, Running(b)', me(b)' = y, BothRows(x, y)'
      PROVE  Seen(b, x)'
  <2>1. y # NoUser
    BY NoUserAssumption
  <2>2. CASE b = c /\ Register(c)
    <3>1. thread'[b].pc = "login_incoming"
      BY <2>2, RegisterIs DEF NobodyCreates
    <3> QED
      BY <3>1 DEF Seen, Owes
  <2>3. CASE ~(b = c /\ Register(c))
    <3>1. me(b) = y
      <4>1. CASE b # c
        BY <1>4, <4>1, OthersStill DEF me
      <4>2. CASE b = c /\ (Collect(c) \/ \E k \in Conn : Deliver(c, k))
        BY <1>4, <4>2, SendsAre DEF Sends, me
      <4>3. CASE b = c /\ ~Collect(c) /\ \A k \in Conn : ~Deliver(c, k)
        BY <1>4, <2>3, <4>3, NotSending DEF me
      <4> QED
        BY <4>1, <4>2, <4>3
    <3>2. Running(b)
      <4>1. thread[b].pc # "none"
        BY <2>1, <3>1 DEF IInv, LocalsOK, me
      <4>2. thread[b].pc # "closed"
        BY <1>1, <3>1 DEF Departed, Leaving
      <4> QED
        BY <4>1, <4>2 DEF Running
    <3>3. Online(y) /\ Online(x)
      BY <2>1, <3>1, <3>2, RunningOnline DEF Sees
    <3>4. CASE BothRows(x, y)
      <4>1. Seen(b, x) /\ friends[y][x] > 0
        BY <3>1, <3>2, <3>4 DEF Sees, BothRows
      <4>2. CASE Collect(c) \/ \E k \in Conn : Deliver(c, k)
        BY <3>1, <3>2, <4>1, <4>2, SenderSeen DEF Sees
      <4>3. CASE ~Collect(c) /\ \A k \in Conn : ~Deliver(c, k)
        BY <1>4, <3>1, <3>2, <3>3, <4>1, <4>3, ActorSeen
      <4> QED
        BY <4>2, <4>3
    <3>5. CASE ~BothRows(x, y)
      <4>1. /\ thread'[c].pc \in {"accept_second", "accept_announce"}
            /\ Befriending(c, y, x)'
        BY <1>4, <3>5, RowsBegin
      <4>2. Befriending(c, me(b), x)'
        BY <1>4, <4>1 DEF Befriending
      <4> QED
        BY <4>1, <4>2 DEF Seen, Owes
    <3> QED
      BY <3>4, <3>5
  <2> QED
    BY <2>2, <2>3
<1> QED
  BY <1>2, <1>3, <1>4 DEF Sees, NoWarning

\* Whoever comes when y is not there is seen by all sessions of y: there are
\* none, and nobody is about to warn of one.
LEMMA SeesBegins ==
  ASSUME IInv, IInv', NEW c \in Conn, Proceeds(c), faults' = 0,
         \A d \in Conn : Warned(d)',
         NEW x \in User, NEW y \in User, x # y, ~Departed(x)',
         Register(c), you(c) = x, ~Online(y)
  PROVE  Sees(y, x)'
<1>1. ~Online(y)'
  BY OnlineBegins
<1>2. \A b \in Conn : ~(Running(b)' /\ me(b)' = y)
  <2>1. \A b \in Conn : Running(b)' /\ me(b)' # NoUser => clientIDs'[me(b)'][b] > 0
    BY DEF IInv, HoldsID, Running, me
  <2> QED
    BY <1>1, <2>1, NoUserAssumption DEF Online
<1>3. ASSUME NEW d \in Conn, NEW i \in 1..Len(thread'[d].out),
             thread'[d].out[i] = Call(y, "OFFLINE", x)
      PROVE  FALSE
  <2>1. thread'[d].out # <<>>
    BY <1>3
  <2>2. Running(d)'
    BY <2>1 DEF IInv, LocalsOK, Running
  <2>3. me(d)' = y \/ (me(d)' = x /\ Leaving(d)')
    BY <1>3 DEF Warned, Call
  <2> QED
    BY <1>2, <2>2, <2>3 DEF Departed
<1>4. NoWarning(y, x)'
  BY <1>3 DEF NoWarning, Call
<1> QED
  BY <1>1, <1>2, <1>4 DEF Sees

\* No step lets two friends miss each other.
LEMMA NextSight ==
  ASSUME "create" \notin Workload, AimInv, AimInv', SightInv, [Next]_vars
  PROVE  SightInv'
<1> SUFFICES ASSUME Undisturbed', ~Relogin
             PROVE  /\ NobodyCreates'
                    /\ \A c \in Conn : Warned(c)' /\ Accepting(c)'
                    /\ \A x, y \in User :
                         x # y /\ ~Departed(x)' /\ ~Departed(y)' => Sees(x, y)' \/ Sees(y, x)'
  BY DEF SightInv
<1>1. /\ IInv /\ IInv' /\ Undisturbed /\ faults' = 0
      /\ UNCHANGED vars \/ \E c \in Conn : Proceeds(c)
  BY UndisturbedStep DEF AimInv
<1>2. /\ Settled /\ Aimed /\ NobodyCreates
      /\ \A c \in Conn : Warned(c) /\ Accepting(c)
      /\ \A x, y \in User : x # y /\ ~Departed(x) /\ ~Departed(y) => Sees(x, y) \/ Sees(y, x)
  BY <1>1 DEF AimInv, SightInv, Undisturbed
<1>3. CASE UNCHANGED vars
  <2>1. UNCHANGED <<thread, clientIDs, status, friends>>
    BY <1>3 DEF vars
  <2>2. NobodyCreates' /\ \A c \in Conn : Warned(c)' /\ Accepting(c)'
    BY <1>2, <2>1 DEF NobodyCreates, Warned, Accepting, Leaving, me
  <2>3. \A u \in User : Departed(u)' <=> Departed(u)
    BY <2>1 DEF Departed, Leaving, me
  <2>4. \A b \in Conn, x \in User : Seen(b, x)' <=> Seen(b, x)
    BY <2>1 DEF Seen, Owes, Unserved, Befriending, Call, me, you
  <2>5. \A x, y \in User : Sees(x, y) => Sees(x, y)'
    BY <2>1, <2>4 DEF Sees, NoWarning, BothRows, Running, Online, Call, me
  <2> QED
    BY <1>2, <2>2, <2>3, <2>5
<1>4. ASSUME NEW c \in Conn, Proceeds(c)
      PROVE  /\ NobodyCreates'
             /\ \A d \in Conn : Warned(d)' /\ Accepting(d)'
             /\ \A x, y \in User :
                  x # y /\ ~Departed(x)' /\ ~Departed(y)' => Sees(x, y)' \/ Sees(y, x)'
  <2>1. NobodyCreates'
    BY <1>1, <1>2, <1>4, CreateStep
  <2>2. \A d \in Conn : Warned(d)' /\ Accepting(d)'
    BY <1>1, <1>2, <1>4, WarnedStays, AcceptingStays
  <2>3. ASSUME NEW x \in User, NEW y \in User, x # y, ~Departed(x)', ~Departed(y)', Sees(y, x)
        PROVE  Sees(x, y)' \/ Sees(y, x)'
    <3>1. CASE Register(c) /\ you(c) = y /\ ~Online(x)
      BY <1>1, <1>4, <2>2, <2>3, <3>1, SeesBegins
    <3>2. CASE ~(Register(c) /\ you(c) = y /\ ~Online(x))
      BY <1>1, <1>2, <1>4, <2>3, <3>2, SeesStays
    <3> QED
      BY <3>1, <3>2
  <2>4. ASSUME NEW x \in User, NEW y \in User, x # y, ~Departed(x)', ~Departed(y)'
        PROVE  Sees(x, y)' \/ Sees(y, x)'
    <3>1. ~Departed(x) /\ ~Departed(y)
      BY <1>1, <1>4, <2>4, DepartedStays
    <3>2. Sees(x, y) \/ Sees(y, x)
      BY <1>2, <2>4, <3>1
    <3> QED
      BY <2>3, <2>4, <3>2
  <2> QED
    BY <2>1, <2>2, <2>4
<1> QED
  BY <1>1, <1>3, <1>4

\* Of two friends who are both online and at rest, neither gone and no acceptance
\* between them on its way, one at least has been told of the other, in each of
\* her sessions: as long as nobody creates an account or logs in twice over one
\* connection, and nothing disturbs the server, for any number of sessions.
THEOREM FriendsSeeEachOther ==
  ASSUME ~Relogin, "create" \notin Workload
  PROVE  Spec => []OneSideSees
<1>1. Init => SightInv
  <2> SUFFICES ASSUME Init
               PROVE  /\ NobodyCreates
                      /\ \A c \in Conn : Warned(c) /\ Accepting(c)
                      /\ \A x, y \in User : Sees(x, y)
    BY DEF SightInv
  <2>1. \A c \in Conn : /\ thread[c].pc = "none" /\ thread[c].out = <<>>
                        /\ thread[c].req.type = "none"
    BY DEF Init, AllFresh, Fresh, NoRequest
  <2>2. \A u \in User : ~Online(u)
    <3>1. \A u \in User, c \in Conn : clientIDs[u][c] = 0
      BY DEF Init, NoIDs, NoTargets
    <3>2. SUFFICES ASSUME NEW u \in User, NEW c \in Conn, clientIDs[u][c] > 0 PROVE FALSE
      BY DEF Online
    <3> QED
      BY <3>1, <3>2
  <2>3. \A c \in Conn : Warned(c) /\ Accepting(c)
    BY <2>1 DEF Warned, Accepting, AcceptLabels
  <2> QED
    BY <2>1, <2>2, <2>3 DEF NobodyCreates, Sees, NoWarning, Running
<1>2. AimInv /\ AimInv' /\ SightInv /\ [Next]_vars => SightInv'
  BY NextSight
<1>3. AimInv /\ SightInv => OneSideSees
  <2> SUFFICES ASSUME AimInv, SightInv, Undisturbed, NEW a \in Conn, NEW b \in Conn,
                      Idle(a), Idle(b), me(a) # me(b), me(a) # NoUser, me(b) # NoUser,
                      friends[me(a)][me(b)] > 0, friends[me(b)][me(a)] > 0,
                      \A c \in Conn : /\ me(c) \in {me(a), me(b)} => ~Leaving(c)
                                      /\ ~Befriending(c, me(a), me(b))
               PROVE  status[a][me(b)] = "ONLINE" \/ status[b][me(a)] = "ONLINE"
    BY DEF OneSideSees
  <2>1. IInv /\ Settled
    BY DEF AimInv, Undisturbed
  <2>2. me(a) \in User /\ me(b) \in User
    BY <2>1, ThreadFields
  <2>3. ~Departed(me(a)) /\ ~Departed(me(b))
    BY DEF Departed
  <2>4. Sees(me(a), me(b)) \/ Sees(me(b), me(a))
    BY <2>2, <2>3 DEF SightInv
  <2>5. Running(a) /\ Running(b)
    BY DEF Idle, Running
  <2>6. Seen(a, me(b)) \/ Seen(b, me(a))
    BY <2>4, <2>5 DEF Sees, BothRows
  <2>7. thread[a].out = <<>> /\ thread[b].out = <<>>
    BY <2>1 DEF Settled, Idle
  <2>8. \A c \in Conn : ~Befriending(c, me(b), me(a))
    BY DEF Befriending
  <2>9. ~Owes(a, me(b)) /\ ~Owes(b, me(a))
    BY <2>7, <2>8 DEF Owes, Idle, Unserved
  <2> QED
    BY <2>6, <2>9 DEF Seen
<1> QED
  BY <1>1, <1>2, <1>3, AimInvariant, PTL DEF Spec

=============================================================================
