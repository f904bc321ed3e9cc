------------------------------- MODULE Falcon -------------------------------
(***************************************************************************)
(* millennium_falcon, the chat server: the accept loop, one handleClient   *)
(* thread per connection and sendOutPacket (src/server/server.cpp), over   *)
(* the database of FalconDatabase.                                         *)
(*                                                                         *)
(* Threads interleave between steps.  A step is one SQL statement, one     *)
(* critical section of clientMutex, or the delivery of one packet to one   *)
(* connection; what a thread does with its own locals in between belongs   *)
(* to the step.  Calls of sendOutPacket wait in out until each is made.    *)
(*                                                                         *)
(* The clients send whatever the GUI can: credentials until a result comes *)
(* (with Relogin, a second time before the first result), then requests    *)
(* about names, and answers to friend requests.  Each answer takes a       *)
(* FORWARD packet that came before it; the requests box of the GUI, which  *)
(* shows one entry for a name, may let the user answer less often.         *)
(***************************************************************************)
EXTENDS FalconDatabase

CONSTANTS
  Conn,         \* connection ids; spin never uses one twice
  NoUser,       \* connectedUser of a session that is not logged in
  NoPassword,   \* the password field of a request that has none
  Registered,   \* the users with an account at the start
  Befriended,   \* symmetric pairs of users with rows in friends at the start
  Workload,     \* the kinds of request the clients of a run send
  Relogin,      \* may a client send credentials again before the result?
  SigPipe,      \* does a send to a reset connection raise SIGPIPE (POSIX)?
  MaxRequests,  \* bound: requests per connection id
  MaxFaults,    \* bound: failing statements, failing sends, broken frames
  MaxRestarts   \* bound: kills of the server process followed by a restart

Kinds == {"create", "login", "ask", "accept", "reject", "hide", "message"}

ASSUME NoUserAssumption == NoUser \notin User
ASSUME NoPasswordAssumption == NoPassword \notin Password
ASSUME RegisteredAssumption == Registered \in [User -> Seq(Password)]
ASSUME BefriendedAssumption ==
  /\ Befriended \subseteq User \X User
  /\ \A p \in Befriended : <<p[2], p[1]>> \in Befriended
ASSUME WorkloadAssumption == Workload \subseteq Kinds
ASSUME SwitchAssumption == Relogin \in BOOLEAN /\ SigPipe \in BOOLEAN
ASSUME BoundAssumption ==
  MaxRequests \in Nat /\ MaxFaults \in Nat /\ MaxRestarts \in Nat

VARIABLES
  clientIDs,   \* the multimap: how often a user name leads to a connection
  live,        \* the keys of clientSockets, which are those of socketMutexes
  thread,      \* the handleClient thread of each connection and its locals
  status,      \* status[c][u]: what the client of c was last told of u
  offers,      \* offers[c][s]: requests of s forwarded to c and not answered
  received,    \* how many requests were made over a connection id
  server,      \* the process: "up", "crashed" or "killed"
  faults, restarts

registry == <<clientIDs, live>>
clients == <<status, offers, received>>
world == <<server, faults, restarts>>
vars == <<users, friends, requests, clientIDs, live, thread,
          status, offers, received, server, faults, restarts>>

-----------------------------------------------------------------------------
(* Data *)

Requests == [type : Kinds \cup {"none"}, name : User \cup {NoUser},
             pass : Password \cup {NoPassword}]
NoRequest == [type |-> "none", name |-> NoUser, pass |-> NoPassword]

PacketTypes == {"ONLINE", "OFFLINE", "FORWARD", "PENDING", "ACCEPT", "REJECT",
                "MESSAGE"}

\* A pending call sendOutPacket(to, packet), the packet being about name.
Calls == [to : User, type : PacketTypes, name : User]
Call(u, t, n) == [to |-> u, type |-> t, name |-> n]

NoTargets == [c \in Conn |-> 0]

Labels == {"none", "recv", "create_check", "create_insert", "login_check",
           "login_password", "register", "login_incoming", "each_incoming",
           "each_outgoing", "each_friend", "ask_check", "ask_insert",
           "accept_remove", "accept_first", "accept_second",
           "accept_announce", "reject_tell", "reject_remove", "hide",
           "message_check", "respond", "bye_friends", "each_bye", "close",
           "closed"}

\* names: what is left of the query result a loop walks;
\* targetIDs: what sendOutPacket collected and has not served yet;
\* reached: whether a forwarded message got to some connection.
Threads == [pc : Labels, connectedUser : User \cup {NoUser}, req : Requests,
            resp : {"none", "yes", "no"}, names : Names, out : Seq(Calls),
            targetIDs : [Conn -> Nat], reached : BOOLEAN]

Fresh(l) == [pc |-> l, connectedUser |-> NoUser, req |-> NoRequest,
             resp |-> "none", names |-> Nobody, out |-> <<>>,
             targetIDs |-> NoTargets, reached |-> FALSE]

ClientsTypeOK ==
  /\ status \in [Conn -> [User -> {"unknown", "ONLINE", "OFFLINE"}]]
  /\ offers \in [Conn -> Names]
  /\ received \in [Conn -> 0..MaxRequests]

WorldTypeOK ==
  /\ server \in {"up", "crashed", "killed"}
  /\ faults \in 0..MaxFaults
  /\ restarts \in 0..MaxRestarts

\* Every variable has its type; that no count in it falls below zero rests on
\* the guards of the loops, of the answers and of "if (loggedIn)" in the code.
TypeOK ==
  /\ DbTypeOK
  /\ clientIDs \in [User -> [Conn -> Nat]]
  /\ live \subseteq Conn
  /\ thread \in [Conn -> Threads]
  /\ ClientsTypeOK
  /\ WorldTypeOK

NoIDs == [u \in User |-> NoTargets]
AllFresh == [c \in Conn |-> Fresh("none")]
AllUnknown == [c \in Conn |-> [u \in User |-> "unknown"]]
NoOffers == [c \in Conn |-> Nobody]

Init ==
  /\ users = Registered
  /\ friends = [u \in User |-> [v \in User |->
                  IF <<u, v>> \in Befriended THEN 1 ELSE 0]]
  /\ requests = [u \in User |-> [v \in User |-> [shown |-> 0, hidden |-> 0]]]
  /\ clientIDs = NoIDs /\ live = {} /\ thread = AllFresh
  /\ status = AllUnknown /\ offers = NoOffers /\ received = [c \in Conn |-> 0]
  /\ server = "up"
  /\ faults = 0
  /\ restarts = 0

-----------------------------------------------------------------------------
(* Parts of steps *)

me(c) == thread[c].connectedUser
you(c) == thread[c].req.name

\* The thread of c is at l, having made the calls of sendOutPacket before l.
At(c, l) == server = "up" /\ thread[c].pc = l /\ thread[c].out = <<>>

Becomes(c, t) == thread' = [thread EXCEPT ![c] = t]
Goto(c, l) == Becomes(c, [thread[c] EXCEPT !.pc = l])
Answer(c, r) == Becomes(c, [thread[c] EXCEPT !.pc = "respond", !.resp = r])

\* The top of the loop clears the packets of the last request.
BackToRecv(c) ==
  Becomes(c, [Fresh("recv") EXCEPT !.connectedUser = me(c)])

\* The process ends, and every connection and all of its memory with it; what
\* is spent of a bound stays spent.
Down(why) ==
  /\ clientIDs' = NoIDs /\ live' = {} /\ thread' = AllFresh
  /\ status' = AllUnknown /\ offers' = NoOffers /\ UNCHANGED received
  /\ server' = why

Online(u) == \E c \in Conn : clientIDs[u][c] > 0

Fault == faults < MaxFaults /\ faults' = faults + 1 /\ UNCHANGED <<server, restarts>>
NoFault == UNCHANGED world

\* A SELECT that fails to prepare, or stops half way, returns a part.
Parts(b) == {p \in [User -> UNION {0..b[u] : u \in User}] :
               \A u \in User : p[u] <= b[u]}

\* Loop l starts on the result b of a query.
Walk(c, l, b) ==
  \E p \in Parts(b) :
    /\ Becomes(c, [thread[c] EXCEPT !.pc = l, !.names = p])
    /\ IF p = b THEN NoFault ELSE Fault
    /\ UNCHANGED <<dbVars, registry, clients>>

\* Mutated: the walk does not stop at the end of the list.
Visit_PastEnd(c, n, calls) ==
  /\ Becomes(c, [thread[c] EXCEPT !.names[n] = @ - 1, !.out = calls])
  /\ UNCHANGED <<dbVars, registry, clients, world>>

\* The body of a loop for name n, which calls sendOutPacket as in calls.
Visit(c, n, calls) ==
  /\ thread[c].names[n] > 0
  /\ Becomes(c, [thread[c] EXCEPT !.names[n] = @ - 1, !.out = calls])
  /\ UNCHANGED <<dbVars, registry, clients, world>>

\* A statement that changes the database (stmt) with what follows it, or that
\* fails with what follows its failure.
Run(c, stmt, done, failed) ==
  /\ \/ stmt /\ Becomes(c, done) /\ NoFault
     \/ UNCHANGED dbVars /\ Becomes(c, failed) /\ Fault
  /\ UNCHANGED <<registry, clients>>

To(c, l) == [thread[c] EXCEPT !.pc = l]
Replying(c, r) == [thread[c] EXCEPT !.pc = "respond", !.resp = r]

-----------------------------------------------------------------------------
(* Connections and requests *)

Spawn(c) ==
  /\ server = "up"
  /\ thread[c].pc = "none"
  /\ live' = live \cup {c}
  /\ Becomes(c, Fresh("recv"))
  /\ UNCHANGED <<dbVars, clientIDs, clients, world>>

\* The first step of the case of handleClient's switch.
Case(type) == [create  |-> "create_check",  login  |-> "login_check",
               ask     |-> "ask_check",     accept |-> "accept_remove",
               reject  |-> "reject_tell",   hide   |-> "hide",
               message |-> "message_check"][type]

Receive(c, r) ==
  /\ At(c, "recv")
  /\ received[c] < MaxRequests
  /\ received' = [received EXCEPT ![c] = @ + 1]
  /\ Becomes(c, [thread[c] EXCEPT !.pc = Case(r.type), !.req = r])
  /\ UNCHANGED <<dbVars, registry, status, world>>

ReceiveCredentials(c, type, u, p) ==
  /\ type \in Workload \cap {"create", "login"}
  /\ me(c) = NoUser \/ (Relogin /\ received[c] = 1)
  /\ Receive(c, [type |-> type, name |-> u, pass |-> p])
  /\ UNCHANGED offers

ReceiveAsk(c, u) ==
  /\ "ask" \in Workload
  /\ me(c) # NoUser
  /\ Receive(c, [type |-> "ask", name |-> u, pass |-> NoPassword])
  /\ UNCHANGED offers

ReceiveMessage(c, u) ==
  /\ "message" \in Workload
  /\ me(c) # NoUser
  /\ status[c][u] # "unknown"       \* the friends box lists who it was told of
  /\ Receive(c, [type |-> "message", name |-> u, pass |-> NoPassword])
  /\ UNCHANGED offers

ReceiveAcknowledge(c, type, s) ==
  /\ type \in Workload \cap {"accept", "reject", "hide"}
  /\ me(c) # NoUser
  /\ offers[c][s] > 0
  /\ offers' = [offers EXCEPT ![c][s] = @ - 1]
  /\ Receive(c, [type |-> type, name |-> s, pass |-> NoPassword])

\* A packet whose first byte is no known type: goto close, telling nobody.
ReceiveInvalid(c) ==
  /\ At(c, "recv")
  /\ Goto(c, "close")
  /\ Fault
  /\ UNCHANGED <<dbVars, registry, clients>>

-----------------------------------------------------------------------------
(* CREATE_ACCOUNT and LOGIN_REQUEST *)

CreateCheck(c) ==
  /\ At(c, "create_check")
  /\ \/ /\ IF checkIfUsernameExists(you(c)) = 0
             THEN Goto(c, "create_insert") ELSE Answer(c, "no")
        /\ NoFault
     \/ Answer(c, "no") /\ Fault
  /\ UNCHANGED <<dbVars, registry, clients>>

\* Mutated: the result of insertNewUser is not looked at.
CreateInsert_Anyway(c) ==
  /\ At(c, "create_insert")
  /\ Run(c, insertNewUser(you(c), thread[c].req.pass),
         [To(c, "register") EXCEPT !.resp = "yes"], [To(c, "register") EXCEPT !.resp = "yes"])

CreateInsert(c) ==
  /\ At(c, "create_insert")
  /\ Run(c, insertNewUser(you(c), thread[c].req.pass),
         [To(c, "register") EXCEPT !.resp = "yes"], Replying(c, "no"))

LoginCheck(c) ==
  /\ At(c, "login_check")
  /\ \/ /\ IF checkIfUsernameExists(you(c)) = 0
             THEN Answer(c, "no") ELSE Goto(c, "login_password")
        /\ NoFault
     \/ Answer(c, "no") /\ Fault
  /\ UNCHANGED <<dbVars, registry, clients>>

\* Mutated: that the name exists is enough.
LoginPassword_Trusting(c) ==
  /\ At(c, "login_password")
  /\ Becomes(c, [To(c, "register") EXCEPT !.resp = "yes"])
  /\ UNCHANGED <<dbVars, registry, clients, world>>

\* A statement that fails yields the empty password, as if it were stored.
LoginPassword(c) ==
  /\ At(c, "login_password")
  /\ \E stored \in {getPassHashFromUsername(you(c)), EmptyPassword} :
       /\ IF thread[c].req.pass = stored
            THEN Becomes(c, [To(c, "register") EXCEPT !.resp = "yes"])
            ELSE Answer(c, "no")
       /\ \/ stored = getPassHashFromUsername(you(c)) /\ NoFault
          \/ stored = EmptyPassword /\ Fault
  /\ UNCHANGED <<dbVars, registry, clients>>

\* connectedUser is assigned and the pair inserted under clientMutex.
Register(c) ==
  /\ At(c, "register")
  /\ clientIDs' = [clientIDs EXCEPT ![you(c)][c] = @ + 1]
  /\ Becomes(c, [thread[c] EXCEPT !.connectedUser = you(c),
                   !.pc = IF thread[c].req.type = "create"
                            THEN "respond" ELSE "login_incoming"])
  /\ UNCHANGED <<dbVars, live, clients, world>>

\* Mutated: waiting requests are not looked up.
LoginIncoming_None(c) ==
  /\ At(c, "login_incoming")
  /\ Walk(c, "each_incoming", Nobody)

\* Mutated: the requests the user sent are forwarded to the user.
LoginIncoming_Own(c) ==
  /\ At(c, "login_incoming")
  /\ Walk(c, "each_incoming", getOutgoingFriendRequests(me(c)))

LoginIncoming(c) ==
  /\ At(c, "login_incoming")
  /\ Walk(c, "each_incoming", getIncomingFriendRequests(me(c)))

EachIncoming(c, n) ==
  /\ At(c, "each_incoming")
  /\ Visit(c, n, <<Call(me(c), "FORWARD", n)>>)

LoginOutgoing(c) ==
  /\ At(c, "each_incoming")
  /\ thread[c].names = Nobody
  /\ Walk(c, "each_outgoing", getOutgoingFriendRequests(me(c)))

EachOutgoing(c, n) ==
  /\ At(c, "each_outgoing")
  /\ Visit(c, n, <<Call(me(c), "PENDING", n)>>)

LoginFriends(c) ==
  /\ At(c, "each_outgoing")
  /\ thread[c].names = Nobody
  /\ Walk(c, "each_friend", getFriendList(me(c)))

\* Mutated: of two friends online only the earlier is informed.
EachFriend_OneParty(c, n) ==
  /\ At(c, "each_friend")
  /\ Visit(c, n, IF Online(n) THEN <<Call(n, "ONLINE", me(c))>>
                             ELSE <<Call(me(c), "OFFLINE", n)>>)

EachFriend(c, n) ==
  /\ At(c, "each_friend")
  /\ Visit(c, n, IF Online(n)
                   THEN <<Call(me(c), "ONLINE", n), Call(n, "ONLINE", me(c))>>
                   ELSE <<Call(me(c), "OFFLINE", n)>>)

LoginDone(c) ==
  /\ At(c, "each_friend")
  /\ thread[c].names = Nobody
  /\ Goto(c, "respond")
  /\ UNCHANGED <<dbVars, registry, clients, world>>

-----------------------------------------------------------------------------
(* FRIEND_REQUEST_SEND *)

AskCheck(c) ==
  /\ At(c, "ask_check")
  /\ \/ /\ IF checkIfUsernameExists(you(c)) = 0
             THEN Answer(c, "no") ELSE Goto(c, "ask_insert")
        /\ NoFault
     \/ Answer(c, "no") /\ Fault
  /\ UNCHANGED <<dbVars, registry, clients>>

AskInsert(c) ==
  /\ At(c, "ask_insert")
  /\ Run(c, insertFriendRequest(me(c), you(c)),
         [Replying(c, "yes") EXCEPT !.out = <<Call(you(c), "FORWARD", me(c))>>],
         Replying(c, "no"))

-----------------------------------------------------------------------------
(* FRIEND_REQUEST_ACKNOWLEDGE: no answer is due, and results of the          *)
(* database's functions are ignored.                                         *)

\* Mutated: insertFriend is not called.
AcceptRemove_NoFriend(c) ==
  /\ At(c, "accept_remove")
  /\ Run(c, removeFriendRequest(you(c), me(c)),
         To(c, "accept_announce"), To(c, "accept_announce"))

AcceptRemove(c) ==
  /\ At(c, "accept_remove")
  /\ Run(c, removeFriendRequest(you(c), me(c)),
         To(c, "accept_first"), To(c, "accept_first"))

\* Mutated: one direction only is inserted.
AcceptFirst_OneWay(c) ==
  /\ At(c, "accept_first")
  /\ Run(c, insertFriendRow(you(c), me(c)),
         To(c, "accept_announce"), To(c, "accept_announce"))

\* Mutated: insertFriend goes on when its first INSERT fails.
AcceptFirst_Regardless(c) ==
  /\ At(c, "accept_first")
  /\ Run(c, insertFriendRow(you(c), me(c)),
         To(c, "accept_second"), To(c, "accept_second"))

\* insertFriend returns early when its first INSERT fails.
AcceptFirst(c) ==
  /\ At(c, "accept_first")
  /\ Run(c, insertFriendRow(you(c), me(c)),
         To(c, "accept_second"), To(c, "accept_announce"))

AcceptSecond(c) ==
  /\ At(c, "accept_second")
  /\ Run(c, insertFriendRow(me(c), you(c)),
         To(c, "accept_announce"), To(c, "accept_announce"))

\* Mutated: the acceptance is reported, and no status.
AcceptAnnounce_NoStatus(c) ==
  /\ At(c, "accept_announce")
  /\ Becomes(c, [To(c, "respond") EXCEPT !.out =
       IF Online(you(c)) THEN <<Call(you(c), "ACCEPT", me(c))>>
                         ELSE <<Call(me(c), "OFFLINE", you(c))>>])
  /\ UNCHANGED <<dbVars, registry, clients, world>>

AcceptAnnounce(c) ==
  /\ At(c, "accept_announce")
  /\ Becomes(c, [To(c, "respond") EXCEPT !.out =
       IF Online(you(c))
         THEN <<Call(me(c), "ONLINE", you(c)), Call(you(c), "ACCEPT", me(c)),
                Call(you(c), "ONLINE", me(c))>>
         ELSE <<Call(me(c), "OFFLINE", you(c))>>])
  /\ UNCHANGED <<dbVars, registry, clients, world>>

RejectTell(c) ==
  /\ At(c, "reject_tell")
  /\ Becomes(c, [To(c, "reject_remove") EXCEPT
                   !.out = <<Call(you(c), "REJECT", me(c))>>])
  /\ UNCHANGED <<dbVars, registry, clients, world>>

RejectRemove(c) ==
  /\ At(c, "reject_remove")
  /\ Run(c, removeFriendRequest(you(c), me(c)), To(c, "respond"), To(c, "respond"))

Hide(c) ==
  /\ At(c, "hide")
  /\ Run(c, hideFriendRequest(you(c), me(c)), To(c, "respond"), To(c, "respond"))

-----------------------------------------------------------------------------
(* MESSAGE_SEND, and the answer to a request *)

\* Mutated: every message is confirmed.
MessageCheck_Sure(c) ==
  /\ At(c, "message_check")
  /\ Becomes(c, [Replying(c, "yes") EXCEPT
                  !.out = <<Call(you(c), "MESSAGE", me(c))>>])
  /\ UNCHANGED <<dbVars, registry, clients, world>>

MessageCheck(c) ==
  /\ At(c, "message_check")
  /\ IF Online(you(c))
       THEN Becomes(c, [Replying(c, "yes") EXCEPT
                          !.out = <<Call(you(c), "MESSAGE", me(c))>>])
       ELSE Answer(c, "no")
  /\ UNCHANGED <<dbVars, registry, clients, world>>

\* Mutated: a session whose answer fails is treated as not logged in.
Respond_Forgetful(c) ==
  /\ At(c, "respond")
  /\ \/ BackToRecv(c) /\ NoFault
     \/ thread[c].resp # "none" /\ Becomes(c, Fresh("close")) /\ Fault
  /\ UNCHANGED <<dbVars, registry, clients>>

\* An answer that cannot be sent ends the session: goto close, telling nobody.
Respond(c) ==
  /\ At(c, "respond")
  /\ \/ BackToRecv(c) /\ NoFault
     \/ thread[c].resp # "none" /\ Goto(c, "close") /\ Fault
  /\ UNCHANGED <<dbVars, registry, clients>>

-----------------------------------------------------------------------------
(* The end of a session *)

\* recv returns 0 or an error.
Disconnected(c) ==
  /\ At(c, "recv")
  /\ Goto(c, IF me(c) = NoUser THEN "close" ELSE "bye_friends")
  /\ UNCHANGED <<dbVars, registry, clients, world>>

ByeFriends(c) ==
  /\ At(c, "bye_friends")
  /\ Walk(c, "each_bye", getFriendList(me(c)))

\* Mutated: the iterator is not advanced.
EachBye_Stuck(c, n) ==
  /\ At(c, "each_bye")
  /\ thread[c].names[n] > 0
  /\ Becomes(c, [thread[c] EXCEPT !.out = <<Call(n, "OFFLINE", me(c))>>])
  /\ UNCHANGED <<dbVars, registry, clients, world>>

EachBye(c, n) ==
  /\ At(c, "each_bye")
  /\ Visit(c, n, IF Online(n) THEN <<Call(n, "OFFLINE", me(c))>> ELSE <<>>)

ByeDone(c) ==
  /\ At(c, "each_bye")
  /\ thread[c].names = Nobody
  /\ Goto(c, "close")
  /\ UNCHANGED <<dbVars, registry, clients, world>>

\* Mutated: myIDLocator is not erased.
Close_KeepsID(c) ==
  /\ At(c, "close")
  /\ live' = live \ {c}
  /\ Becomes(c, [Fresh("closed") EXCEPT !.connectedUser = me(c)])
  /\ UNCHANGED <<dbVars, clientIDs, clients, world>>

\* myIDLocator is the last pair this thread inserted.
Close(c) ==
  /\ At(c, "close")
  /\ live' = live \ {c}
  /\ clientIDs' = IF me(c) = NoUser THEN clientIDs
                    ELSE [clientIDs EXCEPT ![me(c)][c] = @ - 1]
  /\ Becomes(c, [Fresh("closed") EXCEPT !.connectedUser = me(c)])
  /\ UNCHANGED <<dbVars, clients, world>>

-----------------------------------------------------------------------------
(* sendOutPacket *)

Sending(c) == server = "up" /\ thread[c].out # <<>>

Returned(c) == [thread[c] EXCEPT !.out = Tail(@), !.targetIDs = NoTargets]

\* The connections of the addressee, under clientMutex.
Collect(c) ==
  /\ Sending(c)
  /\ thread[c].targetIDs = NoTargets
  /\ LET ids == clientIDs[Head(thread[c].out).to]
     IN Becomes(c, IF ids = NoTargets THEN Returned(c)
                     ELSE [thread[c] EXCEPT !.targetIDs = ids])
  /\ UNCHANGED <<dbVars, registry, clients, world>>

\* What the client of k learns from packet p.
Learns(k, p) ==
  /\ status' = IF p.type \in {"ONLINE", "OFFLINE"}
                 THEN [status EXCEPT ![k][p.name] = p.type] ELSE status
  /\ offers' = IF p.type = "FORWARD"
                 THEN [offers EXCEPT ![k][p.name] = @ + 1] ELSE offers

\* The thread is done with target k, the last of the call or not.
Served(c, k, p) ==
  LET left == [thread[c].targetIDs EXCEPT ![k] = @ - 1]
      t == [thread[c] EXCEPT !.targetIDs = left,
                             !.reached = @ \/ p.type = "MESSAGE"]
  IN Becomes(c, IF left = NoTargets THEN [t EXCEPT !.out = Tail(@)] ELSE t)

Deliver(c, k) ==
  /\ Sending(c)
  /\ thread[c].targetIDs[k] > 0
  /\ k \in live
  /\ LET p == Head(thread[c].out)
     IN \/ Learns(k, p) /\ Served(c, k, p) /\ NoFault
        \/ UNCHANGED <<status, offers>> /\ Served(c, k, p) /\ Fault
  /\ UNCHANGED <<dbVars, registry, received>>

\* socketMutexes[k] makes an empty shared_ptr, and the lock dereferences it.
DeliverToErased(c, k) ==
  /\ Sending(c)
  /\ thread[c].targetIDs[k] > 0
  /\ k \notin live
  /\ Down("crashed")
  /\ UNCHANGED <<dbVars, faults, restarts>>

\* SIGPIPE, which main.cpp leaves at its default, ends the process.
SendRaisesSignal(c) ==
  /\ SigPipe
  /\ \/ Sending(c) /\ thread[c].targetIDs # NoTargets
     \/ At(c, "respond") /\ thread[c].resp # "none"
  /\ faults < MaxFaults
  /\ faults' = faults + 1
  /\ Down("crashed")
  /\ UNCHANGED <<dbVars, restarts>>

-----------------------------------------------------------------------------
(* The process *)

Kill ==
  /\ server = "up"
  /\ restarts < MaxRestarts
  /\ Down("killed")
  /\ UNCHANGED <<dbVars, faults, restarts>>

\* SCRAPE.db survives; the constructor of MillenniumServer starts over.
Restart ==
  /\ server # "up"
  /\ restarts < MaxRestarts
  /\ restarts' = restarts + 1
  /\ server' = "up"
  /\ UNCHANGED <<dbVars, registry, thread, clients, faults>>

\* Nothing is left to do: every client has come and gone, or the server is down.
Finished ==
  /\ \/ server # "up" /\ restarts = MaxRestarts
     \/ \A c \in Conn : thread[c].pc = "closed"
  /\ UNCHANGED vars

\* What a thread does by itself once it has read a request, or end of file.
Work(c) ==
  \/ CreateCheck(c) \/ CreateInsert(c)
  \/ LoginCheck(c) \/ LoginPassword(c) \/ Register(c)
  \/ LoginIncoming(c) \/ LoginOutgoing(c) \/ LoginFriends(c) \/ LoginDone(c)
  \/ AskCheck(c) \/ AskInsert(c)
  \/ AcceptRemove(c) \/ AcceptFirst(c) \/ AcceptSecond(c) \/ AcceptAnnounce(c)
  \/ RejectTell(c) \/ RejectRemove(c) \/ Hide(c)
  \/ MessageCheck(c) \/ Respond(c)
  \/ ByeFriends(c) \/ ByeDone(c) \/ Close(c)
  \/ Collect(c)
  \/ \E n \in User : \/ EachIncoming(c, n) \/ EachOutgoing(c, n)
                     \/ EachFriend(c, n) \/ EachBye(c, n)
  \/ \E k \in Conn : Deliver(c, k) \/ DeliverToErased(c, k)

\* What comes from outside.
Outside(c) ==
  \/ Spawn(c) \/ Disconnected(c) \/ ReceiveInvalid(c) \/ SendRaisesSignal(c)
  \/ \E u \in User :
       \/ \E p \in Password, type \in {"create", "login"} :
            ReceiveCredentials(c, type, u, p)
       \/ ReceiveAsk(c, u) \/ ReceiveMessage(c, u)
       \/ \E type \in {"accept", "reject", "hide"} :
            ReceiveAcknowledge(c, type, u)

Next ==
  \/ \E c \in Conn : Work(c) \/ Outside(c)
  \/ Kill \/ Restart \/ Finished

Spec == Init /\ [][Next]_vars

\* The operating system runs every thread that is not blocked in recv.
FairSpec == Spec /\ \A c \in Conn : WF_vars(Work(c))
=============================================================================
