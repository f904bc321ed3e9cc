----------------------------- MODULE Millennium -----------------------------
(***************************************************************************)
(* The GUI clients of Serpent together with the server.  Falcon has the    *)
(* server's threads step by step; here a case of handleClient's switch is  *)
(* one step and the answer at its end another, between which other         *)
(* connections are served.  CREATE_ACCOUNT, whose session is told nothing  *)
(* of what came before it, is three steps and the answer.  What a step     *)
(* sends to a connection comes in the order it was sent.  Passwords are    *)
(* the right ones, and no statement fails.  The client ignores a           *)
(* MESSAGE_RESPONSE: there is none here.                                   *)
(* Of rows that are alike one is kept: a client ignores what it is told    *)
(* twice.                                                                  *)
(***************************************************************************)
EXTENDS Serpent

CONSTANTS
  Registered,   \* the users with an account at the start
  Befriended,   \* symmetric pairs of friends at the start
  Archive,      \* Archive[c]: the tables of PIT.db on c at the start
  Habits,       \* what the users of a run do, beside coming and going
  MaxActs,      \* bound: requests, answers, messages, codebooks and edits
  MaxComings    \* bound: starts of a client, and connections that break

ASSUME RegisteredAssumption == Registered \subseteq User
ASSUME BefriendedAssumption ==
  /\ Befriended \subseteq Registered \X Registered
  /\ \A p \in Befriended : <<p[2], p[1]>> \in Befriended
ASSUME ArchiveAssumption ==
  \A c \in Client :
    /\ Archive[c] \in Tables
    /\ \A i \in DOMAIN Archive[c].messages :
         Archive[c].messages[i].friend_id \in DOMAIN Archive[c].friends
ASSUME HabitsAssumption == Habits \subseteq {"register", "edit", "befriend", "write", "encrypt"}
ASSUME BoundAssumption == MaxActs \in Nat /\ MaxComings \in Nat

VARIABLES
  accounts,       \* the tables of SCRAPE.db: users
  friends,        \* pairs, both ways
  requests,       \* requests[<<s, u>>]: no row of s to u, one to be shown, or all hidden
  connectedUser,  \* connectedUser[c]: who is logged in on the connection of c
  answer,         \* answer[c]: what its thread has yet to do or send, or NoAnswer
  missed,         \* <<f, u>> when f has asked or befriended u while a thread was
                  \* creating the account of u
  posted,         \* the messages sent, with the codebook used
  asked,          \* <<s, u>> when s has sent a request to u
  spent           \* how much of the bounds is spent

serverVars == <<accounts, friends, requests, connectedUser, answer, missed>>
history == <<posted, asked, spent>>
vars == <<clientVars, serverVars, history>>

NoAnswer == Packet("none", NoName)

\* What a thread that creates an account has yet to do.
ToDo == {"INSERT", "REGISTER"}

Init ==
  /\ serpent = [c \in Client |-> Off(Archive[c])]
  /\ link = [c \in Client |-> "closed"]
  /\ up = [c \in Client |-> <<>>] /\ down = [c \in Client |-> <<>>]
  /\ accounts = Registered
  /\ friends = Befriended
  /\ requests = [p \in User \X User |-> "none"]
  /\ connectedUser = [c \in Client |-> NoName]
  /\ answer = [c \in Client |-> NoAnswer]
  /\ missed = {}
  /\ posted = <<>>
  /\ asked = {}
  /\ spent = [acts |-> 0, edits |-> 0, launches |-> 0, breaks |-> 0]

-----------------------------------------------------------------------------
(* The server *)

\* Who is logged in where is connectedUser, or what a step makes of it.
Online(who, u) == \E c \in Client : who[c] = u

\* What the sessions of a user are told, and those of the user's friends.
To(who, u, packets) == [c \in Client |-> IF who[c] = u THEN packets ELSE <<>>]
ToFriends(who, u, packets) ==
  [c \in Client |-> IF <<u, who[c]>> \in friends THEN packets ELSE <<>>]
Nobody == [c \in Client |-> <<>>]
Then(told, more) == [c \in Client |-> told[c] \o more[c]]

\* sendOutPacket: each connection that is there is sent what it is told.
Delivered(told) ==
  down' = [c \in Client |-> IF link[c] = "open" THEN down[c] \o told[c] ELSE down[c]]

\* The thread of c is at recv, and a packet of this type comes.
Receives(c, type) == answer[c] = NoAnswer /\ up[c] # <<>> /\ Head(up[c]).type = type

Creating(u) == \E c \in Client : answer[c].type \in ToDo /\ answer[c].name = u

\* What comes to u by a step passes by the thread that is creating the account.
Misses ==
  missed' = missed \cup
    {p \in User \X User : /\ Creating(p[2])
                          /\ \/ p \in friends' \ friends
                             \/ requests[p] # "shown" /\ requests'[p] = "shown"}

\* What it does with it: it will owe the answer a, and tells others.
Handles(c, a, told) ==
  /\ up' = [up EXCEPT ![c] = Tail(@)]
  /\ answer' = [answer EXCEPT ![c] = a]
  /\ Delivered(told)
  /\ Misses
  /\ UNCHANGED <<serpent, link, history>>

Result(yes) == Packet(IF yes THEN "RESULT_YES" ELSE "RESULT_NO", NoName)
Status(who, n) == Packet(IF Online(who, n) THEN "ONLINE" ELSE "OFFLINE", n)

CreateAccount(c) ==
  LET n == Head(up[c]).name IN
  /\ Receives(c, "CREATE_ACCOUNT")
  /\ UNCHANGED <<accounts, friends, requests, connectedUser>>
  /\ Handles(c, IF n \in accounts THEN Result(FALSE) ELSE Packet("INSERT", n), Nobody)

\* Whether the name was free was asked before; two threads may insert it.
InsertUser(c) ==
  /\ answer[c].type = "INSERT"
  /\ accounts' = accounts \cup {answer[c].name}
  /\ answer' = [answer EXCEPT ![c] = Packet("REGISTER", @.name)]
  /\ UNCHANGED <<clientVars, friends, requests, connectedUser, missed, history>>

\* Nothing is looked up for the new user.
Register(c) ==
  /\ answer[c].type = "REGISTER"
  /\ connectedUser' = [connectedUser EXCEPT ![c] = answer[c].name]
  /\ answer' = [answer EXCEPT ![c] = Result(TRUE)]
  /\ UNCHANGED <<clientVars, accounts, friends, requests, missed, history>>

\* What a login is told, before its result: the requests that wait, the user's
\* own, and the friends, who are told too if they are online.  The three
\* queries return their names in any order.  A user who is his own friend is
\* told of himself twice, the second time at the end.
LoginTold(who, u, incoming, outgoing, fs) ==
  Then(To(who, u, [i \in DOMAIN incoming |-> Packet("FORWARD", incoming[i])]
                  \o [i \in DOMAIN outgoing |-> Packet("PENDING", outgoing[i])]
                  \o [i \in DOMAIN fs |-> Status(who, fs[i])]),
       ToFriends(who, u, <<Packet("ONLINE", u)>>))

LoginRequest(c) ==
  LET u == Head(up[c]).name
      who == [connectedUser EXCEPT ![c] = u] IN
  /\ Receives(c, "LOGIN_REQUEST")
  /\ UNCHANGED <<accounts, friends, requests>>
  /\ \/ /\ u \in accounts
        /\ connectedUser' = who
        /\ \E incoming \in SetToSeqs({s \in User : requests[<<s, u>>] = "shown"}) :
           \E outgoing \in SetToSeqs({t \in User : requests[<<u, t>>] # "none"}) :
           \E fs \in SetToSeqs({f \in User : <<u, f>> \in friends}) :
             Handles(c, Result(TRUE), LoginTold(who, u, incoming, outgoing, fs))
     \/ /\ u \notin accounts
        /\ Handles(c, Result(FALSE), Nobody)
        /\ UNCHANGED connectedUser

FriendRequestSend(c) ==
  LET p == Head(up[c])
      u == connectedUser[c] IN
  /\ Receives(c, "ASK")
  /\ UNCHANGED <<accounts, friends, connectedUser>>
  /\ IF p.name \in accounts
       THEN /\ requests' = [requests EXCEPT ![<<u, p.name>>] = "shown"]
            /\ Handles(c, Packet("PENDING", p.name),
                       To(connectedUser, p.name, <<Packet("FORWARD", u)>>))
       ELSE UNCHANGED requests /\ Handles(c, Packet("DOES_NOT_EXIST", p.name), Nobody)

Accept(c) ==
  LET p == Head(up[c])
      u == connectedUser[c]
      s == p.name IN
  /\ Receives(c, "ACCEPT")
  /\ requests' = [requests EXCEPT ![<<s, u>>] = "none"]
  /\ friends' = friends \cup {<<s, u>>, <<u, s>>}
  /\ UNCHANGED <<accounts, connectedUser>>
  /\ Handles(c, NoAnswer,
       Then(To(connectedUser, u, <<Status(connectedUser, s)>>),
            To(connectedUser, s, <<Packet("ACCEPT", u), Packet("ONLINE", u)>>)))

Reject(c) ==
  LET p == Head(up[c])
      u == connectedUser[c] IN
  /\ Receives(c, "REJECT")
  /\ requests' = [requests EXCEPT ![<<p.name, u>>] = "none"]
  /\ UNCHANGED <<accounts, friends, connectedUser>>
  /\ Handles(c, NoAnswer, To(connectedUser, p.name, <<Packet("REJECT", u)>>))

Hide(c) ==
  LET p == Head(up[c])
      u == connectedUser[c] IN
  /\ Receives(c, "HIDE")
  /\ requests' = [requests EXCEPT ![<<p.name, u>>] = IF @ = "none" THEN @ ELSE "hidden"]
  /\ UNCHANGED <<accounts, friends, connectedUser>>
  /\ Handles(c, NoAnswer, Nobody)

ForwardMessage(c) ==
  LET p == Head(up[c]) IN
  /\ Receives(c, "MESSAGE")
  /\ UNCHANGED <<accounts, friends, requests, connectedUser>>
  /\ Handles(c, NoAnswer,
       To(connectedUser, p.name, <<MessagePacket(connectedUser[c], p.body)>>))

Respond(c) ==
  /\ answer[c].type \in FromServer
  /\ down' = IF link[c] = "open" THEN [down EXCEPT ![c] = Append(@, answer[c])] ELSE down
  /\ answer' = [answer EXCEPT ![c] = NoAnswer]
  /\ UNCHANGED <<serpent, link, up, accounts, friends, requests, connectedUser, missed, history>>

\* recv finds the end of the connection, once all before it is served.
Disconnected(c) ==
  LET u == connectedUser[c] IN
  /\ link[c] = "ended"
  /\ up[c] = <<>>
  /\ answer[c] = NoAnswer
  /\ link' = [link EXCEPT ![c] = "closed"]
  /\ connectedUser' = [connectedUser EXCEPT ![c] = NoName]
  /\ Delivered(ToFriends(connectedUser, u, <<Packet("OFFLINE", u)>>))
  /\ UNCHANGED <<serpent, up, accounts, friends, requests, answer, missed, history>>

-----------------------------------------------------------------------------
(* The clients *)

Quietly(step) == step /\ UNCHANGED <<serverVars, history>>

Spends(what) == spent' = [spent EXCEPT ![what] = @ + 1]

Acts(step) ==
  step /\ spent.acts + spent.edits < MaxActs /\ Spends("acts") /\ UNCHANGED serverVars

Comes(step, what) ==
  /\ step
  /\ spent.launches + spent.breaks < MaxComings
  /\ Spends(what)
  /\ UNCHANGED <<serverVars, posted, asked>>

Start(c) == Comes(Launch(c), "launches")
Break(c) == Comes(ErrorOccurred(c), "breaks")
Refuse(c) == Comes(ConnectionRefused(c), "breaks")

Ask(c, n) ==
  /\ Acts(createFriendRequest(c, n))
  /\ asked' = asked \cup {<<connectedUser[c], n>>}
  /\ UNCHANGED posted

Decide(c, n) ==
  /\ \E r \in {"ACCEPT", "REJECT", "HIDE"} : Acts(Answer(c, n, r))
  /\ UNCHANGED <<posted, asked>>

\* The text of each message is another.
Write(c) ==
  /\ Acts(SendButton(c, Len(posted) + 1))
  /\ posted' = Append(posted, [from |-> connectedUser[c], to |-> serpent[c].queried_friend,
                               book |-> current_codebook(serpent[c])])
  /\ UNCHANGED asked

Edit(c, u) ==
  /\ "edit" \in Habits
  /\ EditUsername(c, u)
  /\ spent.acts + spent.edits < MaxActs
  /\ Spends("edits")
  /\ UNCHANGED <<serverVars, posted, asked>>

Enter(c) ==
  \/ Start(c)
  \/ Quietly(Connected(c) \/ CloseWindow(c))
  \/ "register" \in Habits /\ Quietly(swapLoginPurpose(c))
  \/ \E u \in User : Quietly(login(c, u)) \/ Edit(c, u)

Befriend(c) == "befriend" \in Habits /\ \E u \in User : Ask(c, u) \/ Decide(c, u)

Correspond(c) ==
  "write" \in Habits /\ (Write(c) \/ \E u \in User : Quietly(SelectFriend(c, u)))

MakeCodebook(c, b, k) == Acts(CreateCodebook(c, b, k)) /\ UNCHANGED <<posted, asked>>

Encrypt(c) ==
  /\ "encrypt" \in Habits
  /\ \E b \in BookName : \/ Quietly(SelectCodebook(c, b))
                          \/ \E k \in Keyword : MakeCodebook(c, b, k)

Use(c) == Enter(c) \/ Befriend(c) \/ Correspond(c) \/ Encrypt(c)

Serve(c) ==
  \/ CreateAccount(c) \/ InsertUser(c) \/ Register(c)
  \/ LoginRequest(c) \/ FriendRequestSend(c)
  \/ Accept(c) \/ Reject(c) \/ Hide(c) \/ ForwardMessage(c)
  \/ Respond(c) \/ Disconnected(c)

Notice(c) == Quietly(ReadyRead(c) \/ DismissMessageBox(c))

\* Nothing is under way; what comes next is for a user to do, or never done.
Rest ==
  /\ \A c \in Client : /\ up[c] = <<>> /\ down[c] = <<>> /\ answer[c] = NoAnswer
                       /\ link[c] # "ended" /\ ~serpent[c].modal
  /\ UNCHANGED vars

Next == (\E c \in Client : Use(c) \/ Serve(c) \/ Notice(c) \/ Break(c) \/ Refuse(c)) \/ Rest

Spec == Init /\ [][Next]_vars
=============================================================================
