------------------------ MODULE MillenniumProperties ------------------------
(***************************************************************************)
(* What the users of the clients should be able to rely on.                *)
(***************************************************************************)
EXTENDS Millennium

Box(c, n) == \E b \in serpent[c].boxes : b.name = n

\* u is logged in on c, and the client and its thread have nothing to do.
AtRest(c, u) ==
  /\ link[c] = "open" /\ serpent[c].screen = "main" /\ ~serpent[c].modal
  /\ connectedUser[c] = u /\ u # NoName
  /\ up[c] = <<>> /\ down[c] = <<>> /\ answer[c] = NoAnswer

\* Every variable has its type: the slots look a friend up before they use
\* what they found, and no machine has a client logged in unconnected.
TypeOK ==
  /\ \A c \in Client :
       /\ serpent[c].friends \in Seq(FriendRows)
       /\ serpent[c].messages \in
            Seq([friend_id : 1..Len(serpent[c].friends), message : Nat, original : BOOLEAN])
       /\ serpent[c].logged_in_user \in User \cup {NoName}
       /\ serpent[c].queried_friend \in User \cup {NoName}
       /\ serpent[c].screen \in {"off", "login", "main", "error"}
       /\ serpent[c].requestWidgets \in [User -> {"none", "pending", "buttons"}]
       /\ \A b, d \in serpent[c].boxes : (b.id = d.id) = (b.name = d.name)
       /\ current_codebook(serpent[c]) \in Keyword
       /\ up[c] \in Seq([type : ToServer, name : User, body : Encrypted])
       /\ down[c] \in Seq([type : FromServer, name : User \cup {NoName}, body : Encrypted])
  /\ link \in [Client -> {"closed", "open", "ended"}]
  /\ connectedUser \in [Client -> User \cup {NoName}]
  /\ requests \in [User \X User -> {"none", "shown", "hidden"}]
  /\ friends \subseteq User \X User

\* The friends box "displays friends and their online status"
\* (app/README.md:5): all the server has for the user, whichever machine they
\* were accepted on and whoever was away meanwhile, but for a friend made on
\* another machine between the insertion of the account and the registration
\* of the session that created it, which is not told (server.cpp:251-262).
\* With few friends it does; with more, ids of entries may coincide and keep
\* one out (README, departures).
FriendsShown ==
  \A c \in Client, u \in User : AtRest(c, u) =>
    \A f \in User : <<u, f>> \in friends /\ <<f, u>> \notin missed => Box(c, f)

\* It shows nobody else, though an entry is made when an answer is given and
\* the server told later; unless an answer was lost with its connection or a
\* user changed the name in the form after sending it (README, departures).
ShownAreFriends ==
  \A c \in Client, u \in User : AtRest(c, u) =>
    \A f \in User :
      Box(c, f) /\ spent.breaks + spent.edits = 0 => <<u, f>> \in friends

\* A request that waits for the user can be answered at each client the user
\* is at, unless the user has asked the same person, or it came while the
\* user's account was being created: CREATE_ACCOUNT looks no request up
\* (server.cpp:251-262; README, departures).
RequestsAnswerable ==
  \A c \in Client, u \in User : AtRest(c, u) =>
    \A s \in User :
      requests[<<s, u>>] = "shown" /\ <<u, s>> \notin asked /\ <<s, u>> \notin missed =>
        serpent[c].requestWidgets[s] = "buttons"

\* The machine of a user has, under the user's name and the friend's, only
\* messages that one of the two sent to the other, with the text that was
\* sent or, received, what another codebook made of it.  What came before the
\* result of a login is under no user's name.
FiledRight ==
  \A c \in Client : \A i \in DOMAIN serpent[c].messages :
    LET r == serpent[c].messages[i]
        f == serpent[c].friends[r.friend_id]
        Sent(m, from, to) == posted[m].from = from /\ posted[m].to = to
    IN IF r.original THEN Sent(r.message, f.user, f.friend_name)
       ELSE \E m \in DOMAIN posted :
              /\ posted[m].from = f.friend_name
              /\ f.user \in {posted[m].to, NoName}
              /\ r.message = m \/ (r.message = Garbled /\ Keyword # {posted[m].book})

\* The page shows the conversation with the friend chosen last: what was
\* stored when it was chosen and what came and went since, in order and
\* nothing else, as long as that is no more than a page.
PageIsConversation ==
  \A c \in Client :
    LET s == serpent[c]
        rows == Conversation(s, s.queried_friend)
    IN s.queried_friend # NoName /\ Len(rows) <= PageSize =>
         s.page = [i \in DOMAIN rows |-> [message |-> rows[i].message,
                                          original |-> rows[i].original]]

\* The client files under the name of the user whom the server has logged in
\* ("tells the main window and the database manager user's handle",
\* app/mainwindow.cpp:132), unless the form was changed after it was sent.
HandleIsUser ==
  spent.edits = 0 =>
    \A c \in Client :
      serpent[c].screen = "main" => serpent[c].logged_in_user = connectedUser[c]

\* A message from a friend that reaches a client with its user logged in is
\* kept there ("inserts a message with the given text, originality, and
\* attributed friend into the messages database", app/database.h:22).
ReceivedIsKept ==
  [][\A c \in Client, f \in User :
       /\ serpent[c].screen = "main" /\ <<connectedUser[c], f>> \in friends
       /\ down[c] # <<>> /\ down'[c] = Tail(down[c]) /\ link' = link
       /\ Head(down[c]).type = "MESSAGE" /\ Head(down[c]).name = f
       => Len(serpent'[c].messages) = Len(serpent[c].messages) + 1]_vars
=============================================================================
