------------------------------ MODULE Serpent ------------------------------
(***************************************************************************)
(* millennium_serpent, the GUI client (src/app): LoginWidget, FriendsBox,  *)
(* RequestsBox, MessagesBox, CodeBox, CodebookWindow, the socket manager   *)
(* and MainWindow, which connects them to one another and to the database  *)
(* of ClientDatabase.                                                      *)
(*                                                                         *)
(* The program is one thread.  A signal calls its slots before it returns, *)
(* so that a click, or a packet handled, runs through all widgets in one   *)
(* step.  A slot is an operator here, from the state s of a client to its  *)
(* next state.  The exception is a message box opened while a packet is    *)
(* handled: its event loop runs inside the handler, Qt does not emit       *)
(* readyRead again meanwhile, and all other windows are blocked.           *)
(***************************************************************************)
EXTENDS ClientDatabase

CONSTANTS
  Client,        \* the machines, with a PIT.db each
  Keyword,       \* the keywords of codebooks; a codebook is its keyword
  BookName       \* the names a user gives to codebooks

ASSUME BookAssumption == "" \in Keyword /\ "default" \in BookName

VARIABLES
  serpent,   \* serpent[c]: the program on c and its database
  link,      \* link[c]: its connection, "ended" if the server has yet to notice
  up,        \* up[c]: packets on their way to the server
  down       \* down[c]: packets on their way to the client

clientVars == <<serpent, link, up, down>>

-----------------------------------------------------------------------------
(* Data *)

\* A text is a number; encrypted, it goes with the keyword that was used.
Garbled == 0
Encrypted == [text : Nat, book : Keyword]
NoText == [text |-> Garbled, book |-> ""]

encrypt(m, k) == [text |-> m, book |-> k]
decrypt(e, k) == IF e.book = k THEN e.text ELSE Garbled

ToServer == {"CREATE_ACCOUNT", "LOGIN_REQUEST", "ASK", "ACCEPT", "REJECT", "HIDE", "MESSAGE"}
FromServer == {"RESULT_YES", "RESULT_NO", "ONLINE", "OFFLINE", "FORWARD", "PENDING",
               "ACCEPT", "REJECT", "DOES_NOT_EXIST", "MESSAGE"}

Packet(t, n) == [type |-> t, name |-> n, body |-> NoText]
MessagePacket(n, e) == [type |-> "MESSAGE", name |-> n, body |-> e]

\* boxes has the FriendBox widgets; friendWidgets and friendNameToId are how
\* they are found.  books is a map with NoBook where there is none.  Only the
\* tables outlive the program.
NoBook == "(none)"
Off(tables) ==
  [friends |-> tables.friends, messages |-> tables.messages,
   logged_in_user |-> NoName, queried_friend |-> NoName,
   screen |-> "off", creating_account |-> FALSE, username |-> NoName, waiting |-> FALSE,
   boxes |-> {}, requestWidgets |-> [n \in User |-> "none"], page |-> <<>>,
   books |-> [b \in BookName |-> IF b = "default" THEN "" ELSE NoBook],
   current |-> "default", modal |-> FALSE]

-----------------------------------------------------------------------------
(* FriendsBox, with the slot insertFriend of the database that it calls and  *)
(* that calls it.                                                            *)

addNewFriend(s, id, n, st) ==
  IF \E b \in s.boxes : b.id = id \/ b.name = n THEN s
  ELSE [s EXCEPT !.boxes = @ \cup {[id |-> id, name |-> n, status |-> st]}]

insertFriend(s, n) ==
  IF hasFriend(s, n) THEN s
  ELSE LET t == FriendRowInserted(s, n)
       IN addNewFriend(t, Len(t.friends), n, "OFFLINE")

\* Mutated: a status of someone unknown is ignored.
updateFriendStatus_KnownOnly(s, n, st) ==
  [s EXCEPT !.boxes = {IF b.name = n THEN [b EXCEPT !.status = st] ELSE b : b \in @}]

updateFriendStatus(s, n, st) ==
  IF \E b \in s.boxes : b.name = n
  THEN [s EXCEPT !.boxes = {IF b.name = n THEN [b EXCEPT !.status = st] ELSE b : b \in @}]
  ELSE insertFriend(addNewFriend(s, Cardinality(s.boxes), n, st), n)

\* addNewFriend for each of the names in the order of Names, with its place in
\* the list as its id.  Neither ids nor names repeat in the list, so that only
\* the boxes that were there before keep one out.
processFriendList(s, names) ==
  LET place(i) == Cardinality({j \in 1..(i - 1) : Names[j] \in names})
      isNew(i) == \A b \in s.boxes : b.id # place(i) /\ b.name # Names[i]
  IN [s EXCEPT !.boxes = @ \cup
       {[id |-> place(i), name |-> Names[i], status |-> "OFFLINE"] :
          i \in {k \in DOMAIN Names : Names[k] \in names /\ isNew(k)}}]

-----------------------------------------------------------------------------
(* RequestsBox *)

addRequest(s, n, kind) ==
  IF s.requestWidgets[n] # "none" THEN s ELSE [s EXCEPT !.requestWidgets[n] = kind]

removeRequest(s, n) == [s EXCEPT !.requestWidgets[n] = "none"]

\* Mutated: the case of REJECT falls through to that of ACCEPT.
processFriendResponse_RejectFirst(s, n, r) ==
  CASE r = "DOES_NOT_EXIST" -> [s EXCEPT !.modal = TRUE]
    [] r = "PENDING" -> addRequest(s, n, "pending")
    [] r \in {"ACCEPT", "REJECT"} -> insertFriend(removeRequest(s, n), n)

\* The case of ACCEPT falls through to that of REJECT.
processFriendResponse(s, n, r) ==
  CASE r = "DOES_NOT_EXIST" -> [s EXCEPT !.modal = TRUE]
    [] r = "PENDING" -> addRequest(s, n, "pending")
    [] r = "ACCEPT" -> removeRequest(insertFriend(s, n), n)
    [] r = "REJECT" -> removeRequest(s, n)

-----------------------------------------------------------------------------
(* MessagesBox, CodeBox, and the database's slots about messages *)

Shown(s, m, original) == [s EXCEPT !.page = Append(@, [message |-> m, original |-> original])]

\* Mutated: whatever comes is shown.
insertMessage_ShowsAll(s, m, original, n) ==
  IF ~hasFriend(s, n) THEN s ELSE Shown(MessageRowInserted(s, n, m, original), m, original)

insertMessage(s, m, original, n) ==
  IF ~hasFriend(s, n) THEN s
  ELSE LET t == MessageRowInserted(s, n, m, original)
       IN IF original \/ n = s.queried_friend THEN Shown(t, m, original) ELSE t

\* A new page.  With none to show a label stands there until the next one.
processMessages(s, rows) ==
  [s EXCEPT !.page = [i \in DOMAIN rows |-> [message |-> rows[i].message,
                                             original |-> rows[i].original]]]

queryFriendMessages(s, n) ==
  IF ~hasFriend(s, n) THEN s
  ELSE processMessages([s EXCEPT !.queried_friend = n], queryMessages(s, n))

current_codebook(s) == s.books[s.current]

decryptAndReceiveMessage(s, n, e) ==
  insertMessage(s, decrypt(e, current_codebook(s)), FALSE, n)

addNewCodebook(s, b, k) ==
  IF s.books[b] # NoBook THEN s ELSE [s EXCEPT !.books[b] = k, !.current = b]

-----------------------------------------------------------------------------
(* LoginWidget and MainWindow *)

\* Mutated: the handle is not given to the database.
onLogin_NoHandle(s, u) == processFriendList(s, queryFriends(s))

onLogin(s, u) ==
  LET t == [s EXCEPT !.logged_in_user = u] IN processFriendList(t, queryFriends(t))

\* Mutated: the requests box is emptied for the user who logs in.
handleLoginResult_Empties(s, result) ==
  LET t == [s EXCEPT !.waiting = FALSE, !.username = NoName,
                     !.requestWidgets = [n \in User |-> "none"]]
  IN IF result THEN onLogin([t EXCEPT !.screen = "main"], s.username) ELSE t

\* The handle is what the form holds now; a failure is told beneath it.
handleLoginResult(s, result) ==
  LET t == [s EXCEPT !.waiting = FALSE, !.username = NoName]
  IN IF result THEN onLogin([t EXCEPT !.screen = "main"], s.username) ELSE t

showError(s) == [s EXCEPT !.screen = "error"]

-----------------------------------------------------------------------------
(* The socket *)

\* Every slot that sends returns at once when there is no connection.
Sends(c, p) ==
  /\ up' = IF link[c] = "open" THEN [up EXCEPT ![c] = Append(@, p)] ELSE up
  /\ UNCHANGED <<link, down>>

Becomes(c, s) == serpent' = [serpent EXCEPT ![c] = s]

handlePacket(s, p) ==
  CASE p.type \in {"RESULT_YES", "RESULT_NO"} -> handleLoginResult(s, p.type = "RESULT_YES")
    [] p.type \in {"ONLINE", "OFFLINE"} -> updateFriendStatus(s, p.name, p.type)
    [] p.type = "FORWARD" -> addRequest(s, p.name, "buttons")
    [] p.type \in {"PENDING", "ACCEPT", "REJECT", "DOES_NOT_EXIST"} ->
         processFriendResponse(s, p.name, p.type)
    [] p.type = "MESSAGE" -> decryptAndReceiveMessage(s, p.name, p.body)

\* The loop of readyRead takes the next packet.
ReadyRead(c) ==
  /\ link[c] = "open"
  /\ down[c] # <<>>
  /\ ~serpent[c].modal
  /\ Becomes(c, handlePacket(serpent[c], Head(down[c])))
  /\ down' = [down EXCEPT ![c] = Tail(@)]
  /\ UNCHANGED <<link, up>>

\* The connection breaks: what was under way in it is lost, both ways.
ErrorOccurred(c) ==
  /\ link[c] = "open"
  /\ Becomes(c, showError(serpent[c]))
  /\ link' = [link EXCEPT ![c] = "ended"]
  /\ up' = [up EXCEPT ![c] = <<>>]
  /\ down' = [down EXCEPT ![c] = <<>>]

-----------------------------------------------------------------------------
(* The user *)

At(c, screen) == serpent[c].screen = screen /\ ~serpent[c].modal

\* main() makes the window, whose socket connects in the background.
Launch(c) ==
  /\ serpent[c].screen = "off"
  /\ Becomes(c, [serpent[c] EXCEPT !.screen = "login"])
  /\ UNCHANGED <<link, up, down>>

\* The server has noticed the end of the machine's last connection.
Connected(c) ==
  /\ serpent[c].screen = "login"
  /\ link[c] = "closed"
  /\ link' = [link EXCEPT ![c] = "open"]
  /\ UNCHANGED <<serpent, up, down>>

ConnectionRefused(c) ==
  /\ serpent[c].screen = "login"
  /\ link[c] = "closed"
  /\ Becomes(c, showError(serpent[c]))
  /\ UNCHANGED <<link, up, down>>

\* The window closes; what was written to the socket is still delivered.
CloseWindow(c) ==
  /\ serpent[c].screen # "off" /\ ~serpent[c].modal
  /\ Becomes(c, Off(serpent[c]))
  /\ link' = [link EXCEPT ![c] = IF @ = "open" THEN "ended" ELSE @]
  /\ down' = [down EXCEPT ![c] = <<>>]
  /\ UNCHANGED up

\* While a result is awaited a swap changes nothing that it could not change
\* after a failure; after a success the form is gone.
swapLoginPurpose(c) ==
  /\ At(c, "login")
  /\ ~serpent[c].waiting
  /\ Becomes(c, [serpent[c] EXCEPT !.creating_account = ~@])
  /\ UNCHANGED <<link, up, down>>

\* The form has u in it; what it has matters from here to the result.  Without
\* a connection nothing happens, and the user waits for a result (README).
login(c, u) ==
  /\ At(c, "login")
  /\ link[c] = "open"
  /\ ~serpent[c].waiting
  /\ Sends(c, Packet(IF serpent[c].creating_account THEN "CREATE_ACCOUNT"
                                                    ELSE "LOGIN_REQUEST", u))
  /\ Becomes(c, [serpent[c] EXCEPT !.username = u, !.waiting = TRUE])

\* The form stays open to the user until the result comes.
EditUsername(c, u) ==
  /\ At(c, "login")
  /\ serpent[c].waiting
  /\ serpent[c].username # u
  /\ Becomes(c, [serpent[c] EXCEPT !.username = u])
  /\ UNCHANGED <<link, up, down>>

\* The dialog, ended by Send; with an entry for the name, a message box.
createFriendRequest(c, n) ==
  /\ At(c, "main")
  /\ serpent[c].requestWidgets[n] = "none"
  /\ Sends(c, Packet("ASK", n))
  /\ UNCHANGED serpent

Answer(c, n, r) ==
  /\ At(c, "main")
  /\ serpent[c].requestWidgets[n] = "buttons"
  /\ Sends(c, Packet(r, n))
  /\ LET s == serpent[c]
     IN Becomes(c, removeRequest(IF r = "ACCEPT" THEN insertFriend(s, n) ELSE s, n))

DismissMessageBox(c) ==
  /\ serpent[c].modal
  /\ Becomes(c, [serpent[c] EXCEPT !.modal = FALSE])
  /\ UNCHANGED <<link, up, down>>

SelectFriend(c, n) ==
  /\ At(c, "main")
  /\ \E b \in serpent[c].boxes : b.name = n
  /\ Becomes(c, queryFriendMessages(serpent[c], n))
  /\ UNCHANGED <<link, up, down>>

\* The send button: to the friend last queried, with the codebook of now.
SendButton(c, m) ==
  LET s == serpent[c]
  IN /\ At(c, "main")
     /\ hasFriend(s, s.queried_friend)
     /\ Sends(c, MessagePacket(s.queried_friend, encrypt(m, current_codebook(s))))
     /\ Becomes(c, insertMessage(s, m, TRUE, s.queried_friend))

\* CodebookWindow with a valid choice; the others leave the window as it is.
CreateCodebook(c, b, k) ==
  /\ At(c, "main")
  /\ Becomes(c, addNewCodebook(serpent[c], b, k))
  /\ UNCHANGED <<link, up, down>>

\* Mutated: the box lists names that have no codebook.
SelectCodebook_Unlisted(c, b) ==
  /\ At(c, "main")
  /\ Becomes(c, [serpent[c] EXCEPT !.current = b])
  /\ UNCHANGED <<link, up, down>>

SelectCodebook(c, b) ==
  /\ At(c, "main")
  /\ serpent[c].books[b] # NoBook
  /\ Becomes(c, [serpent[c] EXCEPT !.current = b])
  /\ UNCHANGED <<link, up, down>>
=============================================================================
