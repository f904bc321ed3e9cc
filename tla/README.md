# A verification project for MillenniumEncryption

TLA+ models of the programs of this repository, the instances TLC checks, and
theorems TLAPS proves. Paths are relative to the directory of the repository
that holds `server`, `crypt` and `app`, unless they begin with `doc` or `test`.

## The system

Four programs and two libraries (see the repository's README):

| Component | State it keeps | Operations | What makes it correct |
|---|---|---|---|
| **MillenniumFalcon**, the chat server (`server/server.cpp`) | `clientIDs` (user name to connections), `clientSockets`, `socketMutexes`; one thread for each connection with its `connectedUser` and iterator | accept; the five requests (create account, log in, ask for friendship, acknowledge, send a message); disconnection; `sendOutPacket` | the registry holds the open sessions and no others; friends learn who is online; no request is lost; every handler ends; one client never ends the server |
| **Its database** (`server/database.cpp`) | the tables `users`, `friends`, `requests` in SCRAPE.db | one SQL statement each | one account for a name; friendship is mutual, over crashes too |
| **Packets** (`server/packet.cpp`) | a message being written or read, with the bytes that remain | `write_to_packet`, `read_from_packet` | what is read is what was written |
| **Codes and codebooks** (`crypt/codebook.cpp`) | `codes`, `full_codes`, `uncodes` | construction from a keyword, `read_from_file`, `read_from_strings` | 256 different codes, three tables that agree, errors that are told |
| **encrypt and decrypt** (`crypt/encrypt.cpp`) | a tape of 256 bytes and a place on it | one code placed, or read; a block written, or read | decrypting gives back the text |
| **MillenniumSerpent**, the GUI (`app/`): ClientSocketManager | the socket | five requests; `handlePacket` | messages shown are the messages sent |
| ClientDatabaseManager | friends and messages in PIT.db, `queried_friend`, `logged_in_user` | insert and query friends and messages | the page shown is the last messages of the friend selected |
| FriendsBox, RequestsBox, MessagesBox | one entry for a name; the page of messages | add, update, remove; answer a request | every friend and every request is shown once, and can be answered |
| LoginWidget, MainWindow | the purpose of the login, the screen shown | log in, create an account | the user logged in is the one the server knows |
| CodeBox, CodebookWindow | the codebooks and the current one | add, select, encrypt, decrypt | a message is decrypted with the codebook it was encrypted with |
| **MillenniumJackdaw**, the command line (`loc/main.cpp`) | none | encrypt or decrypt a file or a string | as encrypt and decrypt |

How they interact: the GUI is one thread, in which Qt's signals call slots; it
talks to the server over one TCP connection in packets of 128 bytes. The server
has a thread for each connection; threads share `clientMutex` and what it
guards, one SQLite connection, and the mutexes of sockets, because any thread
sends to any connection. encrypt and decrypt are called by the GUI on every
message, which the server passes on unread.

What is hard here: threads that look something up, release the lock and act on
it; packets of several threads on one connection; a process that may end between
two statements; long messages in several packets; codes that overlap on a tape
whose beginning is gone. `PROJECT.json` lists these hazards at their lines, each
with the properties that are about it.

## The modules

| Module | Models | Checked by |
|---|---|---|
| `FalconDatabase` | the three tables and every statement run on them | with `Falcon` |
| `Falcon` | the accept loop, `handleClient`, `sendOutPacket`, the process | `MCFalcon` |
| `Sessions` | abstract: who may be in whose session | as a property of `Falcon` |
| `Friendships` | abstract: who may become whose friend | as a property of `Falcon` |
| `FalconProperties` | what the server should guarantee, and the mappings to `Sessions` and `Friendships` | `MCFalcon` |
| `FalconProofs` | theorems about `Falcon`; lemmas: what each step of a thread does, field by field | TLAPS |
| `RefinementProofs` | that `Falcon` implements `Sessions` and `Friendships` | TLAPS |
| `FriendshipProofs` | theorems about friendships, requests, and who is seen online | TLAPS |
| `Messages` | messages in packets, from the sending client over the server to the receiving clients | `MCMessages` |
| `MessagesProofs` | theorems about `Messages` | TLAPS |
| `ClientDatabase` | PIT.db, the client's tables, and the members of its manager | with `Serpent` |
| `Serpent` | the GUI client: its boxes, its login form, its socket, the wiring of signals | with `Millennium` |
| `Millennium` | clients of `Serpent` composed with the server | `MCMillennium` |
| `MillenniumProperties` | what users of the clients should be able to rely on | `MCMillennium` |
| `MillenniumProofs` | theorems about `Millennium`, with the slots of `Serpent` | TLAPS |
| `Codes` | byte codes and full codes | with the next two |
| `CodesProofs` | lemmas about `Codes`, and about least numbers | TLAPS |
| `Codebook` | construction of codebooks, reading them from files and strings | `MCCodebook` |
| `CodebookProofs` | theorems about `Codebook` | TLAPS |
| `Cipher` | `encrypt` and `decrypt` | `MCCipher` |
| `CipherProofs` | theorems about `Cipher` | TLAPS |

A definition that begins with another's name and goes on with `_` and a word,
preceded by "Mutated:", is a version with a mistake a programmer could make; it
is used nowhere, and stands there to try whether a property would notice.

### Falcon

`users`, `friends` and `requests` are the tables, as bags of rows, since no
table has a key. `clientIDs[u][c]` counts the pairs of the multimap, `live` has
the keys of `clientSockets` (which are those of `socketMutexes`), and
`thread[c]` has the program counter and the locals of the thread of connection
`c`: the request it works on, the answer it will send, the names left in the
loop it is in, the calls of `sendOutPacket` it still has to make (`out`) and the
connections left in the call it is making (`targetIDs`). `status` and `offers`
are what the clients have learnt.

A step is one SQL statement, one critical section of `clientMutex`, or one
packet delivered; everything a thread does with its own locals in between is in
the same step. A `case` of `handleClient` becomes a chain of actions: a login is
`LoginCheck`, `LoginPassword`, `Register`, then three loops (`LoginIncoming`,
`EachIncoming`, ...), `LoginDone` and `Respond`. Each look-up of a friend in
`clientIDs` is in the step of its loop, and its packets go out in later steps:
`Collect` looks the targets up, `Deliver` serves one of them. This is where the
other threads come in. `DeliverToErased` is `Deliver` when the ID is no longer
in `socketMutexes`: the dereference of an empty pointer, which ends the process.

Failures: `Run` lets a statement that changes the database fail, `Walk` lets a
query return a part of its rows, `Deliver` and `Respond` let a send fail,
`ReceiveInvalid` is a packet of no known type. Each spends one of `MaxFaults`.
`SendRaisesSignal` is SIGPIPE. `Kill` and `Restart` end and start the process
between any two steps; the tables survive.

`LoginPassword` reads the password of the account or, if the statement fails, the
empty string (`EmptyPassword`), and compares what it has with what the client sent.
The GUI and the packets let a password be empty.

`Sessions` is what the server promises of sessions and nothing of how: a
connection is opened, claims a name with a password, the claim is accepted or
refused, an accepted one is entered, and the connection is closed together with its
session. What is accepted is a password of the account, or one that makes the
account, or the empty one if something fails in that very step; there `Sessions`
follows the code, since to promise less would be false of it and to allow every
claim would promise nothing. `FalconProperties` maps the server to it: a
session is what `clientIDs` says, a connection is open while it is in
`clientSockets`, the claim is the request whose credentials a thread is
examining, it is accepted while the thread has yet to register, the passwords of
a user are those in its rows, and `failures` are `faults`. `KeepsSessions` says
that every step of the server is one of `Sessions` under this mapping, or none.

`Friendships` is what it promises of friendships: somebody's session asks; who
was asked may accept, which lists them with the one who asked; only then may the
one who asked be listed with them; and no friend is ever taken from a list. Of
requests it says who is known to have asked whom, and lets that be forgotten. The
server knows of a request what it has stored and shows, what a thread is to
forward (`out`, or `names` in the loop of a login), what a client has been told
and not answered (`offers`), and an acceptance whose first INSERT is still to
come; `asked` is all of these, `befriended` the rows of FRIENDS without their
number. `KeepsFriendships` says that every step is one of `Friendships`, or none.
That no request is lost is not part of it: forgetting is what a rejection, a
departure and a crash do, and `NoLostRequest` is about the others.

The clients are as free as the GUI lets them be, and a little freer: an answer
takes a request that was forwarded before, but the entries of the requests box
are not modelled, which would let the user answer less often.

### Messages

The bytes of a message are pairs of its id and a position, so that any mixture
of messages can be seen. `sending`, `handler[s].reader`, `handler[s].writer` and
`client[k].reader` are the `messageSend` and `messageForward` objects with their
`bytes_remaining`; a packet is the record of what `write_to_packet` puts into
the buffer. `Lock` to `Send` of the last packet is the time one thread holds the
mutex of a socket. `Arrive` is the event loop that fetches what has come;
`HandleMore` reads the next packet if it is there, and else the buffer as it was,
which nothing initialized. `Outgoing` says what is sent.

### ClientDatabase, Serpent, Millennium

`serpent[c]` is the program on machine `c`: the two tables of PIT.db, the members
`logged_in_user` and `queried_friend`, and what the widgets show. `boxes` are the
`FriendBox` widgets with the ids under which `friendWidgets` and
`friendNameToId` have them; `requestWidgets[n]` is an entry with buttons or one
that says "Pending"; `page` are the messages shown; `books` and `current` are the
codebooks of the code box; `username` is what the login form holds while it
`waiting`s for a result. `screen` is which of the three widgets of the main
window is shown, and `off` when the program does not run: then all but the
tables is as at the start.

A slot is an operator from a client's state to the next, named as in the code,
and one calls another where the code emits a signal connected to it; so
`updateFriendStatus`, `insertFriend` and `addNewFriend` call each other in the
order in which friends box and database do. A click, or a packet handled, is one
action, because signals are synchronous in the one thread. `modal` is the
message box opened in the handler of a packet: until it is dismissed no packet is
read and no window reacts.

`link`, `up` and `down` are the connection and the packets on their way.
`ErrorOccurred` breaks it and loses both ways; `CloseWindow` ends the client,
whose last packets still arrive.

A codebook is its keyword, and a text is a number: decrypted with another
codebook it becomes `Garbled`, which is what the user would see. What the ciphers
do is in `Codebook` and `Cipher`.

`Millennium` puts machines and server together. The server is `Falcon`'s with
coarser steps, since here the matter is what arrives at which widget in which
order: a `case` of `handleClient` is one step and the response at its end is
another, so that packets of other threads come between a forwarded request and
the "PENDING" to its sender. `CREATE_ACCOUNT` is three steps before the response
(`CreateAccount` asks whether the name is free, `InsertUser`, `Register`): between
the last two the account can be found and its session cannot, and nothing is
looked up later. `answer` holds what the thread has yet to do, and `missed` keeps who
asked or befriended the user meanwhile, for the properties. A login is one step: its
session is registered before anything is looked up for it, and `Falcon` has the steps.
The order in which a query returns names is any.
A user may log in on any machine, on both at once, with an account or
without; passwords are right, and nobody presses the button a second time before
the result comes (both are in `Falcon`). `Habits` says what the users of a run do.

### Codes, Codebook, Cipher

A full code is a record of its three numbers; `to_byte_code` and `to_full_code`
compute with bits as the code does, in eight bits (`BitOr` is a sum over bits, which
the proof system can compute with). In `Codebook` one turn of a
loop is a step, with the three arrays, the hare, the tortoise and the probe as
variables; the table `roots` is given by what its comment says of it (the
primitive roots of 257), and the codes the model arrives at are those of the
compiled program. In `Cipher` a byte of tape is the set of its bits, one code
placed or read is a step, and the tape has the byte 0xFF before it (encrypt) or
behind it (decrypt) as in the code.

## What the runs check

All passing runs explore their whole state space. CHECK_DEADLOCK is on
everywhere; where a system may stop, `Finished` says when.

| Run | Bounds | Shows |
|---|---|---|
| `Falcon_presence` | 2 users who are friends, 2 passwords, 3 connections, 2 requests each: log in, write a message | `RegistryExact`, `OneSideSees`, `ConfirmedIsDelivered`, `KeepsSessions`: whatever the order of logins and departures, `clientIDs` is exact, two friends at rest, neither gone nor accepting the other, never both miss each other, a confirmed message reached somebody if nobody left, and only right passwords open sessions, as nothing fails here |
| `Falcon_requests` | 2 users, 2 connections, 3 requests each (log in, ask, accept, reject, hide), a kill and a restart | `NoLostRequest`, `FriendsMutual`, `StatusOfFriendsOnly`, `OneSideSees`, `KeepsFriendships` |
| `Falcon_progress` | 2 users, one with an account, 2 passwords, one of them empty, 2 connections, 2 requests each (create an account, log in, ask, accept), 1 fault or SIGPIPE, fair | `TypeOK`, `RegistryExact`, `HandlersReturn`, `LeaversAreForgotten`, `KeepsSessions` (with the empty password of `Sessions`, and violated without), `KeepsFriendships` |
| `Messages_mixed` | 3 sessions; messages of 9 and 7 bytes to one client and of 3 to another, in packets with room for 3, then 5; fair | `TypeOK`, `ReadsWhatWasSent`, `PacketsTogether`, `ArrivedIsShownRight`, `EachIsShown` |
| `Serpent_friends` | 2 machines with empty databases, 2 users, one with an account; 3 requests, answers or edits of the form, 3 starts or broken connections | `FriendsShown`, `ShownAreFriends`, `RequestsAnswerable`; without their exceptions for what is `missed`, the first and the last are violated |
| `Serpent_messages` | 2 machines that know their users' friends, 3 users, 2 codebooks, pages of 2 messages; 3 messages or new codebooks, 2 starts or broken connections | `TypeOK`, `FiledRight`, `PageIsConversation`, `HandleIsUser` |
| `Codebook_tables` | 5 keywords, 3 files, 4 sets of strings, fair | `InBounds`, `TablesAgree`, `StringsKept`, `Ends` |
| `Cipher_texts` | a buffer of 45 bytes of which 32 are kept, as the program keeps 32 of 256; all texts of up to 3 of 8 codes, and of up to 6 codes without ones, with ones, or of the longest | `RoundTrip`, `RoomToEncrypt`, `RoomToDecrypt` |

Why these bounds: the races of the server are between two threads, and a third
connection brings in users with two sessions. Three requests of a session are a
login and a request made and answered, by both users; more repeat it. Packets
with room for 3 and 5 bytes give messages of one, two and three packets, with and
without a last one that is full. With 32 bytes kept, as in the program, and
blocks of 13, a boundary falls at each place between and inside the codes of a text of
six, and the longest codes reach as far behind it as they can (blocks of 12 would make
one of the mixed texts meet `Cipher_v_boundary`); the shapes chosen are the
boundaries of the three forms of a code. For the clients two machines are enough for
one user at both, or two at one after the other; three acts are a request,
another one or an answer, and what follows from it after a restart; pages of two
messages, where the program has ten, are passed with three. Texts of six codes keep those with and
without ones apart because mixtures at a boundary are what `Cipher_v_boundary`,
in the program's own sizes, is about.

### Where the code differs from what is said of it

Each of these runs checks one property that quotes the repository, and TLC finds
a behaviour of the code that violates it (`PROJECT.json`, "findings", tells each
in full). The runs of codebooks and ciphers have been compared with the compiled
code, which does the same.

| Run | What happens |
|---|---|
| `Falcon_v_crash` | `sendOutPacket` locks the mutex of a session that has closed (`server/server.cpp:519`) |
| `Messages_v_client` | the client reads the next packet before it has come (`app/clientsocket.cpp:169`) |
| `Serpent_v_kept` | a friend learnt by a status is filed under no user, and messages from it are dropped (`app/database.cpp:144`) |
| `Cipher_v_boundary` | a code with ones at the start of a block merges with what is there (`crypt/encrypt.cpp:148`) |

`RoundTrip` holds in one run and fails in another, which say on which inputs the
program keeps its promise. `ShownIsSent` without the condition that all packets
had come is what `ArrivedIsShownRight` states with it, and `PageIsConversation`
is about pages that are not full.

The other departures met with are conditions of the passing properties. No run
is kept for them; each is found by TLC in the instance given here.

* Two connections create the same account: both threads count no such user
  before either inserts it (`server/server.cpp:251`). `Falcon_progress` with
  `Len(users[u]) <= 1`.
* The statement that reads the password fails: `getPassHashFromUsername` returns
  `""` (`server/database.cpp:54`), which `handleClient` takes for the password of the
  account (`server/server.cpp:290`), so that whoever sends an empty one is logged in.
  `Falcon_progress` with a `Sessions` that accepts passwords of the account only.
* A request comes between the insertion of an account and its registration
  (`server/server.cpp:251`, `262`), or the user, already logged in on another machine,
  accepts one there: the session that creates the account is not told, and shows neither
  request nor friend until the next login. `Serpent_friends` with `RequestsAnswerable` or
  `FriendsShown` without `missed`.
* A friend who logs in while another says goodbye still finds it in `clientIDs`, is
  told ONLINE and never OFFLINE (`server/server.cpp:222`), where line 220 says
  "Tell all of their online friends that they are offline"; two threads may also
  deliver the two packets in the other order. `Falcon_presence` with: at rest,
  no friend without a session has the status ONLINE.
* Of two users with three sessions, one of which accepts the other's request:
  between the second INSERT and the packets that announce it the two idle
  sessions are friends by the tables and know nothing of each other
  (`server/server.cpp:383`). `OneSideSees` without `Befriending`, with three
  connections; two, as in `Falcon_requests`, do not show it.
* Two friends log in at once and one of them sees the other offline: the OFFLINE
  one thread looked up is delivered after the ONLINE of the other
  (`server/server.cpp:315`). That is why `OneSideSees` speaks of one side.
* A connection sends its credentials again before the first result: two pairs
  enter `clientIDs` and one is erased (`server/server.cpp:298`).
  `RegistryExact` with `Relogin = TRUE`.
* The recipient leaves between the check that it is online and `sendOutPacket`;
  the message is confirmed (`server/server.cpp:432`). `ConfirmedIsDelivered`
  without its condition on leavers.
* The process ends, or a statement fails, between the two INSERTs of a
  friendship (`server/database.cpp:299`). `FriendsMutual` without `Undisturbed`.
* A user with two sessions gets an empty message on the second: the writer has
  counted its bytes down for the first (`server/server.cpp:527`). `Messages`
  with two sessions of one user and `ShownIsSent`.
* "111112" is accepted as a code and becomes another one
  (`crypt/codebook.cpp:112`). `StringsKept` with that string.
* `read_from_file` of a missing file returns true (`crypt/codebook.cpp:176`):
  `result` after the third file of `Codebook_tables`.
* Two codes of count 11 of one digit in a row run together, as
  `where_to_write_in_buffer` takes the digit of their byte code to be one less
  (`crypt/encrypt.cpp:40`). `RoundTrip` with the texts of codes 0 and 8.
* Long codes of all seven digits above a 1 make a byte 0xFF, which `decrypt`
  takes for the end (`crypt/encrypt.cpp:81`). `RoundTrip` with the text
  15, 23, 31, 39, 47, 55, 63, 143.

Of the clients:

* `queryMessages` orders by ascending id before it limits (`app/database.cpp:251`):
  with more than ten messages the page is the first ten, where `app/database.h:29`
  says "the last *count* messages". `PageIsConversation` with `Len(rows)` in
  place of the bound, and the last messages of `rows`.
* Two users ask each other at once: each has an entry "Pending" that keeps out the
  request with the buttons (`app/requestsbox.cpp:63`), and neither can answer.
  `RequestsAnswerable` without `asked`.
* An ACCEPT may overtake the PENDING of the request (`server/server.cpp:361`): the
  entry "Pending" of somebody who is a friend stays. The same follows when the
  friend accepts on one machine while the user is away from another.
* Ids of entries coincide, and a friend has no entry (`app/friendsbox.cpp:46`), where
  `app/README.md:5` says that the box "displays friends and their online status".
  `FriendsShown` holds of the two users of `Serpent_friends`, whose entries are too few
  for that. It fails with four, Ann's machine knowing Ben, Cat and Dan from before and the
  server only Cat: the status of Cat that comes before the result of the login takes
  the id 0, which is Ben's place in the list; when Ann then accepts Ben, whom her
  machine has, his entry would get the number of entries, 2, which is Dan's. Where
  ids do not meet a second time the later status makes the entry, as OFFLINE whatever
  that status was (`app/friendsbox.cpp:73`).
* The form is edited before the result (`app/login.cpp:67` asks the question
  itself): the database files under the edited name. `HandleIsUser` without its
  condition.
* A request answered on one machine stays on the other, where it may be answered
  again, otherwise too; an ACCEPT after the REJECT makes a friendship of it
  (the TODO at `server/server.cpp:374`).
* An ACCEPT that is lost with the connection leaves a friend in PIT.db whom the
  server does not know. `ShownAreFriends` without its condition on breaks.
* "No messages yet" stays above the messages that follow it
  (`app/messagesbox.cpp:75`), and a message is stored and shown as sent whether it
  could be sent or not (`app/database.cpp:173`).

### Fairness

`Falcon`: weak fairness of each thread's own steps (`Work`): the operating
system runs threads that are not blocked in `recv`, mutexes held for the
time of a send are released, and no send waits for ever for a client that does not read. Nothing is assumed of clients: they need not send,
hang up or come. `Messages`: weak fairness of what serves a session and of what
reads for a client: TCP delivers, threads and event loops run, and a client goes
on writing what it has begun. `Millennium`: none, since nothing is claimed to
happen. `Codebook`: one thread that nothing blocks.

## What is proved

`FalconProofs` proves of `Falcon`, for all sets of users, passwords and
connections, all workloads and all bounds, under the assumptions about constants
that `Falcon` names:

* `TypeCorrect`: `Spec => []TypeOK`.
* `RegistryCorrect`: `Spec => []RegistryExact`, if `~Relogin`, that is, if
  clients wait for the result of a login. That this is needed is listed above.

Neither is inductive. `Close` takes one from `clientIDs[me(c)][c]`, which stays
a natural number only if a logged-in thread has a pair to erase (`HoldsID`), and
erases all of the thread's pairs only if it has one. A step of a session needs a
user and a step of a request a name (`LocalsOK`: what each program counter says
of the locals). A thread handling credentials must not be logged in, so that
`Register` adds the first pair; and a connection must be in `live` as long as
its thread runs (`SocketsExact`). `IInv` is the conjunction; `Invariance` proves
it, with `InitInv` for the initial states and `NextInv` for the steps, which
goes through one lemma for each action or group of actions of one shape. The
shapes (`LocalStep`: a thread changes its locals; `DatabaseStep`: and the
tables; `SendingStep`: and what clients have learnt) carry the parts of `IInv`
that such steps cannot disturb.

`RefinementProofs` proves, again for all values of the constants and if `~Relogin`:

* `SessionsKept`: `Spec => KeepsSessions`, that is, `Falcon` implements `Sessions`.
* `FriendshipsKept`: `Spec => KeepsFriendships`: it implements `Friendships`.

Both are of the server with all its faults, signals, kills and restarts.

For the first, the registry invariant says that what `clientIDs` has of a connection is what its
thread believes (`SessionIs`), so that a session begins in `Register` and ends in
`Close`, with everything else a change of claims or nothing that `Sessions` sees.
`Create`, `Accept` and `Refuse` are where the thread makes up its mind, and `Enter` is
`Register`, a step later, when nothing is examined any more. That the password read is one
of the account's needs an account with a row: `AccountsRead` says that a thread
at `login_password` has one, which stays true because accounts are never deleted,
whatever other threads insert. Each action is shown to be a step of `Sessions` or a
stutter and to keep `AccountsRead` (`Simulated`), and `faults` never to decrease.

For the second, a request that moves from the table to a thread, to a client and
back to a thread must be known all the way, and be of the same two users. What
makes it so is `HeldOK`: the sessions a packet is still to be delivered to are of
the user it is for (`Aimed`, which `FriendshipProofs` also rests on), only
sessions hold what was forwarded, and a thread at the second INSERT has done the first.
One lemma, `KnownAfter`, then covers every step of one thread: if what
the thread, the table and the clients have after it is in `asked`, or is what the
thread itself asks now, nothing else has become known. `Silent` covers those that change no
table, and a lemma for each statement says which of the four steps of
`Friendships` it is (`Permitted`). A crash is `Forget`: it forgets.

The last part of `FalconProofs` starts from `Invariance` and says once what each
action leaves in each field of a thread, if nothing fails (`Acts`, `Sends`, `Stored`). The next
module is built on it, and its proofs are about what matters in a step.

`FriendshipProofs`:

* `FriendshipMutual`: `Spec => []FriendsMutual`. The property counts the threads
  between the two INSERTs, so a step must move one of them and one row together;
  cardinalities can be reasoned about only for finite sets, and connections are
  opened one by one (`IsFiniteSet(live)`), whatever the size of `Conn`.
* `StatusIsOfFriends`: `Spec => []StatusOfFriendsOnly`, if `~Relogin`. A packet is
  made long before it is delivered: `Discreet` says of every thread that what it
  still has to send or to walk is about friends, `Aimed` that targets are sessions
  of the user the packet is for, `Heard` that what was delivered was right. No
  row of `friends` is ever deleted, so that what was true remains true.

* `RequestsKept`: `Spec => []NoLostRequest`, if no client of the run creates an
  account. `Kept` says of each shown request and each session of its recipient
  that its client knows of it or is being told, or its own thread has yet to look it
  up, or is storing the answer. Ends and starts of the process are included: a
  session that begins again looks everything up again. The condition on the
  workload is needed, since a session that begins by creating the account looks
  nothing up (`server/server.cpp:262`), and a request may come before it is
  registered.

* `ConfirmationHonest`: `Spec => []ConfirmedIsDelivered`. `Confirming`: a thread
  about to confirm has reached somebody, or still has the packet to send and a
  session to send it to, or a session has left meanwhile.
* `FriendsSeeEachOther`: `Spec => []OneSideSees`, if `~Relogin` and no client of the
  run creates an account, because the argument follows both users from logins
  that look their friends up. For any two users one of them `Sees` the other: it
  came online when the other was there already, no thread is about to send it an
  OFFLINE about the other, and each of its sessions has the ONLINE, or a thread on
  its way to deliver it. Which of the
  two it is may change only when the second of them comes online; that is why the
  invariant is a disjunction and the property speaks of one side.

`MessagesProofs`, of `Messages`, for all users, sessions, messages and sizes of
packets:

* `MessagesTyped`: `Spec => []TypeOK`, with `Typed`, which adds that no writer
  counts more bytes than its text has.
* `ReadAsSent`: `Spec => []ReadsWhatWasSent`. The packets on their way and the one
  the client is about to write are one sequence, `Coming(s)`, in which each packet
  begins a message or is the one that follows in the same message (`Linked`).
  Reading takes from its head and writing appends to its end, and neither has to
  know how far the other is; that is what makes the invariant inductive.
* `MessagesWhole`: `Spec => []PacketsTogether`. The same on the way down:
  `Going(k)` is the wire with the packet that the holder of the mutex is about to
  send. `MutexInv`: a mutex is held by a handler that is sending to just that
  session, so that two messages never alternate.
* `ShownAsSent`: `Spec => []ArrivedIsShownRight`, if no user has two sessions
  (`OneEach`): the writer is used up by the first session, and the second is sent
  an empty message (departures). `ClientAt`: a client that never read early has
  put together what the packets up to the one it took last say.

`MillenniumProofs`, of `Millennium`, for any machines and what their databases
hold, any users, codebooks and habits, and all bounds:

* `ClientsTyped`: `Spec => []TypeOK`. One lemma for each slot of `Serpent` says that
  a client's state that is `Sound` remains so, and what the slot leaves alone
  (`Silent`): a row of `friends` is never changed or deleted, so that the
  `friend_id` of a message stays the number of its row, and the ids of the entries
  differ as their names do. `Typed` adds the types of the packets, which also say
  that the server never names nobody.
* `FiledUnderUser`: `Spec => []HandleIsUser`. The server knows the user two packets
  before the client does, so the invariant follows the login: `Before`, `Asking`
  (its packet is the only one on the way up), `Decided` (the result is the answer of
  the thread), `Told` (it is the only result on the way down, maybe behind requests
  and statuses) and `After`. `LoginAt` says which of them the screen of a client
  and its link allow, so that no result meets a form that has been left or a
  connection that has been broken.
* `FiledRightAlways`: `Spec => [](spent.edits = 0 => FiledRight)`, if the databases
  hold no messages at the start. `MailAt`: a message on its way up is from the user
  of its connection to the one it names, one on its way down the other way round,
  and either has the text of a message that was written, with the codebook it was
  written with. `FiledAt`: what is stored is such a text, or `Garbled` if the
  codebook was another. Most steps say and read nothing (`Quiet`); two lemmas are
  about the two that do, writing and receiving a message. Both conditions are needed:
  nothing is known of texts stored before, and a form edited after it was sent
  files under the edited name (departures).

* `RequestsAreAnswerable`: `Spec => []RequestsAnswerable`. `WaitingAt`: a request that
  waits has its buttons at each client of its recipient, or its packet is on the way
  there, or the answer is on the way back. A packet may take away or keep out an entry
  only if the user has asked the sender, which is what the property excludes; that
  this is so needs `AskedAt`: every packet, answer and entry that speaks of a request
  or a friend speaks of one that was made (`DueTo`, `Means`, `Invited`). A session that
  creates its account is told of no request that was there before it: `MissedInv` says
  that all there are for a name whose account a thread is creating are `missed`. There were
  none when the thread found the name free, because requests are for accounts that exist, and
  those that came since, be it that another thread inserted the account, were noted; so
  at `Register` nothing is left that the property would promise. A login has to
  tell all requests in whatever order the queries return them (`LoginHears`).
* `NobodyElseShown`: `Spec => []ShownAreFriends`, if the rows of users in the databases
  of the start are of their friends (`FriendsOnFile`). `BoxesAt`: who has an entry,
  or a row under a user, is a friend by the tables, or the ACCEPT is on the way up. The
  row counts as much as the entry, because the next login of that user shows it; a
  broken connection loses the ACCEPT and an edited form files rows under another user,
  which are the conditions of the property.
* `PageIsTheConversation`: `Spec => []PageIsConversation`. `PageOf` adds that a friend
  is chosen only after the login and has a row: then the id under which the messages
  of the friend are found stays the same while rows are added (`FriendIdKept`), and no
  other friend has it (`FriendIdsApart`), so that `insertMessage`, which looks at the
  name, shows what the query, which looks at the id, would. `Conversation` counts:
  its k-th row is the one with k ids up to its own. That there is one is a
  bijection (`NthIs`), and a row that is appended is the last of its conversation
  and no part of any other (`ConversationAdded`), whatever its length, without induction.

`CodebookProofs`, of `Codebook`, for any keywords, files and strings:

* `StaysInBounds`: `Spec => []InBounds`. `ConstructorInv`: the entries behind the hare
  have bytes of their own, all in `used`, and the tortoise rests until the keyword is
  placed and is behind the hare from then on. A probe gives the byte -1 only if a
  product of two numbers up to 256 is a multiple of 257, so 257 must be shown to be
  prime (`Prime257`): from the least number that could be a factor of such a multiple
  one gets a lesser one. Least elements (`LeastIs`) take the place of induction here.
* `Agreement`: `Spec => []TablesAgree`. 256 entries with bytes of their own make `codes`
  injective, and so does a call of `verify` that returned true; then `uncodes` has
  one character to take for each byte (`TablesMade`). `CodeOfByte`: `to_byte_code`
  undoes `to_full_code`, which is a matter of the three layouts of a byte.
* `StringsRemain`: `Spec => []StringsKept`, if strings that `valid_readable_code` lets
  pass are codes of bytes. It lets others pass (see the hazards), which come back as the
  code of what eight bits keep of them. `CallsInv`: the entries of strings read so far
  have their codes, and refilling changes the entries of other characters only.

That a probe ends (`Ends`) is not proved: it is a matter of liveness, and of what the
powers of each root are.

`CipherProofs`, of `Cipher`, for texts of any length and buffers of any size of which 23
bytes or more are kept and 12 or more go out (`RoomAssumption`; the program has 32 and
224):

* `StaysInBuffer`: `Spec => []RoomToEncrypt`, for any texts. `EncryptInv`: nothing is on
  the tape 11 bytes behind the start of the last digit, because digits start one behind
  the other and are pressed 11 times at most. So a search for a place stops after 12
  bytes, and a start is never more than 11 bytes behind a block. Both bounds matter:
  with shorter blocks the start would run away from them, one code at a time.
* `ComesBack` and `ReadsInBuffer`: `RoundTrip` and `RoomToDecrypt` hold always, for any
  texts, if each step tells its character apart (`ToldApart`) and the ciphertext has no byte
  0xFF (`NeverFull`). The argument needs no induction over the text. The buffers of
  `encrypt` and of `decrypt` are windows on one tape without end, of which `On` says
  what is at each position when the digit of the k-th code starts at `S[k]`. `Apart`
  says of these starts that they are in the order of the text, at most 12 apart, with the
  ones of a code between two digits, and that a digit has ended a byte or more before the same
  digit starts again. `LaidInv`: buffer and ciphertext show the codes taken so far at such starts;
  the search of `where_to_write_in_buffer` gives the next code a start of that kind
  (`PlaceApart`), and rolling the buffer moves the window and nothing else. `ReadCode`: on such a
  tape, from the start of one digit, `read_from_buffer` finds the next, how many ones
  it has and where it ends, since nothing is raised in between but its own ones; and
  `CodeOfByte` makes the byte of it. `ReadInv`: what `decrypt` holds is the code behind
  those it has put, and `c_start` is where its digit starts.
* `ClearComesBack` and `ClearReadsInBuffer`: `Spec => []RoundTrip` and
  `Spec => []RoomToDecrypt` with nothing said of steps or bytes, if the texts are `Clear`:
  no code of count 11, no code with ones right behind one without, and one of the eight keys not used.

The two hypotheses of `ComesBack` name the departures above, and nothing else can go wrong. `ToldApart` fails
when a code of count 11 is put on or right behind a run of its own digit, which
`where_to_write_in_buffer` does not see, or when a code with ones comes behind one
without and starts at the first byte of a block, with the digit of the other
(`Cipher_v_boundary`). `NeverFull` fails when codes of all digits pile up over a 1.

Each of these invariants was checked by TLC on the instances above before it was
proved, except `LaidInv` and `ReadInv`: they say that there are starts, which TLC cannot
enumerate, so that `RoundTrip` and `RoomToDecrypt` were checked under `ToldApart` and
`NeverFull` instead. Only model-checked are:

* `FriendsShown`, which holds of few friends and not in general (departures).
* `RoundTrip` and `RoomToDecrypt` without the two hypotheses, of the texts of `Cipher_texts`:
  some of them are not `Clear`, and neither property holds of every text.
* What a function defined by recursion computes for every input, such as `Power128`.
* Everything about liveness, which is beyond the proof system used here.

## What is not modelled

* The command line's options (MillenniumJackdaw): it calls `Codebook` and `Cipher`
  once each. Layout and texts of the GUI; saving codebooks; build files.
* Bytes of packets other than those of messages, and the checks of their
  lengths; TCP splitting or joining packets.
* A client that connects before the server has noticed that the last connection of
  its machine is gone; SQL statements of the client that fail; a second use of the login form before the
  first result, in the client (`Falcon` has it as `Relogin`).
* Waiting: for the mutex of a socket while another thread sends there, and for a
  client that does not read what it is sent. A step of `Falcon` always returns.
* What `processFriendResponse` does with "A database error occurred": it says so and drops
  it (`app/requestsbox.cpp:46`); no statement of the server fails in `Millennium`.
* Packets that Qt has fetched when a connection breaks and would still hand over:
  `ErrorOccurred` drops them with those under way.
* Qt raises no second `readyRead` while a handler of the first is running. The guard of
  `ReadyRead` takes that from Qt, also while a message box is open in the handler.
* The data race on the maps that `sendOutPacket` reads without their lock, and
  the life of a mutex that is erased while it is held. One look-up is one step.
* Inputs the code has no defined behaviour for: keywords of 256 characters or
  beyond ASCII, names of 118 bytes or more in messages.
* The destructor of the server: `spin` does not return.

## Plan

Runs are few and each carries what one instance can answer; a module below brings
one passing run where it replaces a weaker one. Done: the server with its
database, all its safety properties proved, and that it implements
its two abstract specifications; messages, all safety properties proved; the GUI client
composed with the server; codes, codebooks and ciphers; of codebooks all safety
properties proved, and of ciphers that a text comes out as it went in, where that is so.

To model:

1. `Outbox`: `sendOutPacket` by its single accesses: the look-ups without
   `clientMutex`, the mutex held during sends, `Close` in between.
2. `Wire`: a connection as a stream of bytes with short reads, under the server's
   `recv` loop and the client's `readyRead`.

To prove: that the server inside `Millennium`, which inserts both rows of a friendship in
one step, implements a `Friendships` that may do so, too.
