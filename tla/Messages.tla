------------------------------ MODULE Messages ------------------------------
(***************************************************************************)
(* Messages of any length, in packets of PACKET_BUFFER_SIZE bytes: from    *)
(* the sending client (ClientSocketManager::sendMessage) over messageSend  *)
(* to the server's handleClient, and over messageForward and sendOutPacket *)
(* to the sessions of the recipient (ClientSocketManager::handlePacket).   *)
(*                                                                         *)
(* The first packet of a message carries a name and as much of the text as *)
(* there is room for; the others carry text alone.  All carry the number   *)
(* of bytes that remained before them.  One packet written, sent or read   *)
(* is a step.  TCP hands packets over whole and in order here.  Sessions   *)
(* do not come or go: that is Falcon's subject.                            *)
(***************************************************************************)
EXTENDS Naturals, Sequences

CONSTANTS
  Session,             \* the connections of logged-in clients
  User,
  connectedUser,       \* the user of each
  NameSize,            \* the length of each user's name
  PACKET_BUFFER_SIZE,
  Outgoing,            \* the messages each client sends: [id, to, size]
  NoName,              \* what is not a name, in a packet that carries none
  Free,                \* the holder of a mutex that nobody holds
  Junk                 \* bytes of a buffer that nobody wrote

\* The room for text beside a name: it must be at least one byte, or
\* write_to_packet would write the first packet again and again.
FirstRoom(u) == PACKET_BUFFER_SIZE - 10 - (IF u \in User THEN NameSize[u] ELSE 0)
Room == PACKET_BUFFER_SIZE - 9

ASSUME UserAssumption == connectedUser \in [Session -> User] /\ NoName \notin User
ASSUME NameAssumption == NameSize \in [User -> Nat] /\ \A u \in User : NameSize[u] > 0
ASSUME SizeAssumption ==
  PACKET_BUFFER_SIZE \in Nat /\ \A u \in User : NameSize[u] + 10 < PACKET_BUFFER_SIZE
ASSUME FreeAssumption == Free \notin Session
ASSUME OutgoingAssumption ==
  Outgoing \in [Session -> Seq([id : Nat, to : User, size : Nat])]

VARIABLES
  todo,      \* todo[s]: the messages the client of s has to send
  sending,   \* sending[s]: its messageSend, or none
  up,        \* up[s]: the packets on their way to the server
  handler,   \* handler[s]: the handleClient thread of s
  mutex,     \* mutex[s]: the thread that holds socketMutexes[s]
  wire,      \* wire[s]: all packets the server has sent over s
  arrived,   \* arrived[s]: how many of them the client's socket has
  taken,     \* taken[s]: how many of them the client has taken from it
  client,    \* client[s]: the client in handlePacket, and whether it ever read early
  shown      \* shown[s]: the messages it has shown

vars == <<todo, sending, up, handler, mutex, wire, arrived, taken, client, shown>>
clientVars == <<arrived, taken, client, shown>>

-----------------------------------------------------------------------------
(* messageSend and messageForward: the same but for whose name they carry   *)

\* The bytes of a message.
Text(m) == [i \in 1..m.size |-> <<m.id, i>>]

Least(a, b) == IF a < b THEN a ELSE b

\* A message being written: bytes_remaining is its whole size at first.
Writer(name, text) == [name |-> name, text |-> text, remaining |-> Len(text)]
None == Writer(NoName, <<>>)

Writing(w) == w.remaining = Len(w.text)

writeable(w) == Least(IF Writing(w) THEN FirstRoom(w.name) ELSE Room, w.remaining)

\* Mutated: bytes_remaining is written after it is counted down.
write_to_packet_Late(w, type) ==
  LET from == Len(w.text) - w.remaining
  IN [type |-> type, remaining |-> w.remaining - writeable(w),
      name |-> IF Writing(w) THEN w.name ELSE NoName,
      part |-> SubSeq(w.text, from + 1, from + writeable(w))]

\* Mutated: the last packet takes all there is room for.
Wrote_Room(w) ==
  [w EXCEPT !.remaining = @ - (IF Writing(w) THEN FirstRoom(w.name) ELSE Room)]

\* The packet that write_to_packet writes, and the writer after it.
write_to_packet(w, type) ==
  LET from == Len(w.text) - w.remaining
  IN [type |-> type, remaining |-> w.remaining,
      name |-> IF Writing(w) THEN w.name ELSE NoName,
      part |-> SubSeq(w.text, from + 1, from + writeable(w))]

Wrote(w) == [w EXCEPT !.remaining = @ - writeable(w)]

\* The last n bytes before the null at the end of the packet.
Last(p, n) ==
  [i \in 1..n |-> IF i + Len(p.part) > n THEN p.part[i + Len(p.part) - n] ELSE Junk]

\* The constructor from a buffer.
ReadFirst(p) ==
  LET readable == Least(FirstRoom(p.name), p.remaining)
  IN [name |-> p.name, text |-> Last(p, readable), remaining |-> p.remaining - readable]

\* read_from_packet throws unless the packet carries on where the reader is.
Fits(r, type, p) == p.type = type /\ p.remaining = r.remaining
ReadMore(r, p) ==
  LET readable == Least(Room, r.remaining)
  IN [r EXCEPT !.text = @ \o Last(p, readable), !.remaining = @ - readable]

JunkPacket == [type |-> "junk", remaining |-> 0, name |-> NoName, part |-> <<>>]
Response == [type |-> "response", remaining |-> 0, name |-> NoName, part |-> <<>>]
NoReader == [name |-> NoName, text |-> <<>>, remaining |-> 0]

Init ==
  /\ todo = Outgoing
  /\ sending = [s \in Session |-> None]
  /\ up = [s \in Session |-> <<>>]
  /\ handler = [s \in Session |-> [pc |-> "recv", reader |-> NoReader,
                                   writer |-> None, targets |-> {}]]
  /\ mutex = [s \in Session |-> Free]
  /\ wire = [s \in Session |-> <<>>]
  /\ arrived = [s \in Session |-> 0]
  /\ taken = [s \in Session |-> 0]
  /\ client = [s \in Session |-> [pc |-> "idle", reader |-> NoReader, buffer |-> JunkPacket,
                                  early |-> FALSE]]
  /\ shown = [s \in Session |-> <<>>]

-----------------------------------------------------------------------------
(* The sending client *)

Begin(s) ==
  /\ sending[s] = None
  /\ todo[s] # <<>>
  /\ sending' = [sending EXCEPT ![s] = Writer(Head(todo[s]).to, Text(Head(todo[s])))]
  /\ todo' = [todo EXCEPT ![s] = Tail(@)]
  /\ UNCHANGED <<up, handler, mutex, wire, clientVars>>

\* A turn of sendMessage's loop, which the last packet ends.
Write(s) ==
  LET w == Wrote(sending[s])
  IN /\ sending[s] # None
     /\ up' = [up EXCEPT ![s] = Append(@, write_to_packet(sending[s], "send"))]
     /\ sending' = [sending EXCEPT ![s] = IF w.remaining = 0 THEN None ELSE w]
     /\ UNCHANGED <<todo, handler, mutex, wire, clientVars>>

-----------------------------------------------------------------------------
(* The server *)

Sessions(u) == {s \in Session : connectedUser[s] = u}

\* A message that is complete is forwarded, to everyone with the same writer;
\* if the recipient has no session, that is answered.
Complete(s, r) ==
  handler' = [handler EXCEPT ![s] =
    IF r.remaining > 0 THEN [@ EXCEPT !.pc = "more", !.reader = r]
    ELSE [pc |-> IF Sessions(r.name) = {} THEN "respond" ELSE "forward",
          reader |-> r, writer |-> Writer(connectedUser[s], r.text),
          targets |-> Sessions(r.name)]]

Receive(s) ==
  /\ handler[s].pc = "recv"
  /\ up[s] # <<>>
  /\ Complete(s, ReadFirst(Head(up[s])))
  /\ up' = [up EXCEPT ![s] = Tail(@)]
  /\ UNCHANGED <<todo, sending, mutex, wire, clientVars>>

ReceiveMore(s) ==
  /\ handler[s].pc = "more"
  /\ up[s] # <<>>
  /\ IF Fits(handler[s].reader, "send", Head(up[s]))
       THEN Complete(s, ReadMore(handler[s].reader, Head(up[s])))
       ELSE handler' = [handler EXCEPT ![s].pc = "thrown"]
  /\ up' = [up EXCEPT ![s] = Tail(@)]
  /\ UNCHANGED <<todo, sending, mutex, wire, clientVars>>

\* The next target of sendOutPacket.
Lock(s, k) ==
  /\ handler[s].pc = "forward"
  /\ k \in handler[s].targets
  /\ mutex[k] = Free
  /\ mutex' = [mutex EXCEPT ![k] = s]
  /\ handler' = [handler EXCEPT ![s].pc = "sending"]
  /\ UNCHANGED <<todo, sending, up, wire, clientVars>>

\* What becomes of the handler when it has served k.
Served(h, k) ==
  [h EXCEPT !.targets = @ \ {k},
            !.pc = IF h.targets = {k} THEN "respond" ELSE "forward"]

\* Mutated: the mutex is held for one packet at a time.
Send_Unlocked(s, k) ==
  LET w == Wrote(handler[s].writer)
      h == [handler[s] EXCEPT !.writer = w]
  IN /\ handler[s].pc = "sending"
     /\ mutex[k] = s
     /\ wire' = [wire EXCEPT ![k] = Append(@, write_to_packet(handler[s].writer, "forward"))]
     /\ mutex' = [mutex EXCEPT ![k] = Free]
     /\ handler' = [handler EXCEPT ![s] =
                      IF w.remaining = 0 THEN Served(h, k) ELSE [h EXCEPT !.pc = "forward"]]
     /\ UNCHANGED <<todo, sending, up, clientVars>>

\* A turn of the loop that writes and sends to k, which the last packet ends.
Send(s, k) ==
  LET w == Wrote(handler[s].writer)
      h == [handler[s] EXCEPT !.writer = w]
  IN /\ handler[s].pc = "sending"
     /\ mutex[k] = s
     /\ wire' = [wire EXCEPT ![k] = Append(@, write_to_packet(handler[s].writer, "forward"))]
     /\ IF w.remaining = 0
          THEN /\ mutex' = [mutex EXCEPT ![k] = Free]
               /\ handler' = [handler EXCEPT ![s] = Served(h, k)]
          ELSE handler' = [handler EXCEPT ![s] = h] /\ UNCHANGED mutex
     /\ UNCHANGED <<todo, sending, up, clientVars>>

\* The MESSAGE_RESPONSE, under the mutex of s.
Respond(s) ==
  /\ handler[s].pc = "respond"
  /\ mutex[s] = Free
  /\ wire' = [wire EXCEPT ![s] = Append(@, Response)]
  /\ handler' = [handler EXCEPT ![s].pc = "recv"]
  /\ UNCHANGED <<todo, sending, up, mutex, clientVars>>

-----------------------------------------------------------------------------
(* The receiving client *)

\* Between two calls of handlePacket the event loop fetches what has come.
Arrive(k) ==
  /\ client[k].pc = "idle"
  /\ taken[k] = arrived[k]
  /\ \E n \in (arrived[k] + 1)..Len(wire[k]) : arrived' = [arrived EXCEPT ![k] = n]
  /\ UNCHANGED <<todo, sending, up, handler, mutex, wire, taken, client, shown>>

Show(k, r) == shown' = [shown EXCEPT ![k] = Append(@, [name |-> r.name, text |-> r.text])]

\* Mutated: what has come with a packet is dropped when the packet is handled.
Handle_DropsRest(k) ==
  LET p == wire[k][taken[k] + 1]
      r == ReadFirst(p)
  IN /\ client[k].pc = "idle"
     /\ taken[k] < arrived[k]
     /\ taken' = [taken EXCEPT ![k] = arrived[k]]
     /\ IF p.type = "forward" THEN Show(k, r) ELSE UNCHANGED shown
     /\ UNCHANGED <<client, todo, sending, up, handler, mutex, wire, arrived>>

\* handlePacket: the array buffer on its stack is not initialized; it may hold
\* what the last call left there.
Handle(k) ==
  LET p == wire[k][taken[k] + 1]
      r == ReadFirst(p)
  IN /\ client[k].pc = "idle"
     /\ taken[k] < arrived[k]
     /\ taken' = [taken EXCEPT ![k] = @ + 1]
     /\ IF p.type = "response" THEN UNCHANGED <<client, shown>>
        ELSE IF r.remaining = 0 THEN Show(k, r) /\ UNCHANGED client
        ELSE /\ \E b \in {client[k].buffer, JunkPacket} :
                  client' = [client EXCEPT ![k] = [@ EXCEPT !.pc = "more", !.reader = r, !.buffer = b]]
             /\ UNCHANGED shown
     /\ UNCHANGED <<todo, sending, up, handler, mutex, wire, arrived>>

\* sock->read does not wait: when no packet has come, buffer stays as it is,
\* and read_from_packet reads it again.
HandleMore(k) ==
  LET come == taken[k] < arrived[k]
      b == IF come THEN wire[k][taken[k] + 1] ELSE client[k].buffer
      r == ReadMore(client[k].reader, b)
      pc == IF ~Fits(client[k].reader, "forward", b) THEN "thrown"
            ELSE IF r.remaining = 0 THEN "idle" ELSE "more"
  IN /\ client[k].pc = "more"
     /\ taken' = IF come THEN [taken EXCEPT ![k] = @ + 1] ELSE taken
     /\ client' = [client EXCEPT ![k] = [pc |-> pc, reader |-> r, buffer |-> b,
                                        early |-> @.early \/ ~come]]
     /\ IF pc = "idle" THEN Show(k, r) ELSE UNCHANGED shown
     /\ UNCHANGED <<todo, sending, up, handler, mutex, wire, arrived>>

-----------------------------------------------------------------------------

\* Everything that was to be sent has been sent, forwarded and shown, or a
\* program has ended on an exception.
Finished ==
  /\ \A s \in Session :
       /\ todo[s] = <<>> /\ sending[s] = None /\ up[s] = <<>>
       /\ handler[s].pc \in {"recv", "thrown"}
       /\ client[s].pc = "thrown" \/ (client[s].pc = "idle" /\ taken[s] = Len(wire[s]))
  /\ UNCHANGED vars

Serve(s) ==
  \/ Begin(s) \/ Write(s)
  \/ Receive(s) \/ ReceiveMore(s) \/ Respond(s)
  \/ \E k \in Session : Lock(s, k) \/ Send(s, k)

Read(k) == Arrive(k) \/ Handle(k) \/ HandleMore(k)

Next == (\E s \in Session : Serve(s) \/ Read(s)) \/ Finished

Spec == Init /\ [][Next]_vars

\* Clients write what they have begun to write, TCP delivers, and the threads
\* and event loops run.
FairSpec == Spec /\ \A s \in Session : WF_vars(Serve(s)) /\ WF_vars(Read(s))

-----------------------------------------------------------------------------
(* Properties *)

Posts == [id : Nat, to : User, size : Nat]
Bytes == {Junk} \cup (Nat \X Nat)
Names == User \cup {NoName}
Buffers == [name : Names, text : Seq(Bytes), remaining : Nat]
Packets == [type : {"send", "forward", "response", "junk"}, remaining : Nat,
            name : Names, part : Seq(Bytes)]

\* Every variable has its type: no writer and no reader counts the bytes that
\* remain below zero, though they subtract what there is room for.
TypeOK ==
  /\ todo \in [Session -> Seq(Posts)]
  /\ sending \in [Session -> Buffers]
  /\ up \in [Session -> Seq(Packets)]
  /\ handler \in [Session -> [pc : {"recv", "more", "forward", "sending", "respond", "thrown"},
                              reader : Buffers, writer : Buffers, targets : SUBSET Session]]
  /\ mutex \in [Session -> Session \cup {Free}]
  /\ wire \in [Session -> Seq(Packets)]
  /\ arrived \in [Session -> Nat] /\ taken \in [Session -> Nat]
  /\ client \in [Session -> [pc : {"idle", "more", "thrown"}, reader : Buffers,
                             buffer : Packets, early : BOOLEAN]]
  /\ shown \in [Session -> Seq([name : Names, text : Seq(Bytes)])]

Posted(s) == {Outgoing[s][j] : j \in DOMAIN Outgoing[s]}

\* What handleClient puts together from the packets of a client is a message
\* that the client sent, all of it, to the name it was for; no packet makes
\* read_from_packet throw.
ReadsWhatWasSent ==
  \A s \in Session :
    /\ handler[s].pc # "thrown"
    /\ handler[s].pc \in {"forward", "sending", "respond"} =>
         \E m \in Posted(s) : handler[s].reader.name = m.to /\ handler[s].reader.text = Text(m)

\* The packets of a message stand together on the connection they are sent
\* over, in order, whoever else sends over it: after one that is not the last
\* comes the next, or the mutex is still held.
Unfinished(p) == p.type = "forward" /\ p.remaining > Len(p.part)
PacketsTogether ==
  \A k \in Session : \A i \in DOMAIN wire[k] :
    Unfinished(wire[k][i]) =>
      IF i = Len(wire[k]) THEN mutex[k] # Free
      ELSE LET p == wire[k][i]
               q == wire[k][i + 1]
           IN /\ q.type = "forward"
              /\ q.remaining = p.remaining - Len(p.part)
              /\ Head(q.part) = <<p.part[Len(p.part)][1], p.part[Len(p.part)][2] + 1>>

\* What a client shows is a message that the user it names sent to its user,
\* all of it, and no packet ends the client ("assert(lnd.message == msg)" of
\* what was written and read packet by packet, test/packet_test.cpp:50).
ShownRight(k) ==
  /\ client[k].pc # "thrown"
  /\ \A i \in DOMAIN shown[k] : \E s \in Session : \E m \in Posted(s) :
       /\ m.to = connectedUser[k]
       /\ shown[k][i] = [name |-> connectedUser[s], text |-> Text(m)]

ShownIsSent == \A k \in Session : ShownRight(k)

\* So it is with a client that never read a packet before it had arrived.
ArrivedIsShownRight == \A k \in Session : client[k].early \/ ShownRight(k)

\* Every message is shown in the end by every session of its recipient that
\* never reads a packet before it has arrived.
EachIsShown ==
  \A s \in Session : \A m \in Posted(s) : \A k \in Sessions(m.to) :
    <>(\/ client[k].early
       \/ \E i \in DOMAIN shown[k] :
            shown[k][i] = [name |-> connectedUser[s], text |-> Text(m)])
=============================================================================
