--------------------------- MODULE MessagesProofs ---------------------------
(***************************************************************************)
(* Theorems about Messages, for any sessions, users, messages and size of  *)
(* packets: what the server puts together is what a client sent; packets   *)
(* of a message stand together on every connection; and what a client      *)
(* shows is right if all packets had come and users have one session each. *)
(*                                                                         *)
(* The packets on their way to a reader, with the one its writer is about  *)
(* to write, are followed as one sequence, in which each packet carries on *)
(* where the one before it ends.                                           *)
(***************************************************************************)
EXTENDS Messages, SequenceTheorems, TLAPS

-----------------------------------------------------------------------------
(* Letters, and the packets that carry them *)

\* What a message says: a name, the recipient's on its way to the server and
\* the sender's from there, and a text.
Letters == [name : User, text : Seq(Bytes)]
Letter(u, m) == [name |-> u, text |-> Text(m)]

SentBy(s) == {Letter(m.to, m) : m \in Posted(s)}
SentTo(k) == UNION {{Letter(connectedUser[s], m) :
                       m \in {x \in Posted(s) : x.to = connectedUser[k]}} : s \in Session}

\* The writer, the reader and the packet at a place of a letter.
WriterAt(l, o) == [name |-> l.name, text |-> l.text, remaining |-> Len(l.text) - o]
ReaderAt(l, o) == [name |-> l.name, text |-> SubSeq(l.text, 1, o), remaining |-> Len(l.text) - o]
PacketAt(l, o, type) == write_to_packet(WriterAt(l, o), type)
After(l, o) == o + writeable(WriterAt(l, o))

Ends(p) == p.remaining = Len(p.part)

\* p is not the last packet of its letter, and q is the next one.
CarriesOn(L, type, p, q) ==
  \E l \in L : \E o \in 0..Len(l.text) :
    /\ After(l, o) < Len(l.text)
    /\ p = PacketAt(l, o, type)
    /\ q = PacketAt(l, After(l, o), type)

\* Each packet of ps carries on where the one before ends, or is a first one.
Linked(ps, First, L, type) ==
  \A i \in 1..(Len(ps) - 1) :
    IF Ends(ps[i]) THEN ps[i + 1] \in First ELSE CarriesOn(L, type, ps[i], ps[i + 1])

-----------------------------------------------------------------------------
(* From a client to the server *)

\* The packets on their way to the server, and the one the client writes next.
Coming(s) ==
  IF sending[s] = None THEN up[s] ELSE Append(up[s], write_to_packet(sending[s], "send"))

\* The first packets of the messages a client sends.
FirstOf(s) == {PacketAt(l, 0, "send") : l \in SentBy(s)}

\* The client is at the end of a message, or at a place inside one.
SenderInv(s) ==
  /\ \A j \in DOMAIN todo[s] : todo[s][j] \in Posted(s)
  /\ IF sending[s] = None
       THEN Coming(s) # <<>> => Ends(Coming(s)[Len(Coming(s))])
       ELSE \E l \in SentBy(s) : \E o \in 0..Len(l.text) :
              (o = 0 \/ o < Len(l.text)) /\ sending[s] = WriterAt(l, o)

\* The handler has put together what the packets so far say.
ReaderInv(s) ==
  /\ handler[s].pc # "thrown"
  /\ IF handler[s].pc = "more"
       THEN /\ Coming(s) # <<>>
            /\ \E l \in SentBy(s) : \E o \in 1..(Len(l.text) - 1) :
                 handler[s].reader = ReaderAt(l, o) /\ Coming(s)[1] = PacketAt(l, o, "send")
       ELSE Coming(s) # <<>> => Coming(s)[1] \in FirstOf(s)

\* The letter a handler has read.
HasRead(s) ==
  handler[s].pc \in {"forward", "sending", "respond"} =>
    \E l \in SentBy(s) : handler[s].reader = ReaderAt(l, Len(l.text))

UpAt(s) ==
  /\ Linked(Coming(s), FirstOf(s), SentBy(s), "send")
  /\ SenderInv(s) /\ ReaderInv(s) /\ HasRead(s)

UpInv == \A s \in Session : UpAt(s)

-----------------------------------------------------------------------------
(* From the server to the clients *)

\* No user has two sessions.
OneEach == \A a, b \in Session : connectedUser[a] = connectedUser[b] => a = b

\* What a handler passes on.
Passed(s) == [name |-> connectedUser[s], text |-> handler[s].reader.text]

\* The writer of a handler is new when a session is begun with, unless another
\* session of the recipient has used it up.
WriterInv(s) ==
  handler[s].pc \in {"forward", "sending"} =>
    /\ handler[s].targets \subseteq Sessions(handler[s].reader.name)
    /\ \E o \in 0..Len(Passed(s).text) :
         /\ handler[s].writer = WriterAt(Passed(s), o)
         /\ handler[s].pc = "forward" => o = 0 \/ o = Len(Passed(s).text)
         /\ o = 0 \/ o < Len(Passed(s).text) \/ ~OneEach

\* The holder of a mutex is sending over its connection, and holds no other.
MutexInv ==
  \A k \in Session : mutex[k] # Free =>
    /\ handler[mutex[k]].pc = "sending"
    /\ k \in handler[mutex[k]].targets
    /\ \A j \in Session : mutex[j] = mutex[k] => j = k

\* The packets for a client, and the one the holder of the mutex sends next.
Going(k) ==
  IF mutex[k] = Free THEN wire[k]
  ELSE Append(wire[k], write_to_packet(handler[mutex[k]].writer, "forward"))

\* What may follow a whole message: a response, or another message.
FirstTo(k) ==
  {PacketAt(l, 0, "forward") : l \in SentTo(k)} \cup {Response}
  \cup IF OneEach THEN {} ELSE {PacketAt(l, Len(l.text), "forward") : l \in SentTo(k)}

\* Packets of a message follow each other, and a free mutex is between messages.
WireAt(k) ==
  /\ Linked(Going(k), FirstTo(k), SentTo(k), "forward")
  /\ Going(k) # <<>> => Going(k)[1] \in FirstTo(k)
  /\ mutex[k] = Free /\ wire[k] # <<>> => Ends(wire[k][Len(wire[k])])

DownInv ==
  /\ \A s \in Session : WriterInv(s)
  /\ MutexInv
  /\ \A k \in Session : WireAt(k)

-----------------------------------------------------------------------------
(* The receiving client *)

\* A client takes what has arrived, and what has arrived was sent.
PlacesInv == \A k \in Session : taken[k] <= arrived[k] /\ arrived[k] <= Len(wire[k])

\* A client that never read early has read as far as the packet it took last.
ClientAt(k) ==
  ~client[k].early =>
    /\ client[k].pc # "thrown"
    /\ client[k].pc = "idle" /\ taken[k] > 0 => Ends(wire[k][taken[k]])
    /\ client[k].pc = "more" =>
         /\ taken[k] > 0
         /\ \E l \in SentTo(k) : \E o \in 0..Len(l.text) :
              /\ After(l, o) < Len(l.text)
              /\ wire[k][taken[k]] = PacketAt(l, o, "forward")
              /\ client[k].reader = ReaderAt(l, After(l, o))
    /\ \A i \in DOMAIN shown[k] : shown[k][i] \in SentTo(k)

ClientInv == \A k \in Session : ClientAt(k)

-----------------------------------------------------------------------------
(* Packets and buffers *)

Writers == {b \in Buffers : b.remaining <= Len(b.text)}

\* A function on 1..n is a sequence of length n.
LEMMA IsSequence ==
  ASSUME NEW S, NEW n \in Nat, NEW f \in [1..n -> S]
  PROVE  f \in Seq(S) /\ Len(f) = n
<1>1. f \in Seq(S)
  BY SeqDef
<1>2. Len(f) \in Nat /\ DOMAIN f = 1..Len(f)
  BY <1>1, LenProperties
<1>3. 1..Len(f) = 1..n
  BY <1>2
<1>4. Len(f) = n
  <2>1. CASE n > Len(f)
    <3>1. n \in 1..n /\ n \notin 1..Len(f)
      BY <2>1, <1>2
    <3> QED BY <3>1, <1>3
  <2>2. CASE Len(f) > n
    <3>1. Len(f) \in 1..Len(f) /\ Len(f) \notin 1..n
      BY <2>2, <1>2
    <3> QED BY <3>1, <1>3
  <2> QED BY <2>1, <2>2, <1>2
<1> QED BY <1>1, <1>4

\* A part of a sequence.
LEMMA Slice ==
  ASSUME NEW S, NEW t \in Seq(S), NEW a \in Nat, NEW n \in Nat, a + n <= Len(t)
  PROVE  /\ SubSeq(t, a + 1, a + n) \in Seq(S) /\ Len(SubSeq(t, a + 1, a + n)) = n
         /\ \A i \in 1..n : SubSeq(t, a + 1, a + n)[i] = t[a + i]
<1> DEFINE b == a + 1
           c == a + n
<1>1. b \in Int /\ c \in Int /\ Len(t) \in Nat
  BY LenProperties
<1>2. \A i \in b..c : t[i] \in S
  <2> TAKE i \in b..c
  <2>1. i \in 1..Len(t)
    BY <1>1
  <2> QED BY <2>1, ElementOfSeq
<1>3. c - b + 1 = n /\ (b <= c <=> n > 0) /\ \A i \in 1..n : b + i - 1 = a + i
  OBVIOUS
<1> HIDE DEF b, c
<1>4. /\ SubSeq(t, b, c) \in Seq(S)
      /\ Len(SubSeq(t, b, c)) = IF b <= c THEN c - b + 1 ELSE 0
      /\ \A i \in 1..(c - b + 1) : SubSeq(t, b, c)[i] = t[b + i - 1]
  BY <1>1, <1>2, SubSeqProperties
<1>5. Len(SubSeq(t, b, c)) = n /\ \A i \in 1..n : SubSeq(t, b, c)[i] = t[a + i]
  BY <1>3, <1>4
<1> QED BY <1>4, <1>5 DEF b, c

\* There is room in every packet (write_to_packet gets on).
LEMMA Rooms ==
  ASSUME NEW s \in Session, NEW u \in Names
  PROVE  FirstRoom(u) \in Nat \ {0} /\ Room \in Nat \ {0}
<1>1. connectedUser[s] \in User
  BY UserAssumption
<1>2. NameSize[connectedUser[s]] + 10 < PACKET_BUFFER_SIZE /\ NameSize[connectedUser[s]] \in Nat
      /\ NameSize[connectedUser[s]] > 0
  BY <1>1, SizeAssumption, NameAssumption
<1>3. PACKET_BUFFER_SIZE \in Nat /\ PACKET_BUFFER_SIZE > 11
  BY <1>2, SizeAssumption
<1>4. CASE u \in User
  <2>1. NameSize[u] + 10 < PACKET_BUFFER_SIZE /\ NameSize[u] \in Nat
    BY <1>4, SizeAssumption, NameAssumption
  <2> QED BY <2>1, <1>3, <1>4 DEF FirstRoom, Room
<1>5. CASE u \notin User
  BY <1>3, <1>5 DEF FirstRoom, Room
<1> QED BY <1>4, <1>5

\* write_to_packet takes the text from where the writer is, at least a byte
\* while there is one.
LEMMA Written ==
  ASSUME NEW s \in Session, NEW w \in Writers, NEW type \in {"send", "forward"}
  PROVE  LET p == write_to_packet(w, type)
         IN /\ p \in Packets
            /\ p.type = type /\ p.remaining = w.remaining
            /\ p.name = IF Writing(w) THEN w.name ELSE NoName
            /\ p.part = SubSeq(w.text, Len(w.text) - w.remaining + 1,
                               Len(w.text) - w.remaining + writeable(w))
            /\ Len(p.part) = writeable(w)
            /\ \A i \in 1..writeable(w) : p.part[i] = w.text[Len(w.text) - w.remaining + i]
            /\ writeable(w) \in 0..w.remaining
            /\ w.remaining > 0 => writeable(w) > 0
            /\ Wrote(w) \in Writers
            /\ Wrote(w) = [name |-> w.name, text |-> w.text,
                           remaining |-> w.remaining - writeable(w)]
<1> DEFINE n == writeable(w)
           from == Len(w.text) - w.remaining
           part == SubSeq(w.text, from + 1, from + n)
<1>1. w \in Buffers /\ w.remaining <= Len(w.text) /\ w.name \in Names
      /\ w.text \in Seq(Bytes) /\ w.remaining \in Nat /\ Len(w.text) \in Nat
      /\ w = [name |-> w.name, text |-> w.text, remaining |-> w.remaining]
  BY LenProperties DEF Writers, Buffers
<1>2. FirstRoom(w.name) \in Nat \ {0} /\ Room \in Nat \ {0}
  BY <1>1, Rooms
<1>3. n \in 0..w.remaining /\ (w.remaining > 0 => n > 0)
  BY <1>1, <1>2 DEF writeable, Least
<1> HIDE DEF n
<1>4. from \in Nat /\ from + n <= Len(w.text) /\ n \in Nat
  BY <1>1, <1>3
<1> HIDE DEF from
<1>5. /\ part \in Seq(Bytes) /\ Len(part) = n
      /\ \A i \in 1..n : part[i] = w.text[from + i]
  BY <1>1, <1>4, Slice
<1> HIDE DEF part
<1>6. NoName \in Names
  BY DEF Names
<1>7. write_to_packet(w, type) =
         [type |-> type, remaining |-> w.remaining,
          name |-> IF Writing(w) THEN w.name ELSE NoName, part |-> part]
  BY DEF write_to_packet, part, from, n
<1>8. Wrote(w) = [name |-> w.name, text |-> w.text, remaining |-> w.remaining - n]
  BY <1>1 DEF Wrote, n
<1>9. Wrote(w) \in Writers
  <2>1. w.remaining - n \in Nat /\ w.remaining - n <= Len(w.text)
    BY <1>1, <1>3
  <2> QED BY <2>1, <1>8, <1>1 DEF Writers, Buffers
<1>10. write_to_packet(w, type) \in Packets
  BY <1>7, <1>5, <1>6, <1>1 DEF Packets
<1> QED BY SMTT(30), <1>7, <1>8, <1>9, <1>10, <1>3, <1>5 DEF part, from, n

\* The last n bytes of a packet, of which some may be junk, are bytes; as many
\* as it carries are what it carries.
LEMMA LastBytes ==
  ASSUME NEW p \in Packets, NEW n \in Nat
  PROVE  /\ Last(p, n) \in Seq(Bytes) /\ Len(Last(p, n)) = n
         /\ n = Len(p.part) => Last(p, n) = p.part
<1>1. p.part \in Seq(Bytes) /\ Len(p.part) \in Nat
  BY LenProperties DEF Packets
<1>2. Last(p, n) \in [1..n -> Bytes]
  <2>1. \A i \in 1..n : i + Len(p.part) > n => p.part[i + Len(p.part) - n] \in Bytes
    <3> SUFFICES ASSUME NEW i \in 1..n, i + Len(p.part) > n
                 PROVE  p.part[i + Len(p.part) - n] \in Bytes
      OBVIOUS
    <3>1. i + Len(p.part) - n \in 1..Len(p.part)
      BY <1>1
    <3> QED BY <3>1, <1>1, ElementOfSeq
  <2>2. Junk \in Bytes
    BY DEF Bytes
  <2> QED BY <2>1, <2>2 DEF Last
<1>3. Last(p, n) \in Seq(Bytes) /\ Len(Last(p, n)) = n
  BY <1>2, IsSequence
<1>4. ASSUME n = Len(p.part)
      PROVE  Last(p, n) = p.part
  <2>1. \A i \in 1..n : Last(p, n)[i] = p.part[i]
    <3> TAKE i \in 1..n
    <3>1. i + Len(p.part) > n /\ i + Len(p.part) - n = i
      BY <1>1, <1>4
    <3> QED BY <3>1 DEF Last
  <2> QED BY <2>1, <1>1, <1>3, <1>4, SeqEqual
<1> QED BY <1>3, <1>4

\* Readers never count below zero, whatever the packet holds.
LEMMA ReadersTyped ==
  ASSUME NEW s \in Session, NEW p \in Packets, NEW r \in Buffers
  PROVE  ReadFirst(p) \in Buffers /\ ReadMore(r, p) \in Buffers
<1>1. p.name \in Names /\ p.remaining \in Nat /\ r.name \in Names /\ r.remaining \in Nat
      /\ r.text \in Seq(Bytes)
      /\ r = [name |-> r.name, text |-> r.text, remaining |-> r.remaining]
  BY DEF Packets, Buffers
<1>2. FirstRoom(p.name) \in Nat /\ Room \in Nat
  BY <1>1, Rooms
<1>3. ReadFirst(p) \in Buffers
  <2> DEFINE n == Least(FirstRoom(p.name), p.remaining)
  <2>1. n \in Nat /\ p.remaining - n \in Nat
    BY <1>1, <1>2 DEF Least
  <2> HIDE DEF n
  <2>2. Last(p, n) \in Seq(Bytes)
    BY <2>1, LastBytes
  <2>3. ReadFirst(p) = [name |-> p.name, text |-> Last(p, n), remaining |-> p.remaining - n]
    BY DEF ReadFirst, n
  <2> QED BY <2>1, <2>2, <2>3, <1>1 DEF Buffers
<1>4. ReadMore(r, p) \in Buffers
  <2> DEFINE n == Least(Room, r.remaining)
             t == r.text \o Last(p, n)
             m == r.remaining - n
  <2>1. n \in Nat /\ m \in Nat
    BY <1>1, <1>2 DEF Least
  <2>2. ReadMore(r, p) = [r EXCEPT !.text = t, !.remaining = m]
    BY DEF ReadMore
  <2> HIDE DEF n
  <2>3. t \in Seq(Bytes)
    BY <2>1, <1>1, LastBytes, ConcatProperties
  <2> HIDE DEF t, m
  <2>4. [r EXCEPT !.text = t, !.remaining = m] \in Buffers
    BY <2>1, <2>3 DEF Buffers
  <2> QED BY <2>2, <2>4
<1> QED BY <1>3, <1>4

-----------------------------------------------------------------------------
(* Letters in packets *)

\* The bytes of a message.
LEMMA TextBytes ==
  ASSUME NEW m \in Posts
  PROVE  /\ Text(m) \in Seq(Bytes) /\ Len(Text(m)) = m.size
         /\ \A i \in 1..m.size : Text(m)[i] = <<m.id, i>>
<1>1. m.id \in Nat /\ m.size \in Nat
  BY DEF Posts
<1>2. Text(m) \in [1..m.size -> Bytes]
  BY <1>1 DEF Text, Bytes
<1>3. \A i \in 1..m.size : Text(m)[i] = <<m.id, i>>
  BY DEF Text
<1> QED BY <1>1, <1>2, <1>3, IsSequence

\* What clients post.
LEMMA PostsSent ==
  ASSUME NEW s \in Session
  PROVE  /\ Outgoing[s] \in Seq(Posts)
         /\ Posted(s) \subseteq Posts
         /\ \A l \in SentBy(s) : l \in Letters /\ \E m \in Posts : l.text = Text(m)
         /\ \A l \in SentTo(s) : l \in Letters /\ \E m \in Posts : l.text = Text(m)
<1>1. Outgoing[s] \in Seq(Posts)
  BY OutgoingAssumption DEF Posts
<1>2. \A r \in Session : Posted(r) \subseteq Posts
  <2> TAKE r \in Session
  <2>1. Outgoing[r] \in Seq(Posts)
    BY OutgoingAssumption DEF Posts
  <2>2. \A j \in DOMAIN Outgoing[r] : Outgoing[r][j] \in Posts
    BY <2>1, LenProperties, ElementOfSeq
  <2> QED BY <2>2 DEF Posted
<1>3. \A u \in User, m \in Posts : Letter(u, m) \in Letters /\ Letter(u, m).text = Text(m)
  BY TextBytes DEF Letter, Letters
<1>4. ASSUME NEW l \in SentBy(s)
      PROVE  l \in Letters /\ \E m \in Posts : l.text = Text(m)
  <2>1. PICK m \in Posted(s) : l = Letter(m.to, m)
    BY <1>4 DEF SentBy
  <2>2. m \in Posts /\ m.to \in User
    BY <1>2 DEF Posts
  <2> QED BY <2>1, <2>2, <1>3
<1>5. ASSUME NEW l \in SentTo(s)
      PROVE  l \in Letters /\ \E m \in Posts : l.text = Text(m)
  <2>1. PICK r \in Session : \E m \in Posted(r) : l = Letter(connectedUser[r], m)
    BY <1>5 DEF SentTo
  <2>2. PICK m \in Posted(r) : l = Letter(connectedUser[r], m)
    BY <2>1
  <2>3. m \in Posts /\ connectedUser[r] \in User
    BY <1>2, UserAssumption
  <2> QED BY <2>2, <2>3, <1>3
<1> QED BY <1>1, <1>2, <1>4, <1>5

\* A writer at a place of a letter, the packet it writes and where it is then.
LEMMA AtPlace ==
  ASSUME NEW s \in Session, NEW l \in Letters, NEW o \in 0..Len(l.text),
         NEW type \in {"send", "forward"}
  PROVE  LET p == PacketAt(l, o, type)
             a == After(l, o)
         IN /\ WriterAt(l, o) \in Writers
            /\ a \in o..Len(l.text) /\ (o < Len(l.text) => o < a)
            /\ Wrote(WriterAt(l, o)) = WriterAt(l, a)
            /\ p \in Packets /\ p.type = type /\ p.remaining = Len(l.text) - o
            /\ p.name = IF o = 0 THEN l.name ELSE NoName
            /\ p.part = SubSeq(l.text, o + 1, a) /\ Len(p.part) = a - o
            /\ \A i \in 1..(a - o) : p.part[i] = l.text[o + i]
            /\ Ends(p) <=> a = Len(l.text)
<1> DEFINE w == WriterAt(l, o)
           p == write_to_packet(w, type)
           n == writeable(w)
<1>1. l.name \in User /\ l.text \in Seq(Bytes) /\ Len(l.text) \in Nat /\ o \in Nat
      /\ o <= Len(l.text)
  BY LenProperties DEF Letters
<1>2. w.name = l.name /\ w.text = l.text /\ w.remaining = Len(l.text) - o
  BY DEF WriterAt
<1>3. w \in Writers
  BY <1>1 DEF WriterAt, Writers, Buffers, Names
<1>4. Writing(w) <=> o = 0
  BY <1>1, <1>2 DEF Writing
<1>5. After(l, o) = o + n
  BY DEF After
<1>6. Len(w.text) - w.remaining = o
  BY <1>1, <1>2
<1> HIDE DEF w
<1>7. /\ p \in Packets /\ p.type = type /\ p.remaining = w.remaining
      /\ p.name = IF o = 0 THEN l.name ELSE NoName
      /\ p.part = SubSeq(w.text, o + 1, o + n)
      /\ Len(p.part) = n
      /\ \A i \in 1..n : p.part[i] = w.text[o + i]
      /\ n \in 0..w.remaining
      /\ w.remaining > 0 => n > 0
      /\ Wrote(w) = [name |-> w.name, text |-> w.text, remaining |-> w.remaining - n]
  <2> DEFINE from == Len(w.text) - w.remaining
  <2>1. /\ p \in Packets /\ p.type = type /\ p.remaining = w.remaining
        /\ p.name = IF Writing(w) THEN w.name ELSE NoName
        /\ p.part = SubSeq(w.text, from + 1, from + n)
        /\ Len(p.part) = n
        /\ \A i \in 1..n : p.part[i] = w.text[from + i]
        /\ n \in 0..w.remaining
        /\ w.remaining > 0 => n > 0
        /\ Wrote(w) = [name |-> w.name, text |-> w.text, remaining |-> w.remaining - n]
    BY <1>3, Written
  <2>2. from = o
    BY <1>6
  <2> HIDE DEF from, p, n
  <2> QED BY <1>2, <1>4, <2>1, <2>2
<1>8. PacketAt(l, o, type) = p
  BY DEF PacketAt, w
<1> HIDE DEF p, n
<1>9. (o + n) - o = n /\ o + n \in o..Len(l.text) /\ (o < Len(l.text) => o < o + n)
      /\ w.remaining - n = Len(l.text) - (o + n)
  <2>1. n \in 0..(Len(l.text) - o) /\ (Len(l.text) - o > 0 => n > 0)
    BY <1>2, <1>7
  <2> QED BY <1>1, <1>2, <2>1
<1>10. Wrote(w) = WriterAt(l, o + n)
  BY <1>2, <1>7, <1>9 DEF WriterAt
<1>11. Ends(p) <=> o + n = Len(l.text)
  <2>1. p.remaining = Len(l.text) - o /\ Len(p.part) = n /\ n \in 0..(Len(l.text) - o)
    BY <1>2, <1>7
  <2> QED BY <1>1, <2>1 DEF Ends
<1> QED BY <1>2, <1>3, <1>5, <1>7, <1>8, <1>9, <1>10, <1>11 DEF w

\* Readers read from the first packet what it carries.
LEMMA ReadBack ==
  ASSUME NEW s \in Session, NEW l \in Letters, NEW type \in {"send", "forward"}
  PROVE  ReadFirst(PacketAt(l, 0, type)) = ReaderAt(l, After(l, 0))
<1> DEFINE p == PacketAt(l, 0, type)
           a == After(l, 0)
<1>1. l.name \in User /\ l.text \in Seq(Bytes) /\ Len(l.text) \in Nat /\ 0 \in 0..Len(l.text)
  BY LenProperties DEF Letters
<1>2. /\ p \in Packets /\ p.name = l.name /\ p.remaining = Len(l.text)
      /\ a \in 0..Len(l.text) /\ Len(p.part) = a /\ p.part = SubSeq(l.text, 1, a)
  <2>1. /\ p \in Packets /\ p.name = (IF 0 = 0 THEN l.name ELSE NoName)
        /\ p.remaining = Len(l.text) - 0
        /\ a \in 0..Len(l.text) /\ Len(p.part) = a - 0 /\ p.part = SubSeq(l.text, 0 + 1, a)
    <3> HIDE DEF p, a
    <3> QED BY <1>1, AtPlace DEF p, a
  <2> HIDE DEF p, a
  <2> QED BY <2>1, <1>1
<1>3. a = Least(FirstRoom(l.name), Len(l.text))
  BY <1>1, Rooms DEF After, WriterAt, writeable, Writing, Least, Names
<1> HIDE DEF p, a
<1>4. Last(p, a) = p.part
  BY <1>2, LastBytes
<1>5. ReadFirst(p) = [name |-> l.name, text |-> SubSeq(l.text, 1, a), remaining |-> Len(l.text) - a]
  BY <1>2, <1>3, <1>4 DEF ReadFirst
<1> QED BY <1>5 DEF ReaderAt, p, a

\* ... and from the others: none makes read_from_packet throw.
LEMMA ReadOn ==
  ASSUME NEW s \in Session, NEW l \in Letters, NEW o \in 1..(Len(l.text) - 1),
         NEW type \in {"send", "forward"}
  PROVE  /\ Fits(ReaderAt(l, o), type, PacketAt(l, o, type))
         /\ ReadMore(ReaderAt(l, o), PacketAt(l, o, type)) = ReaderAt(l, After(l, o))
<1> DEFINE p == PacketAt(l, o, type)
           a == After(l, o)
           r == ReaderAt(l, o)
<1>1. l.name \in User /\ l.text \in Seq(Bytes) /\ Len(l.text) \in Nat /\ o \in 0..Len(l.text)
      /\ o # 0 /\ o \in Nat
  BY LenProperties DEF Letters
<1>2. /\ p \in Packets /\ p.type = type /\ p.remaining = Len(l.text) - o
      /\ a \in o..Len(l.text) /\ Len(p.part) = a - o /\ p.part = SubSeq(l.text, o + 1, a)
  BY <1>1, AtPlace
<1>3. a = o + Least(Room, Len(l.text) - o)
  BY <1>1 DEF After, WriterAt, writeable, Writing
<1>4. a - o = Least(Room, Len(l.text) - o) /\ a \in Nat
      /\ a - o \in Nat /\ (Len(l.text) - o) - (a - o) = Len(l.text) - a
  <2> DEFINE t == Least(Room, Len(l.text) - o)
  <2>1. t \in Nat
    BY <1>1, Rooms DEF Least, Names
  <2>2. a = o + t /\ a \in Nat
    BY <1>1, <1>3, <2>1
  <2> HIDE DEF a, t
  <2>3. a - o = t /\ (Len(l.text) - o) - (a - o) = Len(l.text) - a
    BY <1>1, <2>1, <2>2
  <2> QED BY <2>1, <2>2, <2>3 DEF t
<1> HIDE DEF p, a
<1>5. Last(p, a - o) = p.part
  BY <1>2, <1>4, LastBytes
<1>6. SubSeq(l.text, 1, o) \o SubSeq(l.text, o + 1, a) = SubSeq(l.text, 1, a)
  <2>1. 1 \in 1..(Len(l.text) + 1) /\ o \in (1 - 1)..Len(l.text) /\ a \in o..Len(l.text)
    BY <1>1, <1>2
  <2> QED BY <2>1, <1>1, ConcatAdjacentSubSeq
<1>7. r.name = l.name /\ r.text = SubSeq(l.text, 1, o) /\ r.remaining = Len(l.text) - o
  BY DEF ReaderAt
<1> HIDE DEF r
<1>8. ReadMore(r, p) = [r EXCEPT !.text = SubSeq(l.text, 1, a), !.remaining = Len(l.text) - a]
  BY <1>2, <1>4, <1>5, <1>6, <1>7 DEF ReadMore
<1>9. [r EXCEPT !.text = SubSeq(l.text, 1, a), !.remaining = Len(l.text) - a] = ReaderAt(l, a)
  <2> DEFINE t == SubSeq(l.text, 1, a)
             n == Len(l.text) - a
             u == SubSeq(l.text, 1, o)
             e == Len(l.text) - o
  <2>1. r = [name |-> l.name, text |-> u, remaining |-> e]
    BY DEF ReaderAt, r
  <2> HIDE DEF t, n, u, e
  <2>2. r \in [name : {l.name}, text : {u}, remaining : {e}]
    BY <2>1
  <2> HIDE DEF r
  <2>3. [r EXCEPT !.text = t, !.remaining = n] \in [name : {l.name}, text : {t}, remaining : {n}]
    BY <2>2
  <2>4. \A x \in [name : {l.name}, text : {t}, remaining : {n}] :
          x = [name |-> l.name, text |-> t, remaining |-> n]
    OBVIOUS
  <2> QED BY <2>3, <2>4 DEF ReaderAt, t, n
<1>10. Fits(r, type, p)
  BY <1>2, <1>7 DEF Fits
<1> QED BY <1>8, <1>9, <1>10 DEF p, a, r

\* A packet that is not the last of its letter tells which packet is next.
LEMMA NextPacket ==
  ASSUME NEW s \in Session, NEW type \in {"send", "forward"},
         NEW l \in Letters, NEW m \in Posts, l.text = Text(m), NEW o \in 0..Len(l.text),
         NEW k \in Letters, NEW n \in Posts, k.text = Text(n), NEW e \in 0..Len(k.text),
         PacketAt(l, o, type) = PacketAt(k, e, type), After(l, o) < Len(l.text)
  PROVE  /\ o = e /\ After(l, o) = After(k, e) /\ l.text = k.text
         /\ PacketAt(l, After(l, o), type) = PacketAt(k, After(k, e), type)
<1> DEFINE p == PacketAt(l, o, type)
           a == After(l, o)
           b == After(k, e)
<1>1. l.text \in Seq(Bytes) /\ Len(l.text) \in Nat /\ k.text \in Seq(Bytes) /\ Len(k.text) \in Nat
      /\ o \in Nat /\ e \in Nat
  BY LenProperties DEF Letters
<1>2. /\ a \in o..Len(l.text) /\ (o < Len(l.text) => o < a) /\ Len(p.part) = a - o
      /\ p.remaining = Len(l.text) - o
      /\ \A i \in 1..(a - o) : p.part[i] = l.text[o + i]
  BY AtPlace
<1>3. /\ b \in e..Len(k.text) /\ Len(p.part) = b - e
      /\ p.remaining = Len(k.text) - e
      /\ \A i \in 1..(b - e) : p.part[i] = k.text[e + i]
  <2> DEFINE q == PacketAt(k, e, type)
  <2>1. /\ b \in e..Len(k.text) /\ Len(q.part) = b - e
        /\ q.remaining = Len(k.text) - e
        /\ \A i \in 1..(b - e) : q.part[i] = k.text[e + i]
    BY AtPlace
  <2>2. p = q
    OBVIOUS
  <2> HIDE DEF p, q, b
  <2> QED BY <2>1, <2>2
<1>4. a < Len(l.text)
  OBVIOUS
<1> HIDE DEF p, a, b
<1>5. o < a /\ 1 \in 1..(a - o) /\ 1 \in 1..(b - e) /\ o + 1 \in 1..Len(l.text)
      /\ e + 1 \in 1..Len(k.text)
  BY <1>1, <1>2, <1>3, <1>4
<1>6. l.text[o + 1] = k.text[e + 1]
  BY <1>2, <1>3, <1>5
<1>7. l.text[o + 1] = <<m.id, o + 1>> /\ k.text[e + 1] = <<n.id, e + 1>>
  BY <1>5, TextBytes
<1>8. m.id = n.id /\ o = e
  <2>1. <<m.id, o + 1>> = <<n.id, e + 1>>
    BY <1>6, <1>7
  <2>2. m.id = n.id /\ o + 1 = e + 1
    BY <2>1
  <2> QED BY <2>2, <1>1
<1>9. Len(l.text) = Len(k.text) /\ a = b
  BY <1>1, <1>2, <1>3, <1>8
<1>10. l.text = k.text
  BY ZenonT(30), <1>8, <1>9, TextBytes DEF Text
<1>11. write_to_packet(WriterAt(l, a), type) = write_to_packet(WriterAt(k, a), type)
  <2> DEFINE v == WriterAt(l, a)
             w == WriterAt(k, a)
  <2>1. v.text = w.text /\ v.remaining = w.remaining /\ ~Writing(v) /\ ~Writing(w)
    BY <1>1, <1>2, <1>5, <1>10 DEF WriterAt, Writing
  <2> HIDE DEF v, w
  <2>2. writeable(v) = writeable(w)
    BY <2>1 DEF writeable
  <2>3. write_to_packet(v, type) = write_to_packet(w, type)
    BY <2>1, <2>2 DEF write_to_packet
  <2> QED BY <2>3 DEF v, w
<1> QED BY <1>8, <1>9, <1>10, <1>11 DEF PacketAt, a, b

-----------------------------------------------------------------------------
(* Types *)

Handlers == [pc : {"recv", "more", "forward", "sending", "respond", "thrown"},
             reader : Buffers, writer : Writers, targets : SUBSET Session]
Clients == [pc : {"idle", "more", "thrown"}, reader : Buffers, buffer : Packets,
            early : BOOLEAN]
Shows == [name : Names, text : Seq(Bytes)]

\* TypeOK alone is not inductive: a writer must have as much text as it counts,
\* and a client reads at places where there is a packet.
Typed ==
  /\ todo \in [Session -> Seq(Posts)]
  /\ sending \in [Session -> Writers]
  /\ up \in [Session -> Seq(Packets)]
  /\ handler \in [Session -> Handlers]
  /\ mutex \in [Session -> Session \cup {Free}]
  /\ wire \in [Session -> Seq(Packets)]
  /\ arrived \in [Session -> Nat] /\ taken \in [Session -> Nat]
  /\ client \in [Session -> Clients]
  /\ shown \in [Session -> Seq(Shows)]
  /\ PlacesInv

\* Typed says all that TypeOK says.
LEMMA TypedIsTyped == Typed => TypeOK
<1>1. Writers \subseteq Buffers
  BY DEF Writers
<1>2. Handlers \subseteq [pc : {"recv", "more", "forward", "sending", "respond", "thrown"},
                          reader : Buffers, writer : Buffers, targets : SUBSET Session]
  BY <1>1 DEF Handlers
<1> QED BY <1>1, <1>2 DEF Typed, TypeOK, Clients, Shows

\* The writer, reader and packets that stand for nothing have their types.
LEMMA NothingTyped ==
  /\ None \in Writers /\ NoReader \in Buffers
  /\ JunkPacket \in Packets /\ Response \in Packets
<1>1. <<>> \in Seq(Bytes) /\ Len(<<>>) = 0
  BY EmptySeq
<1> QED BY <1>1 DEF None, Writer, NoReader, JunkPacket, Response, Writers, Buffers, Packets, Names

\* The programs start with no message on its way.
LEMMA TypedInit == Init => Typed
<1> SUFFICES ASSUME Init PROVE Typed
  OBVIOUS
<1>1. /\ \A S : <<>> \in Seq(S)
      /\ Len(<<>>) = 0
  BY EmptySeq
<1>2. todo \in [Session -> Seq(Posts)]
  BY OutgoingAssumption DEF Init, Posts
<1>3. handler \in [Session -> Handlers] /\ client \in [Session -> Clients]
  BY NothingTyped DEF Init, Handlers, Clients
<1>4. PlacesInv
  BY <1>1 DEF Init, PlacesInv
<1> QED BY <1>1, <1>2, <1>3, <1>4, NothingTyped DEF Init, Typed

\* A writer of a whole text.
LEMMA NewWriter ==
  ASSUME NEW u \in Names, NEW t \in Seq(Bytes)
  PROVE  Writer(u, t) \in Writers
BY LenProperties DEF Writer, Writers, Buffers

\* A client begins its next message.
LEMMA TypedBegin ==
  ASSUME Typed, NEW s \in Session, Begin(s)
  PROVE  Typed'
<1> DEFINE m == Head(todo[s])
<1>1. todo[s] \in Seq(Posts) /\ todo[s] # <<>>
  BY DEF Typed, Begin
<1>2. m \in Posts /\ Tail(todo[s]) \in Seq(Posts)
  BY <1>1, HeadTailProperties
<1>3. m.to \in Names
  BY <1>2 DEF Posts, Names
<1> HIDE DEF m
<1>4. Writer(m.to, Text(m)) \in Writers
  BY <1>2, <1>3, TextBytes, NewWriter
<1>5. sending' \in [Session -> Writers] /\ todo' \in [Session -> Seq(Posts)]
  BY <1>2, <1>4 DEF Typed, Begin, m
<1>6. PlacesInv'
  BY DEF Typed, PlacesInv, Begin, clientVars
<1> QED BY <1>5, <1>6 DEF Typed, Begin, clientVars

\* A client writes a packet of it.
LEMMA TypedWrite ==
  ASSUME Typed, NEW s \in Session, Write(s)
  PROVE  Typed'
<1>1. sending[s] \in Writers /\ up[s] \in Seq(Packets)
  BY DEF Typed
<1>2. write_to_packet(sending[s], "send") \in Packets /\ Wrote(sending[s]) \in Writers
  BY <1>1, Written
<1>3. Append(up[s], write_to_packet(sending[s], "send")) \in Seq(Packets)
  BY <1>1, <1>2, AppendProperties
<1>4. up' \in [Session -> Seq(Packets)]
  BY <1>3 DEF Typed, Write
<1>5. sending' \in [Session -> Writers]
  BY <1>2, NothingTyped DEF Typed, Write
<1>6. PlacesInv'
  BY DEF Typed, PlacesInv, Write, clientVars
<1> QED BY <1>4, <1>5, <1>6 DEF Typed, Write, clientVars

\* A message completed, or not, by what was read.
LEMMA TypedComplete ==
  ASSUME Typed, NEW s \in Session, NEW r \in Buffers, Complete(s, r)
  PROVE  handler' \in [Session -> Handlers]
<1>1. connectedUser[s] \in Names
  BY UserAssumption DEF Names
<1>2. Writer(connectedUser[s], r.text) \in Writers
  BY <1>1, NewWriter DEF Buffers
<1>3. Sessions(r.name) \subseteq Session
  BY DEF Sessions
<1>4. handler[s] \in Handlers
  BY DEF Typed
<1>5. [handler[s] EXCEPT !.pc = "more", !.reader = r] \in Handlers
  BY <1>4 DEF Handlers
<1>6. [pc |-> IF Sessions(r.name) = {} THEN "respond" ELSE "forward",
       reader |-> r, writer |-> Writer(connectedUser[s], r.text),
       targets |-> Sessions(r.name)] \in Handlers
  BY <1>2, <1>3 DEF Handlers
<1> QED BY <1>5, <1>6 DEF Complete, Typed

\* A handler reads a packet, and may have the whole message.
LEMMA TypedReceive ==
  ASSUME Typed, NEW s \in Session, Receive(s) \/ ReceiveMore(s)
  PROVE  Typed'
<1> DEFINE p == Head(up[s])
<1>1. up[s] \in Seq(Packets) /\ up[s] # <<>>
  BY DEF Typed, Receive, ReceiveMore
<1>2. p \in Packets /\ Tail(up[s]) \in Seq(Packets)
  BY <1>1, HeadTailProperties
<1>3. handler[s] \in Handlers /\ handler[s].reader \in Buffers
  BY DEF Typed, Handlers
<1> HIDE DEF p
<1>4. ReadFirst(p) \in Buffers /\ ReadMore(handler[s].reader, p) \in Buffers
  BY <1>2, <1>3, ReadersTyped
<1>5. handler' \in [Session -> Handlers]
  <2>1. CASE Receive(s)
    BY <2>1, <1>4, TypedComplete DEF Receive, p
  <2>2. CASE ReceiveMore(s) /\ Complete(s, ReadMore(handler[s].reader, p))
    BY <2>2, <1>4, TypedComplete
  <2>3. CASE ReceiveMore(s) /\ handler' = [handler EXCEPT ![s].pc = "thrown"]
    <3>1. [handler[s] EXCEPT !.pc = "thrown"] \in Handlers
      BY <1>3 DEF Handlers
    <3> QED BY <2>3, <3>1 DEF Typed
  <2> QED BY <2>1, <2>2, <2>3 DEF ReceiveMore, p
<1>6. up' \in [Session -> Seq(Packets)]
  BY <1>2 DEF Typed, Receive, ReceiveMore
<1>7. PlacesInv'
  BY DEF Typed, PlacesInv, Receive, ReceiveMore, clientVars
<1> QED BY <1>5, <1>6, <1>7 DEF Typed, Receive, ReceiveMore, clientVars

\* A handler takes the mutex of a session and writes a packet for it.
LEMMA TypedLock ==
  ASSUME Typed, NEW s \in Session, NEW k \in Session, Lock(s, k)
  PROVE  Typed'
<1>1. [handler[s] EXCEPT !.pc = "sending"] \in Handlers
  <2>1. handler[s] \in Handlers
    BY DEF Typed
  <2> QED BY <2>1 DEF Handlers
<1>2. handler' \in [Session -> Handlers] /\ mutex' \in [Session -> Session \cup {Free}]
  BY <1>1 DEF Typed, Lock
<1>3. PlacesInv'
  BY DEF Typed, PlacesInv, Lock, clientVars
<1> QED BY <1>2, <1>3 DEF Typed, Lock, clientVars

\* One more packet over a connection disturbs no place in it.
LEMMA TypedAppend ==
  ASSUME Typed, NEW k \in Session, NEW p \in Packets,
         wire' = [wire EXCEPT ![k] = Append(@, p)],
         UNCHANGED <<arrived, taken>>
  PROVE  wire' \in [Session -> Seq(Packets)] /\ PlacesInv'
<1>1. wire[k] \in Seq(Packets)
  BY DEF Typed
<1>2. Append(wire[k], p) \in Seq(Packets) /\ Len(Append(wire[k], p)) = Len(wire[k]) + 1
  BY <1>1, AppendProperties
<1>3. wire' \in [Session -> Seq(Packets)]
  BY <1>2 DEF Typed
<1>4. ASSUME NEW j \in Session
      PROVE  taken'[j] <= arrived'[j] /\ arrived'[j] <= Len(wire'[j])
  <2>1. taken[j] \in Nat /\ arrived[j] \in Nat /\ taken[j] <= arrived[j] /\ arrived[j] <= Len(wire[j])
        /\ wire[j] \in Seq(Packets)
    BY DEF Typed, PlacesInv
  <2>2. Len(wire[j]) \in Nat
    BY <2>1, LenProperties
  <2>3. wire'[j] = IF j = k THEN Append(wire[k], p) ELSE wire[j]
    BY DEF Typed
  <2>4. Len(wire'[j]) >= Len(wire[j])
    BY <2>2, <2>3, <1>2
  <2>5. Len(wire'[j]) \in Nat
    BY <2>2, <2>3, <1>2
  <2> QED BY <2>1, <2>2, <2>4, <2>5
<1> QED BY <1>3, <1>4 DEF PlacesInv

\* It sends the packet, and goes on with the next packet or session.
LEMMA TypedSend ==
  ASSUME Typed, NEW s \in Session, NEW k \in Session, Send(s, k)
  PROVE  Typed'
<1> DEFINE w == Wrote(handler[s].writer)
           h == [handler[s] EXCEPT !.writer = w]
<1>1. handler[s] \in Handlers /\ handler[s].writer \in Writers
  BY DEF Typed, Handlers
<1>2. write_to_packet(handler[s].writer, "forward") \in Packets /\ w \in Writers
  BY <1>1, Written
<1> HIDE DEF w
<1>3. h \in Handlers
  BY <1>1, <1>2 DEF Handlers
<1> HIDE DEF h
<1>4. Served(h, k) \in Handlers
  <2>1. h.targets \ {k} \in SUBSET Session
    BY <1>3 DEF Handlers
  <2> QED BY <1>3, <2>1 DEF Served, Handlers
<1>5. handler' = [handler EXCEPT ![s] = Served(h, k)] \/ handler' = [handler EXCEPT ![s] = h]
  BY DEF Send, h, w
<1>6. handler' \in [Session -> Handlers]
  BY <1>3, <1>4, <1>5 DEF Typed
<1>7. mutex' \in [Session -> Session \cup {Free}]
  BY DEF Typed, Send
<1>8. wire' \in [Session -> Seq(Packets)] /\ PlacesInv'
  BY <1>2, TypedAppend DEF Send, clientVars
<1> QED BY <1>6, <1>7, <1>8 DEF Typed, Send, clientVars

\* It answers the sender.
LEMMA TypedRespond ==
  ASSUME Typed, NEW s \in Session, Respond(s)
  PROVE  Typed'
<1>1. [handler[s] EXCEPT !.pc = "recv"] \in Handlers
  <2>1. handler[s] \in Handlers
    BY DEF Typed
  <2> QED BY <2>1 DEF Handlers
<1>2. handler' \in [Session -> Handlers]
  BY <1>1 DEF Typed, Respond
<1>3. wire' \in [Session -> Seq(Packets)] /\ PlacesInv'
  BY NothingTyped, TypedAppend DEF Respond, clientVars
<1> QED BY <1>2, <1>3 DEF Typed, Respond, clientVars

\* Showing what was read.
LEMMA TypedShow ==
  ASSUME Typed, NEW k \in Session, NEW r \in Buffers, Show(k, r)
  PROVE  shown' \in [Session -> Seq(Shows)]
<1>1. [name |-> r.name, text |-> r.text] \in Shows
  BY DEF Buffers, Shows
<1>2. shown[k] \in Seq(Shows)
  BY DEF Typed
<1>3. Append(shown[k], [name |-> r.name, text |-> r.text]) \in Seq(Shows)
  BY <1>1, <1>2, AppendProperties
<1> QED BY <1>3 DEF Typed, Show

\* The packet a client takes next, when one has arrived.
LEMMA NextTaken ==
  ASSUME Typed, NEW k \in Session, taken[k] < arrived[k]
  PROVE  /\ taken[k] + 1 \in 1..Len(wire[k])
         /\ wire[k][taken[k] + 1] \in Packets
<1>1. taken[k] \in Nat /\ arrived[k] \in Nat /\ arrived[k] <= Len(wire[k]) /\ wire[k] \in Seq(Packets)
  BY DEF Typed, PlacesInv
<1>2. taken[k] + 1 \in 1..Len(wire[k])
  BY <1>1, LenProperties
<1> QED BY <1>1, <1>2, ElementOfSeq

\* A client that takes a packet stays within what has arrived.
LEMMA TypedTake ==
  ASSUME Typed, NEW k \in Session, UNCHANGED <<wire, arrived>>,
         \/ taken' = taken
         \/ taken' = [taken EXCEPT ![k] = @ + 1] /\ taken[k] < arrived[k]
  PROVE  taken' \in [Session -> Nat] /\ PlacesInv'
<1>1. CASE taken' = taken
  BY <1>1 DEF Typed, PlacesInv
<1>2. CASE taken' = [taken EXCEPT ![k] = @ + 1] /\ taken[k] < arrived[k]
  <2>1. taken' \in [Session -> Nat]
    BY <1>2 DEF Typed
  <2>2. ASSUME NEW j \in Session
        PROVE  taken'[j] <= arrived[j] /\ arrived[j] <= Len(wire[j])
    <3>1. taken[j] \in Nat /\ arrived[j] \in Nat /\ taken[j] <= arrived[j] /\ arrived[j] <= Len(wire[j])
      BY DEF Typed, PlacesInv
    <3>2. taken'[j] = IF j = k THEN taken[k] + 1 ELSE taken[j]
      BY <1>2 DEF Typed
    <3> QED BY <3>1, <3>2, <1>2
  <2> QED BY <2>1, <2>2 DEF PlacesInv
<1> QED BY <1>1, <1>2

\* A packet arrives.
LEMMA TypedArrive ==
  ASSUME Typed, NEW k \in Session, Arrive(k)
  PROVE  Typed'
<1>1. PICK n \in (arrived[k] + 1)..Len(wire[k]) : arrived' = [arrived EXCEPT ![k] = n]
  BY DEF Arrive
<1>2. arrived[k] \in Nat /\ wire[k] \in Seq(Packets)
  BY DEF Typed
<1>3. n \in Nat /\ n > arrived[k] /\ n <= Len(wire[k])
  BY <1>2, LenProperties
<1>4. arrived' \in [Session -> Nat]
  BY <1>1, <1>3 DEF Typed
<1>5. ASSUME NEW j \in Session
      PROVE  taken[j] <= arrived'[j] /\ arrived'[j] <= Len(wire[j])
  <2>1. taken[j] \in Nat /\ arrived[j] \in Nat /\ taken[j] <= arrived[j] /\ arrived[j] <= Len(wire[j])
    BY DEF Typed, PlacesInv
  <2>2. arrived'[j] = IF j = k THEN n ELSE arrived[j]
    BY <1>1 DEF Typed
  <2> QED BY <2>1, <2>2, <1>3
<1>6. PlacesInv'
  BY <1>5 DEF PlacesInv, Arrive
<1> QED BY <1>4, <1>6 DEF Typed, Arrive

\* The client reads the first packet of those that have come.
LEMMA TypedHandle ==
  ASSUME Typed, NEW k \in Session, Handle(k)
  PROVE  Typed'
<1> DEFINE p == wire[k][taken[k] + 1]
           r == ReadFirst(p)
<1>1. p \in Packets
  BY NextTaken DEF Handle
<1> HIDE DEF p
<1>2. r \in Buffers
  BY <1>1, NothingTyped, ReadersTyped
<1> HIDE DEF r
<1>3. taken' \in [Session -> Nat] /\ PlacesInv'
  BY TypedTake DEF Handle
<1>4. client' \in [Session -> Clients]
  <2>1. client[k] \in Clients /\ client[k].buffer \in Packets
    BY DEF Typed, Clients
  <2>2. \A b \in {client[k].buffer, JunkPacket} :
          [client[k] EXCEPT !.pc = "more", !.reader = r, !.buffer = b] \in Clients
    <3> TAKE b \in {client[k].buffer, JunkPacket}
    <3>1. b \in Packets
      BY <2>1, NothingTyped
    <3> QED BY <2>1, <3>1, <1>2 DEF Clients
  <2>3. \/ client' = client
        \/ \E b \in {client[k].buffer, JunkPacket} :
             client' = [client EXCEPT ![k] = [@ EXCEPT !.pc = "more", !.reader = r, !.buffer = b]]
    BY DEF Handle, r, p
  <2> QED BY <2>2, <2>3 DEF Typed
<1>5. shown' = shown \/ Show(k, r)
  BY DEF Handle, r, p
<1>6. shown' \in [Session -> Seq(Shows)]
  BY <1>2, <1>5, TypedShow DEF Typed
<1> QED BY <1>3, <1>4, <1>6 DEF Typed, Handle

\* It reads the next packet of the message, or the buffer as it was.
LEMMA TypedHandleMore ==
  ASSUME Typed, NEW k \in Session, HandleMore(k)
  PROVE  Typed'
<1> DEFINE come == taken[k] < arrived[k]
           b == IF come THEN wire[k][taken[k] + 1] ELSE client[k].buffer
           r == ReadMore(client[k].reader, b)
           pc == IF ~Fits(client[k].reader, "forward", b) THEN "thrown"
                 ELSE IF r.remaining = 0 THEN "idle" ELSE "more"
           c == [pc |-> pc, reader |-> r, buffer |-> b, early |-> client[k].early \/ ~come]
<1>1. client[k] \in Clients /\ client[k].reader \in Buffers /\ client[k].buffer \in Packets
      /\ client[k].early \in BOOLEAN
  BY DEF Typed, Clients
<1>2. b \in Packets
  BY <1>1, NextTaken
<1>3. /\ taken' = IF come THEN [taken EXCEPT ![k] = @ + 1] ELSE taken
      /\ client' = [client EXCEPT ![k] = c]
      /\ shown' = shown \/ Show(k, r)
      /\ UNCHANGED <<todo, sending, up, handler, mutex, wire, arrived>>
  BY DEF HandleMore
<1>4. taken' \in [Session -> Nat] /\ PlacesInv'
  BY <1>3, TypedTake
<1> HIDE DEF b, come
<1>5. r \in Buffers
  BY <1>1, <1>2, ReadersTyped
<1>6. pc \in {"idle", "more", "thrown"}
  OBVIOUS
<1> HIDE DEF r, pc
<1>7. c \in Clients
  <2>1. (client[k].early \/ ~come) \in BOOLEAN
    BY <1>1
  <2> QED BY <2>1, <1>2, <1>5, <1>6 DEF Clients
<1> HIDE DEF c
<1>8. client' \in [Session -> Clients]
  BY <1>3, <1>7 DEF Typed
<1>9. shown' \in [Session -> Seq(Shows)]
  BY <1>3, <1>5, TypedShow DEF Typed
<1> QED BY <1>3, <1>4, <1>8, <1>9 DEF Typed

\* Every step keeps the types.
LEMMA TypedNext == Typed /\ [Next]_vars => Typed'
<1> SUFFICES ASSUME Typed, [Next]_vars PROVE Typed'
  OBVIOUS
<1>1. CASE UNCHANGED vars
  BY <1>1 DEF vars, Typed, PlacesInv
<1>2. ASSUME NEW s \in Session, Serve(s)
      PROVE  Typed'
  BY <1>2, TypedBegin, TypedWrite, TypedReceive, TypedRespond, TypedLock, TypedSend DEF Serve
<1>3. ASSUME NEW k \in Session, Read(k)
      PROVE  Typed'
  BY <1>3, TypedArrive, TypedHandle, TypedHandleMore DEF Read
<1> QED BY <1>1, <1>2, <1>3 DEF Next, Finished

\* So they are kept always.
LEMMA AlwaysTyped == Spec => []Typed
BY TypedInit, TypedNext, PTL DEF Spec

\* Every variable has its type: no writer and no reader counts below zero the
\* bytes that remain (write_to_packet, read_from_packet), and no client takes a
\* packet that has not been sent.
THEOREM MessagesTyped == Spec => []TypeOK
BY AlwaysTyped, TypedIsTyped, PTL

-----------------------------------------------------------------------------
(* Linked packets *)

\* When a sequence is empty, and where its head is.
LEMMA Lengths ==
  ASSUME NEW S, NEW t \in Seq(S)
  PROVE  /\ Len(t) \in Nat /\ DOMAIN t = 1..Len(t)
         /\ t = <<>> => Len(t) = 0
         /\ t # <<>> => Len(t) > 0 /\ Head(t) = t[1]
<1>1. Len(t) \in Nat /\ DOMAIN t = 1..Len(t)
  BY LenProperties
<1>2. t = <<>> => Len(t) = 0
  BY EmptySeq
<1>3. t # <<>> => Len(t) \in Nat \ {0}
  BY EmptySeq
<1>4. t # <<>> => Head(t) = t[1]
  OBVIOUS
<1> QED BY <1>1, <1>2, <1>3, <1>4

\* A packet is added that is a first one, or carries on where the last ends.
LEMMA LinkedAppend ==
  ASSUME NEW ps \in Seq(Packets), NEW q \in Packets, NEW F, NEW L, NEW type,
         Linked(ps, F, L, type),
         ps # <<>> => IF Ends(ps[Len(ps)]) THEN q \in F ELSE CarriesOn(L, type, ps[Len(ps)], q)
  PROVE  /\ Linked(Append(ps, q), F, L, type)
         /\ Append(ps, q) \in Seq(Packets) /\ Append(ps, q) # <<>>
         /\ Append(ps, q)[Len(Append(ps, q))] = q
         /\ Append(ps, q)[1] = IF ps = <<>> THEN q ELSE ps[1]
<1> DEFINE r == Append(ps, q)
<1>1. /\ r \in Seq(Packets) /\ r # <<>> /\ Len(r) = Len(ps) + 1
      /\ \A i \in 1..Len(ps) : r[i] = ps[i]
      /\ r[Len(ps) + 1] = q
  BY AppendProperties
<1>2. Len(ps) \in Nat /\ (ps # <<>> => Len(ps) > 0) /\ (ps = <<>> => Len(ps) = 0)
  BY Lengths
<1> HIDE DEF r
<1>3. ASSUME NEW i \in 1..(Len(r) - 1)
      PROVE  IF Ends(r[i]) THEN r[i + 1] \in F ELSE CarriesOn(L, type, r[i], r[i + 1])
  <2>1. i \in 1..Len(ps) /\ r[i] = ps[i]
    BY <1>1, <1>2
  <2>2. CASE i = Len(ps)
    <3>1. r[i + 1] = q /\ ps # <<>>
      BY <1>1, <1>2, <2>1, <2>2
    <3> QED BY <2>1, <2>2, <3>1
  <2>3. CASE i # Len(ps)
    <3>1. i \in 1..(Len(ps) - 1) /\ i + 1 \in 1..Len(ps)
      BY <2>1, <2>3, <1>2
    <3>2. r[i + 1] = ps[i + 1]
      BY <1>1, <3>1
    <3> QED BY <2>1, <3>1, <3>2 DEF Linked
  <2> QED BY <2>2, <2>3
<1>4. Linked(r, F, L, type)
  BY <1>3 DEF Linked
<1>5. r[1] = IF ps = <<>> THEN q ELSE ps[1]
  BY <1>1, <1>2
<1> QED BY <1>1, <1>4, <1>5 DEF r

\* The first packet is taken away.
LEMMA LinkedTail ==
  ASSUME NEW ps \in Seq(Packets), ps # <<>>, NEW F, NEW L, NEW type,
         Linked(ps, F, L, type)
  PROVE  /\ Linked(Tail(ps), F, L, type)
         /\ Head(ps) = ps[1]
         /\ Tail(ps) = <<>> => ps[Len(ps)] = ps[1]
         /\ Tail(ps) # <<>> =>
              /\ Tail(ps)[Len(Tail(ps))] = ps[Len(ps)]
              /\ IF Ends(ps[1]) THEN Tail(ps)[1] \in F ELSE CarriesOn(L, type, ps[1], Tail(ps)[1])
<1> DEFINE r == Tail(ps)
<1>1. r \in Seq(Packets) /\ Len(r) = Len(ps) - 1 /\ \A i \in 1..Len(r) : r[i] = ps[i + 1]
  BY HeadTailProperties
<1> HIDE DEF r
<1>2. Len(ps) \in Nat \ {0} /\ Len(r) \in Nat /\ (r # <<>> => Len(r) > 0) /\ (r = <<>> => Len(r) = 0)
  <2>1. Len(ps) \in Nat /\ Len(ps) > 0
    BY Lengths
  <2> QED BY <1>1, <2>1, Lengths
<1>3. Head(ps) = ps[1]
  BY Lengths
<1>4. ASSUME NEW i \in 1..(Len(r) - 1)
      PROVE  IF Ends(r[i]) THEN r[i + 1] \in F ELSE CarriesOn(L, type, r[i], r[i + 1])
  <2>1. i \in 1..Len(r) /\ i + 1 \in 1..Len(r) /\ i + 1 \in 1..(Len(ps) - 1)
    BY <1>1, <1>2
  <2>2. r[i] = ps[i + 1] /\ r[i + 1] = ps[(i + 1) + 1]
    BY <1>1, <2>1
  <2> QED BY <2>1, <2>2 DEF Linked
<1>5. Linked(r, F, L, type)
  BY <1>4 DEF Linked
<1>6. ASSUME r # <<>>
      PROVE  /\ r[Len(r)] = ps[Len(ps)]
             /\ IF Ends(ps[1]) THEN r[1] \in F ELSE CarriesOn(L, type, ps[1], r[1])
  <2>1. Len(r) \in 1..Len(r) /\ 1 \in 1..Len(r) /\ Len(r) + 1 = Len(ps) /\ 1 \in 1..(Len(ps) - 1)
    BY <1>1, <1>2, <1>6
  <2>2. r[Len(r)] = ps[Len(ps)] /\ r[1] = ps[1 + 1]
    BY <1>1, <2>1
  <2> QED BY <2>1, <2>2 DEF Linked
<1>7. r = <<>> => ps[Len(ps)] = ps[1]
  <2>1. r = <<>> => Len(ps) = 1
    BY <1>1, <1>2
  <2> QED BY <2>1
<1> QED BY <1>3, <1>5, <1>6, <1>7 DEF r

-----------------------------------------------------------------------------
(* From a client to the server *)

\* What UpAt reads of its session.
LEMMA UpFrame ==
  ASSUME NEW s \in Session, UpAt(s),
         todo'[s] = todo[s], sending'[s] = sending[s], up'[s] = up[s],
         handler'[s].reader = handler[s].reader,
         \/ handler'[s].pc = handler[s].pc
         \/ /\ {handler[s].pc, handler'[s].pc} \subseteq {"forward", "sending", "respond", "recv"}
            /\ handler[s].pc # "recv"
  PROVE  UpAt(s)'
<1>1. Coming(s)' = Coming(s)
  BY DEF Coming
<1>2. SenderInv(s)'
  BY <1>1 DEF UpAt, SenderInv
<1>3. ReaderInv(s)'
  BY <1>1 DEF UpAt, ReaderInv, FirstOf
<1>4. HasRead(s)'
  BY DEF UpAt, HasRead
<1>5. Linked(Coming(s), FirstOf(s), SentBy(s), "send")'
  BY <1>1 DEF UpAt, Linked, FirstOf
<1> QED BY <1>2, <1>3, <1>4, <1>5 DEF UpAt

\* A letter's writer is one.
LEMMA LetterWriter ==
  ASSUME NEW s \in Session, NEW l \in Letters, NEW o \in 0..Len(l.text)
  PROVE  WriterAt(l, o) # None
<1>1. l.name # NoName
  BY UserAssumption DEF Letters
<1> QED BY <1>1 DEF WriterAt, None, Writer

\* What is coming is a sequence of packets.
LEMMA ComingTyped ==
  ASSUME Typed, NEW s \in Session
  PROVE  Coming(s) \in Seq(Packets)
<1>1. sending[s] \in Writers /\ up[s] \in Seq(Packets)
  BY DEF Typed
<1>2. write_to_packet(sending[s], "send") \in Packets
  BY <1>1, Written
<1> QED BY <1>1, <1>2, AppendProperties DEF Coming

\* Nothing is coming at the start.
LEMMA UpInit == Init => UpInv
<1> SUFFICES ASSUME Init, NEW s \in Session PROVE UpAt(s)
  BY DEF UpInv
<1>1. todo[s] = Outgoing[s] /\ sending[s] = None /\ up[s] = <<>> /\ handler[s].pc = "recv"
  BY DEF Init
<1>2. Coming(s) = <<>> /\ Len(<<>>) = 0
  BY <1>1 DEF Coming
<1>3. SenderInv(s)
  BY <1>1, <1>2 DEF SenderInv, Posted
<1> QED BY <1>1, <1>2, <1>3 DEF UpAt, Linked, ReaderInv, HasRead

\* The first packet of a message may follow the last of another.
LEMMA UpBegin ==
  ASSUME Typed, NEW s \in Session, UpAt(s), Begin(s)
  PROVE  UpAt(s)'
<1> DEFINE m == Head(todo[s])
           l == Letter(m.to, m)
           q == PacketAt(l, 0, "send")
<1>1. todo[s] \in Seq(Posts) /\ todo[s] # <<>> /\ sending[s] = None /\ Coming(s) = up[s]
  BY DEF Typed, Begin, Coming
<1>2. /\ m = todo[s][1] /\ Len(todo[s]) \in Nat \ {0} /\ DOMAIN todo[s] = 1..Len(todo[s])
      /\ Tail(todo[s]) \in Seq(Posts) /\ Len(Tail(todo[s])) = Len(todo[s]) - 1
      /\ \A j \in 1..Len(Tail(todo[s])) : Tail(todo[s])[j] = todo[s][j + 1]
  <2>1. /\ m = todo[s][1] /\ Len(todo[s]) \in Nat /\ Len(todo[s]) > 0
        /\ DOMAIN todo[s] = 1..Len(todo[s])
    BY <1>1, Lengths
  <2>2. /\ Tail(todo[s]) \in Seq(Posts) /\ Len(Tail(todo[s])) = Len(todo[s]) - 1
        /\ \A j \in 1..Len(Tail(todo[s])) : Tail(todo[s])[j] = todo[s][j + 1]
    BY <1>1, HeadTailProperties
  <2> QED BY <2>1, <2>2
<1>3. m \in Posted(s) /\ l \in SentBy(s) /\ l \in Letters /\ 0 \in 0..Len(l.text)
  <2>1. m \in Posted(s)
    BY <1>2 DEF UpAt, SenderInv
  <2> HIDE DEF m
  <2>2. l \in SentBy(s)
    BY <2>1 DEF SentBy
  <2>3. l \in Letters
    BY <2>2, PostsSent
  <2>4. Len(l.text) \in Nat
    BY <2>3, LenProperties DEF Letters
  <2> QED BY <2>1, <2>2, <2>3, <2>4
<1>4. Writer(m.to, Text(m)) = WriterAt(l, 0)
  <2>1. Len(Text(m)) \in Nat
    BY <1>3, PostsSent, TextBytes
  <2> QED BY <2>1 DEF Writer, WriterAt, Letter
<1>5. q \in Packets /\ q \in FirstOf(s)
  BY <1>3, AtPlace DEF FirstOf
<1> HIDE DEF m, l
<1>6. /\ todo'[s] = Tail(todo[s]) /\ sending'[s] = WriterAt(l, 0) /\ up'[s] = up[s]
      /\ handler'[s] = handler[s]
  BY <1>4 DEF Begin, Typed, m
<1>7. Coming(s)' = Append(Coming(s), q)
  BY <1>1, <1>3, <1>6, LetterWriter DEF Coming, PacketAt
<1> HIDE DEF q
<1>8. Coming(s) # <<>> => Ends(Coming(s)[Len(Coming(s))])
  BY <1>1 DEF UpAt, SenderInv
<1>9. /\ Linked(Append(Coming(s), q), FirstOf(s), SentBy(s), "send")
      /\ Append(Coming(s), q) # <<>>
      /\ Append(Coming(s), q)[1] = IF Coming(s) = <<>> THEN q ELSE Coming(s)[1]
  BY <1>5, <1>8, ComingTyped, LinkedAppend DEF UpAt
<1>10. SenderInv(s)'
  <2>1. \A j \in DOMAIN todo'[s] : todo'[s][j] \in Posted(s)
    <3>1. DOMAIN Tail(todo[s]) = 1..(Len(todo[s]) - 1)
      BY <1>2, LenProperties
    <3> SUFFICES ASSUME NEW j \in 1..(Len(todo[s]) - 1) PROVE Tail(todo[s])[j] \in Posted(s)
      BY <1>6, <3>1
    <3>2. Tail(todo[s])[j] = todo[s][j + 1] /\ j + 1 \in DOMAIN todo[s]
      BY <1>2
    <3> QED BY <3>2 DEF UpAt, SenderInv
  <2>2. sending'[s] # None
    BY <1>3, <1>6, LetterWriter
  <2> QED BY <2>1, <2>2, <1>3, <1>6 DEF SenderInv
<1>11. ReaderInv(s)'
  BY <1>5, <1>6, <1>7, <1>9 DEF UpAt, ReaderInv, FirstOf
<1>12. HasRead(s)'
  BY <1>6 DEF UpAt, HasRead
<1>13. Linked(Coming(s), FirstOf(s), SentBy(s), "send")'
  BY <1>7, <1>9 DEF Linked, FirstOf
<1> QED BY <1>10, <1>11, <1>12, <1>13 DEF UpAt

\* Writing a packet leaves what is coming as it was, but for its successor.
LEMMA UpWrite ==
  ASSUME Typed, NEW s \in Session, UpAt(s), Write(s)
  PROVE  UpAt(s)'
<1>1. sending[s] # None
  BY DEF Write
<1>a. PICK l \in SentBy(s) : \E o \in 0..Len(l.text) :
        (o = 0 \/ o < Len(l.text)) /\ sending[s] = WriterAt(l, o)
  BY <1>1 DEF UpAt, SenderInv
<1>2. PICK o \in 0..Len(l.text) : (o = 0 \/ o < Len(l.text)) /\ sending[s] = WriterAt(l, o)
  BY <1>a
<1> DEFINE a == After(l, o)
           p == PacketAt(l, o, "send")
           q == PacketAt(l, a, "send")
<1>3. l \in Letters /\ Len(l.text) \in Nat
  BY PostsSent, LenProperties DEF Letters
<1>4. /\ a \in o..Len(l.text) /\ (o < Len(l.text) => o < a)
      /\ Wrote(sending[s]) = WriterAt(l, a)
      /\ p \in Packets /\ (Ends(p) <=> a = Len(l.text))
  BY <1>2, <1>3, AtPlace
<1>5. a \in 0..Len(l.text)
  BY <1>2, <1>3, <1>4
<1>6. q \in Packets
  BY <1>3, <1>5, AtPlace
<1>7. CarriesOn(SentBy(s), "send", p, q) \/ Ends(p)
  BY <1>2, <1>4, <1>5 DEF CarriesOn
<1>8. /\ Coming(s) = Append(up[s], p) /\ up'[s] = Coming(s) /\ todo'[s] = todo[s]
      /\ handler'[s] = handler[s]
      /\ sending'[s] = IF Len(l.text) - a = 0 THEN None ELSE WriterAt(l, a)
  <2>1. Coming(s) = Append(up[s], p)
    BY <1>1, <1>2 DEF Coming, PacketAt
  <2>2. up'[s] = Append(up[s], p)
    BY <1>2 DEF Write, Typed, PacketAt
  <2>3. WriterAt(l, a).remaining = Len(l.text) - a
    BY DEF WriterAt
  <2>4. sending'[s] = IF Len(l.text) - a = 0 THEN None ELSE WriterAt(l, a)
    <3> HIDE DEF a
    <3> QED BY <1>4, <2>3 DEF Write, Typed
  <2> QED BY <2>1, <2>2, <2>4 DEF Write
<1> HIDE DEF a, p, q
<1>9. up[s] \in Seq(Packets) /\ Coming(s) \in Seq(Packets)
  BY ComingTyped DEF Typed
<1>10. Coming(s) # <<>> /\ Coming(s)[Len(Coming(s))] = p
  <2>1. Append(up[s], p) # <<>> /\ Len(Append(up[s], p)) = Len(up[s]) + 1
        /\ Append(up[s], p)[Len(up[s]) + 1] = p
    BY <1>4, <1>9, AppendProperties
  <2> QED BY <2>1, <1>8
<1>11. CASE a = Len(l.text)
  <2>1. sending'[s] = None /\ Coming(s)' = Coming(s)
    BY <1>3, <1>8, <1>11 DEF Coming
  <2>2. SenderInv(s)'
    BY <1>4, <1>8, <1>10, <1>11, <2>1 DEF SenderInv, UpAt
  <2> QED BY <1>8, <2>1, <2>2 DEF UpAt, Linked, FirstOf, ReaderInv, HasRead
<1>12. CASE a # Len(l.text)
  <2>1. sending'[s] = WriterAt(l, a) /\ a < Len(l.text)
    BY <1>3, <1>5, <1>8, <1>12
  <2>2. sending'[s] # None
    BY <2>1, <1>3, <1>5, LetterWriter
  <2>3. Coming(s)' = Append(Coming(s), q)
    BY <1>8, <2>1, <2>2 DEF Coming, PacketAt, q
  <2>4. /\ Linked(Append(Coming(s), q), FirstOf(s), SentBy(s), "send")
        /\ Append(Coming(s), q) # <<>>
        /\ Append(Coming(s), q)[1] = Coming(s)[1]
    <3>1. ~Ends(p)
      BY <1>4, <1>12
    <3> QED BY <1>6, <1>7, <1>9, <1>10, <3>1, LinkedAppend DEF UpAt
  <2>5. SenderInv(s)'
    BY <1>5, <1>8, <2>1, <2>2 DEF SenderInv, UpAt
  <2>6. ReaderInv(s)'
    BY <1>8, <1>10, <2>3, <2>4 DEF UpAt, ReaderInv, FirstOf
  <2> QED BY <1>8, <2>3, <2>4, <2>5, <2>6 DEF UpAt, Linked, FirstOf, HasRead
<1> QED BY <1>11, <1>12

\* A handler that has taken the packet at a place of a letter is at the next
\* place, and the packet after it is there or about to be written.
LEMMA UpRead ==
  ASSUME Typed, NEW s \in Session, UpAt(s), up[s] # <<>>,
         NEW l \in SentBy(s), NEW o \in 0..Len(l.text), o = 0 \/ o < Len(l.text),
         Coming(s)[1] = PacketAt(l, o, "send"),
         Complete(s, ReaderAt(l, After(l, o))),
         up' = [up EXCEPT ![s] = Tail(@)], UNCHANGED <<todo, sending>>
  PROVE  UpAt(s)'
<1> DEFINE a == After(l, o)
           p == PacketAt(l, o, "send")
           r == ReaderAt(l, a)
<1>1. l \in Letters /\ Len(l.text) \in Nat /\ \E m \in Posts : l.text = Text(m)
  BY PostsSent, LenProperties DEF Letters
<1>2. /\ a \in o..Len(l.text) /\ (o < Len(l.text) => o < a)
      /\ (Ends(p) <=> a = Len(l.text))
  BY <1>1, AtPlace
<1>3. Complete(s, r) /\ Coming(s)[1] = p
  OBVIOUS
<1>4. \A q : CarriesOn(SentBy(s), "send", p, q) => q = PacketAt(l, a, "send")
  <2> SUFFICES ASSUME NEW q, CarriesOn(SentBy(s), "send", p, q)
               PROVE  q = PacketAt(l, a, "send")
    OBVIOUS
  <2>a. PICK k \in SentBy(s) : \E e \in 0..Len(k.text) :
          /\ After(k, e) < Len(k.text)
          /\ p = PacketAt(k, e, "send")
          /\ q = PacketAt(k, After(k, e), "send")
    BY DEF CarriesOn
  <2>1. PICK e \in 0..Len(k.text) :
          /\ After(k, e) < Len(k.text)
          /\ p = PacketAt(k, e, "send")
          /\ q = PacketAt(k, After(k, e), "send")
    BY <2>a
  <2>2. k \in Letters /\ \E m \in Posts : k.text = Text(m)
    BY PostsSent
  <2>3. PacketAt(k, After(k, e), "send") = PacketAt(l, a, "send")
    BY <1>1, <2>1, <2>2, NextPacket
  <2> QED BY <2>1, <2>3
<1>5. r.remaining = Len(l.text) - a /\ r.name = l.name
  BY DEF ReaderAt
<1> HIDE DEF a, p
<1>6. o \in Nat /\ a \in Nat /\ a <= Len(l.text) /\ (a = 0 => Len(l.text) = 0)
  BY <1>1, <1>2
<1>7. /\ Coming(s)' = Tail(Coming(s)) /\ Coming(s) # <<>>
      /\ todo'[s] = todo[s] /\ sending'[s] = sending[s]
  <2>1. up[s] \in Seq(Packets) /\ up'[s] = Tail(up[s])
    BY DEF Typed
  <2>2. CASE sending[s] = None
    BY <2>1, <2>2 DEF Coming
  <2>3. CASE sending[s] # None
    <3> DEFINE q == write_to_packet(sending[s], "send")
    <3>1. q \in Packets
      BY Written DEF Typed
    <3>2. Coming(s) = Append(up[s], q) /\ Coming(s)' = Append(Tail(up[s]), q)
      BY <2>1, <2>3 DEF Coming
    <3> HIDE DEF q
    <3>3. Tail(Append(up[s], q)) = Append(Tail(up[s]), q)
      BY <2>1, HeadTailAppend
    <3>4. Append(up[s], q) # <<>>
      BY <2>1, <3>1, AppendProperties
    <3> QED BY <3>2, <3>3, <3>4
  <2> QED BY <2>2, <2>3
<1>8. /\ Linked(Tail(Coming(s)), FirstOf(s), SentBy(s), "send")
      /\ Tail(Coming(s)) = <<>> => Coming(s)[Len(Coming(s))] = p
      /\ Tail(Coming(s)) # <<>> =>
           /\ Tail(Coming(s))[Len(Tail(Coming(s)))] = Coming(s)[Len(Coming(s))]
           /\ IF Ends(p) THEN Tail(Coming(s))[1] \in FirstOf(s)
              ELSE CarriesOn(SentBy(s), "send", p, Tail(Coming(s))[1])
  BY <1>3, <1>7, ComingTyped, LinkedTail DEF UpAt
<1>9. SenderInv(s)'
  BY <1>7, <1>8 DEF UpAt, SenderInv
<1>10. Linked(Coming(s), FirstOf(s), SentBy(s), "send")'
  BY <1>7, <1>8 DEF Linked, FirstOf
<1> HIDE DEF r
<1>11. CASE a < Len(l.text)
  <2>1. r.remaining > 0
    BY <1>1, <1>5, <1>6, <1>11
  <2>2. handler'[s].pc = "more" /\ handler'[s].reader = r
    <3>1. handler' = [handler EXCEPT ![s] = [@ EXCEPT !.pc = "more", !.reader = r]]
      BY <1>3, <2>1 DEF Complete
    <3>2. handler[s] \in Handlers
      BY DEF Typed
    <3>3. handler'[s] = [handler[s] EXCEPT !.pc = "more", !.reader = r]
      BY <3>1 DEF Typed
    <3> QED BY <3>2, <3>3 DEF Handlers
  <2>3. ~Ends(p)
    BY <1>2, <1>11
  <2>4. Tail(Coming(s)) # <<>>
    <3> SUFFICES ASSUME Tail(Coming(s)) = <<>> PROVE FALSE
      OBVIOUS
    <3>1. sending[s] # None
      BY <1>7, <1>8, <2>3 DEF UpAt, SenderInv
    <3>2. up[s] \in Seq(Packets) /\ write_to_packet(sending[s], "send") \in Packets
      BY Written DEF Typed
    <3>3. Tail(Coming(s)) = Append(Tail(up[s]), write_to_packet(sending[s], "send"))
      BY <3>1, <3>2, HeadTailAppend DEF Coming
    <3>4. Tail(up[s]) \in Seq(Packets)
      BY <3>2, HeadTailProperties
    <3> QED BY <3>2, <3>3, <3>4, AppendProperties
  <2>5. Tail(Coming(s))[1] = PacketAt(l, a, "send")
    BY <1>4, <1>8, <2>3, <2>4
  <2>6. a \in 1..(Len(l.text) - 1)
    BY <1>1, <1>6, <1>11
  <2>7. ReaderInv(s)'
    BY <1>7, <2>2, <2>4, <2>5, <2>6 DEF ReaderInv, r
  <2>8. HasRead(s)'
    BY <2>2 DEF HasRead
  <2> QED BY <1>9, <1>10, <2>7, <2>8 DEF UpAt
<1>12. CASE ~(a < Len(l.text))
  <2>1. a = Len(l.text) /\ ~(r.remaining > 0)
    BY <1>1, <1>5, <1>6, <1>12
  <2>2. handler'[s].pc \in {"respond", "forward"} /\ handler'[s].reader = r
    <3> DEFINE h == [pc |-> IF Sessions(r.name) = {} THEN "respond" ELSE "forward",
                     reader |-> r, writer |-> Writer(connectedUser[s], r.text),
                     targets |-> Sessions(r.name)]
    <3>1. h.pc \in {"respond", "forward"} /\ h.reader = r
      OBVIOUS
    <3>2. handler' = [handler EXCEPT ![s] = h]
      BY <1>3, <2>1 DEF Complete
    <3> HIDE DEF h
    <3>3. handler'[s] = h
      BY <3>2 DEF Typed
    <3> QED BY <3>1, <3>3
  <2>3. Ends(p)
    BY <1>2, <2>1
  <2>4. ReaderInv(s)'
    BY <1>7, <1>8, <2>2, <2>3 DEF ReaderInv, FirstOf
  <2>5. HasRead(s)'
    BY <2>1, <2>2 DEF HasRead, r
  <2> QED BY <1>9, <1>10, <2>4, <2>5 DEF UpAt
<1> QED BY <1>11, <1>12

\* The reader takes the head of what is coming.
LEMMA UpReceive ==
  ASSUME Typed, NEW s \in Session, UpAt(s), Receive(s) \/ ReceiveMore(s)
  PROVE  UpAt(s)'
<1>1. up[s] \in Seq(Packets) /\ up[s] # <<>>
  BY DEF Typed, Receive, ReceiveMore
<1>2. Head(up[s]) = Coming(s)[1] /\ Coming(s) # <<>>
  <2>1. Head(up[s]) = up[s][1] /\ Len(up[s]) \in Nat /\ Len(up[s]) > 0
    BY <1>1, Lengths
  <2>2. write_to_packet(sending[s], "send") \in Packets
    BY Written DEF Typed
  <2>3. Append(up[s], write_to_packet(sending[s], "send"))[1] = up[s][1]
        /\ Append(up[s], write_to_packet(sending[s], "send")) # <<>>
    BY <1>1, <2>1, <2>2, AppendProperties
  <2> QED BY <1>1, <2>1, <2>3 DEF Coming
<1>3. up' = [up EXCEPT ![s] = Tail(@)] /\ UNCHANGED <<todo, sending>>
  BY DEF Receive, ReceiveMore
<1>4. CASE Receive(s)
  <2>1. Coming(s)[1] \in FirstOf(s)
    BY <1>2, <1>4 DEF UpAt, ReaderInv, Receive
  <2>2. PICK l \in SentBy(s) : Coming(s)[1] = PacketAt(l, 0, "send")
    BY <2>1 DEF FirstOf
  <2>3. l \in Letters /\ 0 \in 0..Len(l.text)
    BY PostsSent, LenProperties DEF Letters
  <2>4. Complete(s, ReaderAt(l, After(l, 0)))
    BY <1>2, <1>4, <2>2, <2>3, ReadBack DEF Receive
  <2> QED BY <1>1, <1>3, <2>2, <2>3, <2>4, UpRead
<1>5. CASE ReceiveMore(s)
  <2>a. PICK l \in SentBy(s) : \E o \in 1..(Len(l.text) - 1) :
          handler[s].reader = ReaderAt(l, o) /\ Coming(s)[1] = PacketAt(l, o, "send")
    BY <1>5 DEF UpAt, ReaderInv, ReceiveMore
  <2>1. PICK o \in 1..(Len(l.text) - 1) :
          handler[s].reader = ReaderAt(l, o) /\ Coming(s)[1] = PacketAt(l, o, "send")
    BY <2>a
  <2>2. l \in Letters
    BY PostsSent
  <2>3. o \in 0..Len(l.text) /\ o < Len(l.text)
    BY <2>1, <2>2, LenProperties DEF Letters
  <2>4. Complete(s, ReaderAt(l, After(l, o)))
    BY <1>2, <1>5, <2>1, <2>2, ReadOn DEF ReceiveMore
  <2> QED BY <1>1, <1>3, <2>1, <2>3, <2>4, UpRead
<1> QED BY <1>4, <1>5

\* Forwarding keeps what a handler has read, and changes nothing of a sender.
LEMMA UpForward ==
  ASSUME Typed, NEW s \in Session, UpAt(s),
         Respond(s) \/ \E k \in Session : Lock(s, k) \/ Send(s, k)
  PROVE  UpAt(s)'
<1>1. todo'[s] = todo[s] /\ sending'[s] = sending[s] /\ up'[s] = up[s]
  BY DEF Respond, Lock, Send
<1>2. handler[s] \in Handlers
  BY DEF Typed
<1> DEFINE Kept ==
      /\ handler'[s].reader = handler[s].reader
      /\ {handler[s].pc, handler'[s].pc} \subseteq {"forward", "sending", "respond", "recv"}
      /\ handler[s].pc # "recv"
<1>3. Kept
  <2>1. CASE Respond(s)
    BY <2>1, <1>2 DEF Respond, Typed, Handlers
  <2>2. ASSUME NEW k \in Session, Lock(s, k)
        PROVE  Kept
    BY <2>2, <1>2 DEF Lock, Typed, Handlers
  <2>3. ASSUME NEW k \in Session, Send(s, k)
        PROVE  Kept
    <3> DEFINE h == [handler[s] EXCEPT !.writer = Wrote(handler[s].writer)]
    <3>1. handler[s].pc = "sending"
      BY <2>3 DEF Send
    <3>2. h.pc = "sending" /\ h.reader = handler[s].reader
          /\ h \in [pc : {"sending"}, reader : Buffers, writer : {Wrote(handler[s].writer)},
                    targets : SUBSET Session]
      BY <1>2, <3>1 DEF Handlers
    <3>3. handler' = [handler EXCEPT ![s] = Served(h, k)] \/ handler' = [handler EXCEPT ![s] = h]
      BY <2>3 DEF Send
    <3> HIDE DEF h
    <3>4. Served(h, k).pc \in {"forward", "respond"} /\ Served(h, k).reader = h.reader
      BY <3>2 DEF Served
    <3>5. handler'[s] = Served(h, k) \/ handler'[s] = h
      BY <3>3 DEF Typed
    <3> QED BY <3>1, <3>2, <3>4, <3>5
  <2> QED BY <2>1, <2>2, <2>3
<1> QED BY <1>1, <1>3, UpFrame

\* Every step keeps the order of the packets to the server.
LEMMA UpNext == Typed /\ UpInv /\ [Next]_vars => UpInv'
<1> SUFFICES ASSUME Typed, UpInv, [Next]_vars, NEW s \in Session PROVE UpAt(s)'
  BY DEF UpInv
<1>1. UpAt(s)
  BY DEF UpInv
<1>2. CASE UNCHANGED vars
  BY <1>1, <1>2, UpFrame DEF vars
<1>3. ASSUME NEW t \in Session, Serve(t)
      PROVE  UpAt(s)'
  <2>1. CASE t = s
    BY <1>1, <1>3, <2>1, UpBegin, UpWrite, UpReceive, UpForward DEF Serve
  <2>2. CASE t # s
    <3>1. todo'[s] = todo[s] /\ sending'[s] = sending[s] /\ up'[s] = up[s] /\ handler'[s] = handler[s]
      BY <1>3, <2>2 DEF Serve, Begin, Write, Receive, ReceiveMore, Complete, Respond, Lock, Send, Typed
    <3> QED BY <1>1, <3>1, UpFrame
  <2> QED BY <2>1, <2>2
<1>4. ASSUME NEW k \in Session, Read(k)
      PROVE  UpAt(s)'
  <2>1. UNCHANGED <<todo, sending, up, handler>>
    BY <1>4 DEF Read, Arrive, Handle, HandleMore
  <2> QED BY <1>1, <2>1, UpFrame
<1> QED BY <1>2, <1>3, <1>4 DEF Next, Finished

\* In that order the server puts together what was sent.
LEMMA UpReads == UpInv => ReadsWhatWasSent
<1> SUFFICES ASSUME UpInv, NEW s \in Session
             PROVE  /\ handler[s].pc # "thrown"
                    /\ handler[s].pc \in {"forward", "sending", "respond"} =>
                         \E m \in Posted(s) :
                           handler[s].reader.name = m.to /\ handler[s].reader.text = Text(m)
  BY DEF ReadsWhatWasSent
<1>1. UpAt(s)
  BY DEF UpInv
<1>2. ASSUME handler[s].pc \in {"forward", "sending", "respond"}
      PROVE  \E m \in Posted(s) :
               handler[s].reader.name = m.to /\ handler[s].reader.text = Text(m)
  <2>1. PICK l \in SentBy(s) : handler[s].reader = ReaderAt(l, Len(l.text))
    BY <1>1, <1>2 DEF UpAt, HasRead
  <2>2. PICK m \in Posted(s) : l = Letter(m.to, m)
    BY <2>1 DEF SentBy
  <2>3. l.name = m.to /\ l.text = Text(m)
    BY <2>2 DEF Letter
  <2>4. SubSeq(l.text, 1, Len(l.text)) = l.text
    BY <2>1, PostsSent, SubSeqFull DEF Letters
  <2> QED BY <2>1, <2>3, <2>4 DEF ReaderAt
<1> QED BY <1>1, <1>2 DEF UpAt, ReaderInv

\* What handleClient puts together from the packets of a client is a message
\* that the client sent, all of it, to the name it was for, whatever the
\* lengths of messages, names and packets; read_from_packet never throws.
THEOREM ReadAsSent == Spec => []ReadsWhatWasSent
<1>1. Init => UpInv
  BY UpInit
<1>2. Typed /\ UpInv /\ [Next]_vars => UpInv'
  BY UpNext
<1>3. UpInv => ReadsWhatWasSent
  BY UpReads
<1> QED BY <1>1, <1>2, <1>3, AlwaysTyped, PTL DEF Spec

-----------------------------------------------------------------------------
(* From the server to the clients *)

\* What is going to a client begins with what is on the wire.
LEMMA GoingTyped ==
  ASSUME Typed, MutexInv, NEW k \in Session
  PROVE  /\ Going(k) \in Seq(Packets) /\ wire[k] \in Seq(Packets)
         /\ mutex[k] # Free => mutex[k] \in Session
         /\ Len(Going(k)) >= Len(wire[k])
         /\ \A i \in 1..Len(wire[k]) : Going(k)[i] = wire[k][i]
<1>1. wire[k] \in Seq(Packets) /\ (mutex[k] # Free => mutex[k] \in Session)
  BY DEF Typed
<1>2. Len(wire[k]) \in Nat
  BY <1>1, Lengths
<1>3. CASE mutex[k] = Free
  BY <1>1, <1>2, <1>3 DEF Going
<1>4. CASE mutex[k] # Free
  <2> DEFINE q == write_to_packet(handler[mutex[k]].writer, "forward")
  <2>1. handler[mutex[k]].writer \in Writers
    BY <1>1, <1>4 DEF Typed, Handlers
  <2>2. q \in Packets
    BY <2>1, Written
  <2>3. Going(k) = Append(wire[k], q)
    BY <1>4 DEF Going
  <2> HIDE DEF q
  <2>4. /\ Append(wire[k], q) \in Seq(Packets) /\ Len(Append(wire[k], q)) = Len(wire[k]) + 1
        /\ \A i \in 1..Len(wire[k]) : Append(wire[k], q)[i] = wire[k][i]
    BY <1>1, <2>2, AppendProperties
  <2> QED BY <1>1, <1>2, <2>3, <2>4
<1> QED BY <1>3, <1>4

\* What a handler passes on to one of its targets is a letter sent to it.
LEMMA PassedIsSent ==
  ASSUME Typed, UpInv, NEW s \in Session, WriterInv(s),
         handler[s].pc \in {"forward", "sending"}
  PROVE  /\ Passed(s) \in Letters
         /\ \A k \in handler[s].targets : k \in Session /\ Passed(s) \in SentTo(k)
<1>1. PICK l \in SentBy(s) : handler[s].reader = ReaderAt(l, Len(l.text))
  BY DEF UpInv, UpAt, HasRead
<1>2. PICK m \in Posted(s) : l = Letter(m.to, m)
  BY <1>1 DEF SentBy
<1>3. l \in Letters /\ l.name = m.to /\ l.text = Text(m)
  BY <1>1, <1>2, PostsSent DEF Letter
<1>4. SubSeq(l.text, 1, Len(l.text)) = l.text
  BY <1>3, SubSeqFull DEF Letters
<1>5. handler[s].reader.name = m.to /\ handler[s].reader.text = Text(m)
  BY <1>1, <1>3, <1>4 DEF ReaderAt
<1>6. Passed(s) = Letter(connectedUser[s], m)
  BY <1>5 DEF Passed, Letter
<1>7. Passed(s) \in Letters
  <2>1. connectedUser[s] \in User /\ Text(m) \in Seq(Bytes)
    BY <1>3, UserAssumption DEF Letters
  <2> QED BY <1>6, <2>1 DEF Letter, Letters
<1>8. ASSUME NEW k \in handler[s].targets
      PROVE  k \in Session /\ Passed(s) \in SentTo(k)
  <2>1. k \in Session /\ connectedUser[k] = m.to
    BY <1>5 DEF WriterInv, Sessions
  <2> QED BY <1>6, <2>1 DEF SentTo
<1> QED BY <1>7, <1>8

\* What WireAt reads of its session.
LEMMA WireFrame ==
  ASSUME NEW k \in Session, WireAt(k), wire'[k] = wire[k], mutex'[k] = mutex[k],
         mutex[k] # Free => handler'[mutex[k]].writer = handler[mutex[k]].writer
  PROVE  WireAt(k)'
<1>1. Going(k)' = Going(k)
  BY DEF Going
<1> QED BY <1>1 DEF WireAt, Linked, FirstTo, SentTo

\* Steps of handlers that hold no mutex, and change none and no wire.
LEMMA DownQuiet ==
  ASSUME Typed, DownInv, NEW s \in Session, handler[s].pc # "sending",
         UNCHANGED <<mutex, wire>>, WriterInv(s)',
         \A t \in Session : t # s => handler'[t] = handler[t]
  PROVE  DownInv'
<1>1. ASSUME NEW t \in Session
      PROVE  WriterInv(t)'
  <2>1. CASE t = s
    BY <2>1
  <2>2. CASE t # s
    BY <2>2 DEF DownInv, WriterInv, Passed
  <2> QED BY <2>1, <2>2
<1>2. \A k \in Session : mutex[k] # Free => mutex[k] \in Session /\ mutex[k] # s
  BY DEF DownInv, MutexInv, Typed
<1>3. MutexInv'
  BY <1>2 DEF DownInv, MutexInv
<1>4. ASSUME NEW k \in Session
      PROVE  WireAt(k)'
  BY <1>2, WireFrame DEF DownInv
<1> QED BY <1>1, <1>3, <1>4 DEF DownInv

\* A handler begins to forward with a new writer.
LEMMA DownReceive ==
  ASSUME Typed, DownInv, NEW s \in Session, Receive(s) \/ ReceiveMore(s)
  PROVE  DownInv'
<1>1. handler[s].pc # "sending" /\ UNCHANGED <<mutex, wire>>
  BY DEF Receive, ReceiveMore
<1>2. \A t \in Session : t # s => handler'[t] = handler[t]
  BY DEF Receive, ReceiveMore, Complete, Typed
<1>3. WriterInv(s)'
  <2>1. ASSUME NEW r \in Buffers, Complete(s, r)
        PROVE  WriterInv(s)'
    <3>1. CASE r.remaining > 0
      <4>1. handler'[s] = [handler[s] EXCEPT !.pc = "more", !.reader = r] /\ handler[s] \in Handlers
        BY <2>1, <3>1 DEF Complete, Typed
      <4>2. handler'[s].pc = "more"
        BY <4>1 DEF Handlers
      <4> QED BY <4>2 DEF WriterInv
    <3>2. CASE ~(r.remaining > 0)
      <4> DEFINE h == [pc |-> IF Sessions(r.name) = {} THEN "respond" ELSE "forward",
                       reader |-> r, writer |-> Writer(connectedUser[s], r.text),
                       targets |-> Sessions(r.name)]
      <4>1. h.reader = r /\ h.writer = Writer(connectedUser[s], r.text) /\ h.targets = Sessions(r.name)
            /\ h.pc # "sending"
        OBVIOUS
      <4>2. handler' = [handler EXCEPT ![s] = h]
        BY <2>1, <3>2 DEF Complete
      <4> HIDE DEF h
      <4>3. handler'[s] = h
        BY <4>2 DEF Typed
      <4>4. Passed(s)' = [name |-> connectedUser[s], text |-> r.text]
        BY <4>1, <4>3 DEF Passed
      <4>5. Len(r.text) \in Nat
        BY LenProperties DEF Buffers
      <4>6. handler'[s].writer = WriterAt(Passed(s)', 0)
        BY <4>1, <4>3, <4>4, <4>5 DEF WriterAt, Writer
      <4>7. Len(Passed(s)'.text) \in Nat
        BY <4>4, <4>5
      <4>8. handler'[s].targets = Sessions(handler'[s].reader.name) /\ handler'[s].pc # "sending"
        BY <4>1, <4>3
      <4> QED BY <4>6, <4>7, <4>8 DEF WriterInv, WriterAt, Passed, Sessions
    <3> QED BY <3>1, <3>2
  <2>2. up[s] \in Seq(Packets) /\ up[s] # <<>> /\ handler[s].reader \in Buffers /\ handler[s] \in Handlers
    BY DEF Receive, ReceiveMore, Typed, Handlers
  <2>3. Head(up[s]) \in Packets
    BY <2>2, HeadTailProperties
  <2>4. ReadFirst(Head(up[s])) \in Buffers /\ ReadMore(handler[s].reader, Head(up[s])) \in Buffers
    BY <2>2, <2>3, ReadersTyped
  <2>5. CASE handler' = [handler EXCEPT ![s].pc = "thrown"]
    <3>1. handler'[s] = [handler[s] EXCEPT !.pc = "thrown"]
      BY <2>5 DEF Typed
    <3>2. handler'[s].pc = "thrown"
      BY <2>2, <3>1 DEF Handlers
    <3> QED BY <3>2 DEF WriterInv
  <2> QED BY <2>1, <2>4, <2>5 DEF Receive, ReceiveMore
<1> QED BY <1>1, <1>2, <1>3, DownQuiet

\* Who takes a free mutex adds the first packet of a message.
LEMMA DownLock ==
  ASSUME Typed, UpInv, DownInv, NEW s \in Session, NEW k \in Session, Lock(s, k)
  PROVE  DownInv'
<1> DEFINE q == write_to_packet(handler[s].writer, "forward")
<1>1. /\ handler[s].pc = "forward" /\ k \in handler[s].targets /\ mutex[k] = Free
      /\ handler[s] \in Handlers /\ handler[s].writer \in Writers /\ s # Free
  BY FreeAssumption DEF Lock, Typed, Handlers
<1>2. /\ mutex'[k] = s /\ wire' = wire
      /\ \A j \in Session : j # k => mutex'[j] = mutex[j]
      /\ \A t \in Session : t # s => handler'[t] = handler[t]
      /\ handler'[s].pc = "sending" /\ handler'[s].reader = handler[s].reader
      /\ handler'[s].writer = handler[s].writer /\ handler'[s].targets = handler[s].targets
  <2>1. handler'[s] = [handler[s] EXCEPT !.pc = "sending"]
    BY DEF Lock, Typed
  <2>2. /\ handler'[s].pc = "sending" /\ handler'[s].reader = handler[s].reader
        /\ handler'[s].writer = handler[s].writer /\ handler'[s].targets = handler[s].targets
    BY <1>1, <2>1 DEF Handlers
  <2> QED BY <2>2 DEF Lock, Typed
<1>3. \A j \in Session : mutex[j] # Free => mutex[j] \in Session /\ mutex[j] # s
  BY <1>1 DEF DownInv, MutexInv, Typed
<1>4. ASSUME NEW t \in Session
      PROVE  WriterInv(t)'
  <2>1. WriterInv(t)
    BY DEF DownInv
  <2>2. CASE t = s
    BY <1>1, <1>2, <2>1, <2>2 DEF WriterInv, Passed
  <2>3. CASE t # s
    BY <1>2, <2>1, <2>3 DEF WriterInv, Passed
  <2> QED BY <2>2, <2>3
<1>5. MutexInv'
  <2> SUFFICES ASSUME NEW j \in Session, mutex'[j] # Free
               PROVE  /\ handler'[mutex'[j]].pc = "sending"
                      /\ j \in handler'[mutex'[j]].targets
                      /\ \A i \in Session : mutex'[i] = mutex'[j] => i = j
    BY DEF MutexInv
  <2>1. CASE j = k
    BY <1>1, <1>2, <1>3, <2>1
  <2>2. CASE j # k
    BY <1>2, <1>3, <2>2 DEF DownInv, MutexInv
  <2> QED BY <2>1, <2>2
<1>6. WireAt(k)'
  <2>1. PICK o \in 0..Len(Passed(s).text) :
          /\ handler[s].writer = WriterAt(Passed(s), o)
          /\ o = 0 \/ o = Len(Passed(s).text)
          /\ o = 0 \/ o < Len(Passed(s).text) \/ ~OneEach
    BY <1>1 DEF DownInv, WriterInv
  <2>2. Passed(s) \in SentTo(k) /\ q = PacketAt(Passed(s), o, "forward")
    BY <1>1, <2>1, PassedIsSent DEF DownInv, PacketAt
  <2>3. q \in FirstTo(k)
    <3>1. CASE o = 0
      BY <2>2, <3>1 DEF FirstTo
    <3>2. CASE o # 0
      <4>1. o = Len(Passed(s).text) /\ ~OneEach
        BY <2>1, <3>2
      <4> QED BY <2>2, <4>1 DEF FirstTo
    <3> QED BY <3>1, <3>2
  <2>4. q \in Packets /\ wire[k] \in Seq(Packets)
    BY <1>1, Written DEF Typed
  <2>5. Going(k) = wire[k] /\ Going(k)' = Append(wire[k], q)
    BY <1>1, <1>2 DEF Going
  <2>6. WireAt(k)
    BY DEF DownInv
  <2> HIDE DEF q
  <2>7. /\ Linked(Append(wire[k], q), FirstTo(k), SentTo(k), "forward")
        /\ Append(wire[k], q)[1] = IF wire[k] = <<>> THEN q ELSE wire[k][1]
    BY <1>1, <2>3, <2>4, <2>5, <2>6, LinkedAppend DEF WireAt
  <2> QED BY <1>1, <1>2, <2>3, <2>5, <2>6, <2>7 DEF WireAt, Linked, FirstTo, SentTo
<1>7. ASSUME NEW j \in Session, j # k
      PROVE  WireAt(j)'
  BY <1>2, <1>3, <1>7, WireFrame DEF DownInv
<1> QED BY <1>4, <1>5, <1>6, <1>7 DEF DownInv

\* A packet is sent that is not the last.
LEMMA DownSendMore ==
  ASSUME Typed, UpInv, DownInv, NEW s \in Session, NEW k \in Session,
         handler[s].pc = "sending", mutex[k] = s,
         wire' = [wire EXCEPT ![k] = Append(@, write_to_packet(handler[s].writer, "forward"))],
         handler' = [handler EXCEPT ![s] = [handler[s] EXCEPT !.writer = Wrote(handler[s].writer)]],
         Wrote(handler[s].writer).remaining # 0, UNCHANGED mutex
  PROVE  DownInv'
<1> DEFINE P == Passed(s)
           p == write_to_packet(handler[s].writer, "forward")
<1>1. handler[s] \in Handlers /\ handler[s].writer \in Writers /\ k \in handler[s].targets /\ s # Free
  BY FreeAssumption DEF DownInv, MutexInv, Typed, Handlers
<1>2. P \in Letters /\ P \in SentTo(k) /\ Len(P.text) \in Nat
  BY <1>1, PassedIsSent, LenProperties DEF DownInv, Letters
<1>3. PICK o \in 0..Len(P.text) : handler[s].writer = WriterAt(P, o)
  BY DEF DownInv, WriterInv
<1> DEFINE a == After(P, o)
           q == PacketAt(P, a, "forward")
<1>4. /\ a \in o..Len(P.text) /\ Wrote(handler[s].writer) = WriterAt(P, a)
      /\ p = PacketAt(P, o, "forward") /\ p \in Packets /\ (Ends(p) <=> a = Len(P.text))
  BY <1>2, <1>3, AtPlace DEF PacketAt
<1>5. a \in 0..Len(P.text) /\ a < Len(P.text)
  <2>1. WriterAt(P, a).remaining = Len(P.text) - a
    BY DEF WriterAt
  <2>2. Len(P.text) - a # 0
    BY <1>4, <2>1
  <2> HIDE DEF a, P
  <2> QED BY <1>2, <1>3, <1>4, <2>2
<1>6. q \in Packets /\ CarriesOn(SentTo(k), "forward", p, q) /\ ~Ends(p)
  <2>1. q \in Packets
    BY <1>2, <1>5, AtPlace
  <2>2. CarriesOn(SentTo(k), "forward", p, q)
    BY <1>2, <1>3, <1>4, <1>5 DEF CarriesOn
  <2> QED BY <1>4, <1>5, <2>1, <2>2
<1> HIDE DEF P, a, p, q
<1>7. /\ handler'[s].pc = "sending" /\ handler'[s].reader = handler[s].reader
      /\ handler'[s].writer = WriterAt(P, a) /\ handler'[s].targets = handler[s].targets
      /\ \A t \in Session : t # s => handler'[t] = handler[t]
  <2>1. handler'[s] = [handler[s] EXCEPT !.writer = WriterAt(P, a)]
    BY <1>4 DEF Typed
  <2>2. /\ handler'[s].pc = "sending" /\ handler'[s].reader = handler[s].reader
        /\ handler'[s].writer = WriterAt(P, a) /\ handler'[s].targets = handler[s].targets
    BY <1>1, <2>1 DEF Handlers
  <2> QED BY <2>2 DEF Typed
<1>8. Passed(s)' = P
  BY <1>7 DEF Passed, P
<1>9. ASSUME NEW t \in Session
      PROVE  WriterInv(t)'
  <2>1. WriterInv(t)
    BY DEF DownInv
  <2>2. CASE t = s
    <3>1. WriterInv(s)'
      BY <1>5, <1>7, <1>8, <2>1, <2>2 DEF WriterInv, WriterAt, Sessions
    <3> QED BY <2>2, <3>1
  <2>3. CASE t # s
    BY <1>7, <2>1, <2>3 DEF WriterInv, Passed
  <2> QED BY <2>2, <2>3
<1>10. MutexInv'
  <2> SUFFICES ASSUME NEW j \in Session, mutex[j] # Free
               PROVE  /\ handler'[mutex[j]].pc = "sending"
                      /\ j \in handler'[mutex[j]].targets
                      /\ \A i \in Session : mutex[i] = mutex[j] => i = j
    BY DEF MutexInv
  <2>1. mutex[j] \in Session
    BY DEF Typed
  <2> QED BY <1>7, <2>1 DEF DownInv, MutexInv
<1>11. WireAt(k)'
  <2>1. wire[k] \in Seq(Packets) /\ Going(k) = Append(wire[k], p) /\ wire'[k] = Going(k)
    BY <1>1 DEF Typed, Going, p
  <2>2. Going(k)' = Append(Going(k), q)
    BY <1>1, <1>7, <2>1 DEF Going, PacketAt, q
  <2>3. Going(k) \in Seq(Packets) /\ Going(k) # <<>> /\ Going(k)[Len(Going(k))] = p
    <3>1. Append(wire[k], p) \in Seq(Packets) /\ Append(wire[k], p) # <<>>
          /\ Len(Append(wire[k], p)) = Len(wire[k]) + 1 /\ Append(wire[k], p)[Len(wire[k]) + 1] = p
      BY <1>4, <2>1, AppendProperties
    <3> QED BY <2>1, <3>1
  <2>4. WireAt(k)
    BY DEF DownInv
  <2>5. /\ Linked(Append(Going(k), q), FirstTo(k), SentTo(k), "forward")
        /\ Append(Going(k), q)[1] = Going(k)[1]
    BY <1>6, <2>3, <2>4, LinkedAppend DEF WireAt
  <2>6. mutex'[k] # Free
    BY <1>1
  <2> QED BY <2>2, <2>3, <2>4, <2>5, <2>6 DEF WireAt, Linked, FirstTo, SentTo
<1>12. ASSUME NEW j \in Session, j # k
       PROVE  WireAt(j)'
  <2>1. mutex[j] # s /\ (mutex[j] # Free => mutex[j] \in Session)
    BY <1>1, <1>12 DEF DownInv, MutexInv, Typed
  <2>2. wire'[j] = wire[j]
    BY <1>12 DEF Typed
  <2> QED BY <1>7, <2>1, <2>2, WireFrame DEF DownInv
<1> QED BY <1>9, <1>10, <1>11, <1>12 DEF DownInv

\* The last packet is sent, and the mutex released; only if the recipient has
\* another session is the writer, which is used up, used again.
LEMMA DownSendLast ==
  ASSUME Typed, UpInv, DownInv, NEW s \in Session, NEW k \in Session,
         handler[s].pc = "sending", mutex[k] = s,
         wire' = [wire EXCEPT ![k] = Append(@, write_to_packet(handler[s].writer, "forward"))],
         handler' = [handler EXCEPT ![s] =
                       Served([handler[s] EXCEPT !.writer = Wrote(handler[s].writer)], k)],
         Wrote(handler[s].writer).remaining = 0, mutex' = [mutex EXCEPT ![k] = Free]
  PROVE  DownInv'
<1> DEFINE P == Passed(s)
           p == write_to_packet(handler[s].writer, "forward")
<1>1. handler[s] \in Handlers /\ handler[s].writer \in Writers /\ k \in handler[s].targets /\ s # Free
  BY FreeAssumption DEF DownInv, MutexInv, Typed, Handlers
<1>2. P \in Letters /\ P \in SentTo(k) /\ Len(P.text) \in Nat
  BY <1>1, PassedIsSent, LenProperties DEF DownInv, Letters
<1>3. PICK o \in 0..Len(P.text) : handler[s].writer = WriterAt(P, o)
  BY DEF DownInv, WriterInv
<1> DEFINE a == After(P, o)
<1>4. /\ a \in o..Len(P.text) /\ Wrote(handler[s].writer) = WriterAt(P, a)
      /\ p = PacketAt(P, o, "forward") /\ p \in Packets /\ (Ends(p) <=> a = Len(P.text))
  BY <1>2, <1>3, AtPlace DEF PacketAt
<1>5. a = Len(P.text) /\ Ends(p)
  <2>1. WriterAt(P, a).remaining = Len(P.text) - a
    BY DEF WriterAt
  <2>2. Len(P.text) - a = 0
    BY <1>4, <2>1
  <2> HIDE DEF a, P, p
  <2> QED BY <1>2, <1>3, <1>4, <2>2
<1> HIDE DEF P, a, p
<1>6. /\ handler'[s].pc \in {"forward", "respond"}
      /\ handler'[s].pc = "forward" => handler[s].targets # {k}
      /\ handler'[s].reader = handler[s].reader
      /\ handler'[s].writer = WriterAt(P, Len(P.text))
      /\ handler'[s].targets = handler[s].targets \ {k}
      /\ \A t \in Session : t # s => handler'[t] = handler[t]
  <2> DEFINE h == [handler[s] EXCEPT !.writer = WriterAt(P, a)]
             g == Served(h, k)
  <2>1. /\ h \in [pc : {"sending"}, reader : Buffers, writer : {WriterAt(P, a)},
                   targets : SUBSET Session]
        /\ h.reader = handler[s].reader /\ h.targets = handler[s].targets
        /\ h.writer = WriterAt(P, a)
    BY <1>1 DEF Handlers
  <2>2. handler'[s] = g
    BY <1>4 DEF Typed
  <2> HIDE DEF h
  <2>3. /\ g.pc = IF h.targets = {k} THEN "respond" ELSE "forward"
        /\ g.reader = h.reader /\ g.writer = h.writer /\ g.targets = h.targets \ {k}
    BY <2>1 DEF Served
  <2> HIDE DEF g
  <2>4. \A t \in Session : t # s => handler'[t] = handler[t]
    BY DEF Typed
  <2> QED BY <1>5, <2>1, <2>2, <2>3, <2>4
<1>7. Passed(s)' = P
  BY <1>6 DEF Passed, P
<1>8. ASSUME NEW t \in Session
      PROVE  WriterInv(t)'
  <2>1. WriterInv(t)
    BY DEF DownInv
  <2>2. CASE t = s
    <3>1. CASE handler'[s].pc = "respond"
      BY <2>2, <3>1 DEF WriterInv
    <3>2. CASE handler'[s].pc = "forward"
      <4>1. handler[s].targets \subseteq Sessions(handler[s].reader.name)
        BY <2>1, <2>2 DEF WriterInv
      <4>2. PICK j \in handler[s].targets : j # k
        BY <1>1, <1>6, <3>2
      <4>3. ~OneEach
        BY <1>1, <4>1, <4>2 DEF OneEach, Sessions
      <4>4. Len(P.text) \in 0..Len(P.text)
        BY <1>2
      <4>5. WriterInv(s)'
        BY <1>6, <1>7, <3>2, <4>1, <4>3, <4>4 DEF WriterInv, WriterAt, Sessions, OneEach
      <4> QED BY <2>2, <4>5
    <3> QED BY <1>6, <3>1, <3>2
  <2>3. CASE t # s
    BY <1>6, <2>1, <2>3 DEF WriterInv, Passed
  <2> QED BY <2>2, <2>3
<1>9. mutex'[k] = Free
  BY DEF Typed
<1>10. MutexInv'
  <2> SUFFICES ASSUME NEW j \in Session, mutex'[j] # Free
               PROVE  /\ handler'[mutex'[j]].pc = "sending"
                      /\ j \in handler'[mutex'[j]].targets
                      /\ \A i \in Session : mutex'[i] = mutex'[j] => i = j
    BY DEF MutexInv
  <2>1. j # k
    BY <1>9
  <2>2. mutex'[j] = mutex[j] /\ mutex[j] \in Session
    BY <2>1 DEF Typed
  <2>3. mutex[j] # s
    BY <1>1, <2>1 DEF DownInv, MutexInv
  <2>4. \A i \in Session : mutex'[i] = mutex'[j] => mutex[i] = mutex[j]
    BY <2>2 DEF Typed
  <2>5. handler'[mutex[j]] = handler[mutex[j]]
    BY <1>6, <2>2, <2>3
  <2> QED BY <2>2, <2>4, <2>5 DEF DownInv, MutexInv
<1>11. WireAt(k)'
  <2>1. wire[k] \in Seq(Packets) /\ Going(k) = Append(wire[k], p) /\ wire'[k] = Going(k)
    BY <1>1 DEF Typed, Going, p
  <2>2. Going(k)' = Going(k)
    BY <1>9, <2>1 DEF Going
  <2>3. Going(k)[Len(Going(k))] = p
    <3>1. Len(Append(wire[k], p)) = Len(wire[k]) + 1 /\ Append(wire[k], p)[Len(wire[k]) + 1] = p
      BY <1>4, <2>1, AppendProperties
    <3> QED BY <2>1, <3>1
  <2>4. WireAt(k)
    BY DEF DownInv
  <2> QED BY <1>5, <2>1, <2>2, <2>3, <2>4 DEF WireAt, Linked, FirstTo, SentTo
<1>12. ASSUME NEW j \in Session, j # k
       PROVE  WireAt(j)'
  <2>1. mutex'[j] = mutex[j] /\ wire'[j] = wire[j] /\ (mutex[j] # Free => mutex[j] \in Session)
    BY <1>12 DEF Typed
  <2>2. mutex[j] # s
    BY <1>1, <1>12 DEF DownInv, MutexInv
  <2>3. mutex[j] # Free => handler'[mutex[j]].writer = handler[mutex[j]].writer
    BY <1>6, <2>1, <2>2
  <2> QED BY <2>1, <2>3, WireFrame DEF DownInv
<1> QED BY <1>8, <1>10, <1>11, <1>12 DEF DownInv

\* The response is a packet by itself, sent when nobody holds the mutex.
LEMMA DownRespond ==
  ASSUME Typed, DownInv, NEW s \in Session, Respond(s)
  PROVE  DownInv'
<1>1. handler[s].pc = "respond" /\ mutex[s] = Free /\ handler[s] \in Handlers /\ UNCHANGED mutex
  BY DEF Respond, Typed
<1>2. handler'[s].pc = "recv" /\ \A t \in Session : t # s => handler'[t] = handler[t]
  <2>1. handler'[s] = [handler[s] EXCEPT !.pc = "recv"]
    BY DEF Respond, Typed
  <2>2. handler'[s].pc = "recv"
    BY <1>1, <2>1 DEF Handlers
  <2> QED BY <2>2 DEF Respond, Typed
<1>3. \A j \in Session : mutex[j] # Free => mutex[j] \in Session /\ mutex[j] # s
  BY <1>1 DEF DownInv, MutexInv, Typed
<1>4. ASSUME NEW t \in Session
      PROVE  WriterInv(t)'
  BY <1>2 DEF DownInv, WriterInv, Passed
<1>5. MutexInv'
  BY <1>1, <1>2, <1>3 DEF DownInv, MutexInv
<1>6. WireAt(s)'
  <2>1. wire[s] \in Seq(Packets) /\ Response \in Packets /\ wire'[s] = Append(wire[s], Response)
    BY NothingTyped DEF Typed, Respond
  <2>2. Going(s) = wire[s] /\ Going(s)' = Append(wire[s], Response)
    BY <1>1, <2>1 DEF Going
  <2>3. WireAt(s)
    BY DEF DownInv
  <2>4. Response \in FirstTo(s)
    BY DEF FirstTo
  <2>5. /\ Linked(Append(wire[s], Response), FirstTo(s), SentTo(s), "forward")
        /\ Append(wire[s], Response)[Len(Append(wire[s], Response))] = Response
        /\ Append(wire[s], Response)[1] = IF wire[s] = <<>> THEN Response ELSE wire[s][1]
    BY <1>1, <2>1, <2>2, <2>3, <2>4, LinkedAppend DEF WireAt
  <2>6. Ends(Response)
    BY EmptySeq DEF Ends, Response
  <2> QED BY <2>1, <2>2, <2>3, <2>4, <2>5, <2>6 DEF WireAt, Linked, FirstTo, SentTo
<1>7. ASSUME NEW j \in Session, j # s
      PROVE  WireAt(j)'
  <2>1. wire'[j] = wire[j]
    BY <1>7 DEF Respond, Typed
  <2> QED BY <1>1, <1>2, <1>3, <2>1, WireFrame DEF DownInv
<1> QED BY <1>4, <1>5, <1>6, <1>7 DEF DownInv

\* Nothing is going at the start, and the mutexes are free.
LEMMA DownInit == Init => DownInv
<1> SUFFICES ASSUME Init PROVE DownInv
  OBVIOUS
<1>1. \A s \in Session : handler[s].pc = "recv" /\ mutex[s] = Free /\ wire[s] = <<>>
  BY DEF Init
<1>2. MutexInv /\ \A s \in Session : WriterInv(s)
  BY <1>1 DEF MutexInv, WriterInv
<1>3. ASSUME NEW k \in Session
      PROVE  WireAt(k)
  <2>1. Going(k) = <<>> /\ Len(<<>>) = 0
    BY <1>1 DEF Going
  <2> QED BY <1>1, <2>1 DEF WireAt, Linked
<1> QED BY <1>2, <1>3 DEF DownInv

\* Every step keeps the order of the packets to the clients.
LEMMA DownNext == Typed /\ UpInv /\ DownInv /\ [Next]_vars => DownInv'
<1> SUFFICES ASSUME Typed, UpInv, DownInv, [Next]_vars PROVE DownInv'
  OBVIOUS
<1>1. ASSUME UNCHANGED <<handler, mutex, wire>>
      PROVE  DownInv'
  <2>1. \A s \in Session : WriterInv(s)'
    BY <1>1 DEF DownInv, WriterInv, Passed
  <2>2. MutexInv'
    BY <1>1 DEF DownInv, MutexInv
  <2>3. \A k \in Session : WireAt(k)'
    BY <1>1, WireFrame DEF DownInv
  <2> QED BY <2>1, <2>2, <2>3 DEF DownInv
<1>2. CASE UNCHANGED vars
  BY <1>1, <1>2 DEF vars
<1>3. ASSUME NEW s \in Session, Serve(s)
      PROVE  DownInv'
  <2>1. CASE Begin(s) \/ Write(s)
    BY <1>1, <2>1 DEF Begin, Write
  <2>2. CASE Receive(s) \/ ReceiveMore(s)
    BY <2>2, DownReceive
  <2>3. CASE Respond(s)
    BY <2>3, DownRespond
  <2>4. ASSUME NEW k \in Session, Lock(s, k)
        PROVE  DownInv'
    BY <2>4, DownLock
  <2>5. ASSUME NEW k \in Session, Send(s, k)
        PROVE  DownInv'
    <3>1. CASE Wrote(handler[s].writer).remaining = 0
      BY <2>5, <3>1, DownSendLast DEF Send
    <3>2. CASE Wrote(handler[s].writer).remaining # 0
      BY <2>5, <3>2, DownSendMore DEF Send
    <3> QED BY <3>1, <3>2
  <2> QED BY <1>3, <2>1, <2>2, <2>3, <2>4, <2>5 DEF Serve
<1>4. ASSUME NEW k \in Session, Read(k)
      PROVE  DownInv'
  BY <1>1, <1>4 DEF Read, Arrive, Handle, HandleMore
<1> QED BY <1>2, <1>3, <1>4 DEF Next, Finished

\* The wire itself is linked, with or without the packet about to be sent.
LEMMA WireLinked ==
  ASSUME Typed, DownInv, NEW k \in Session
  PROVE  /\ Linked(wire[k], FirstTo(k), SentTo(k), "forward")
         /\ wire[k] # <<>> => wire[k][1] \in FirstTo(k)
<1>1. /\ Going(k) \in Seq(Packets) /\ wire[k] \in Seq(Packets)
      /\ Len(Going(k)) >= Len(wire[k])
      /\ \A i \in 1..Len(wire[k]) : Going(k)[i] = wire[k][i]
  BY GoingTyped DEF DownInv
<1>2. Len(Going(k)) \in Nat /\ Len(wire[k]) \in Nat
      /\ (wire[k] # <<>> => Len(wire[k]) > 0) /\ (Going(k) = <<>> => Len(Going(k)) = 0)
  BY <1>1, Lengths
<1>3. WireAt(k)
  BY DEF DownInv
<1>4. ASSUME NEW i \in 1..(Len(wire[k]) - 1)
      PROVE  IF Ends(wire[k][i]) THEN wire[k][i + 1] \in FirstTo(k)
             ELSE CarriesOn(SentTo(k), "forward", wire[k][i], wire[k][i + 1])
  <2>1. i \in 1..(Len(Going(k)) - 1) /\ i \in 1..Len(wire[k]) /\ i + 1 \in 1..Len(wire[k])
    BY <1>1, <1>2
  <2>2. Going(k)[i] = wire[k][i] /\ Going(k)[i + 1] = wire[k][i + 1]
    BY <1>1, <2>1
  <2> QED BY <1>3, <2>1, <2>2 DEF WireAt, Linked
<1>5. ASSUME wire[k] # <<>>
      PROVE  wire[k][1] \in FirstTo(k)
  <2>1. Going(k) # <<>> /\ Going(k)[1] = wire[k][1]
    BY <1>1, <1>2, <1>5
  <2> QED BY <1>3, <2>1 DEF WireAt
<1> QED BY <1>4, <1>5 DEF Linked

\* Packets linked are packets of one message, together.
LEMMA LinkedTogether == Typed /\ DownInv => PacketsTogether
<1> SUFFICES ASSUME Typed, DownInv, NEW k \in Session, NEW i \in DOMAIN wire[k],
                    Unfinished(wire[k][i])
             PROVE  IF i = Len(wire[k]) THEN mutex[k] # Free
                    ELSE LET p == wire[k][i]
                             q == wire[k][i + 1]
                         IN /\ q.type = "forward"
                            /\ q.remaining = p.remaining - Len(p.part)
                            /\ Head(q.part) = <<p.part[Len(p.part)][1], p.part[Len(p.part)][2] + 1>>
  BY DEF PacketsTogether
<1> DEFINE p == wire[k][i]
           q == wire[k][i + 1]
<1>1. wire[k] \in Seq(Packets) /\ Len(wire[k]) \in Nat /\ DOMAIN wire[k] = 1..Len(wire[k])
  BY Lengths DEF Typed
<1>2. p \in Packets
  BY <1>1, ElementOfSeq
<1>3. ~Ends(p)
  <2>1. p.remaining \in Nat /\ p.part \in Seq(Bytes)
    BY <1>2 DEF Packets
  <2>2. Len(p.part) \in Nat
    BY <2>1, LenProperties
  <2>3. p.remaining > Len(p.part)
    BY DEF Unfinished
  <2> HIDE DEF p
  <2> QED BY <2>1, <2>2, <2>3 DEF Ends
<1>4. CASE i = Len(wire[k])
  <2>1. wire[k] # <<>>
    BY <1>1, <1>4, EmptySeq
  <2> QED BY <1>3, <1>4, <2>1 DEF DownInv, WireAt
<1>5. CASE i # Len(wire[k])
  <2>1. i \in 1..(Len(wire[k]) - 1)
    BY <1>1, <1>5
  <2>2. CarriesOn(SentTo(k), "forward", p, q)
    BY <1>3, <2>1, WireLinked DEF Linked
  <2>3. PICK l \in SentTo(k) : \E o \in 0..Len(l.text) :
          /\ After(l, o) < Len(l.text)
          /\ p = PacketAt(l, o, "forward")
          /\ q = PacketAt(l, After(l, o), "forward")
    BY <2>2 DEF CarriesOn
  <2>4. PICK o \in 0..Len(l.text) :
          /\ After(l, o) < Len(l.text)
          /\ p = PacketAt(l, o, "forward")
          /\ q = PacketAt(l, After(l, o), "forward")
    BY <2>3
  <2> DEFINE a == After(l, o)
             b == After(l, a)
  <2>5. l \in Letters /\ Len(l.text) \in Nat /\ \E m \in Posts : l.text = Text(m)
    BY PostsSent, LenProperties DEF Letters
  <2>6. PICK m \in Posts : l.text = Text(m)
    BY <2>5
  <2>7. \A j \in 1..Len(l.text) : l.text[j] = <<m.id, j>>
    BY <2>6, TextBytes
  <2> HIDE DEF p, q
  <2>8. /\ a \in o..Len(l.text) /\ (o < Len(l.text) => o < a)
        /\ p.remaining = Len(l.text) - o /\ Len(p.part) = a - o
        /\ \A j \in 1..(a - o) : p.part[j] = l.text[o + j]
    BY <2>4, <2>5, AtPlace
  <2>9. a \in 0..Len(l.text) /\ a < Len(l.text) /\ o < a /\ a \in Nat
    <3> HIDE DEF a
    <3> QED BY <2>4, <2>5, <2>8 DEF a
  <2>10. /\ b \in a..Len(l.text) /\ a < b /\ q \in Packets
         /\ q.type = "forward" /\ q.remaining = Len(l.text) - a /\ Len(q.part) = b - a
         /\ \A j \in 1..(b - a) : q.part[j] = l.text[a + j]
    BY <2>4, <2>5, <2>9, AtPlace
  <2> HIDE DEF a, b
  <2>11. q.remaining = p.remaining - Len(p.part)
    BY <2>5, <2>8, <2>9, <2>10
  <2>12. p.part[Len(p.part)] = <<m.id, a>>
    <3>1. a - o \in 1..(a - o) /\ o + (a - o) = a /\ a \in 1..Len(l.text)
      BY <2>5, <2>9
    <3> QED BY <2>7, <2>8, <3>1
  <2>13. Head(q.part) = <<m.id, a + 1>>
    <3>1. 1 \in 1..(b - a) /\ a + 1 \in 1..Len(l.text) /\ b - a > 0
      BY <2>5, <2>9, <2>10
    <3>2. q.part[1] = <<m.id, a + 1>>
      BY <2>7, <2>10, <3>1
    <3>3. q.part \in Seq(Bytes)
      BY <2>10 DEF Packets
    <3>4. q.part # <<>>
      BY <2>10, <3>1, EmptySeq
    <3> QED BY <3>2, <3>3, <3>4, Lengths
  <2>14. Head(q.part) = <<p.part[Len(p.part)][1], p.part[Len(p.part)][2] + 1>>
    BY <2>12, <2>13
  <2> QED BY <1>5, <2>10, <2>11, <2>14 DEF p, q
<1> QED BY <1>4, <1>5

\* The packets of a message stand together on every connection, in order,
\* whoever else sends over it: sendOutPacket holds the mutex of the socket from
\* the first packet of a message to the last (server.cpp, sendOutPacket).
THEOREM MessagesWhole == Spec => []PacketsTogether
<1>1. Init => UpInv /\ DownInv
  BY UpInit, DownInit
<1>2. Typed /\ (UpInv /\ DownInv) /\ [Next]_vars => (UpInv /\ DownInv)'
  BY UpNext, DownNext
<1>3. Typed /\ UpInv /\ DownInv => PacketsTogether
  BY LinkedTogether
<1> QED BY <1>1, <1>2, <1>3, AlwaysTyped, PTL DEF Spec

-----------------------------------------------------------------------------
(* The receiving client *)

\* A client has shown nothing at the start.
LEMMA ClientInit == Init => ClientInv
<1> SUFFICES ASSUME Init, NEW k \in Session PROVE ClientAt(k)
  BY DEF ClientInv
<1>1. client[k].pc = "idle" /\ taken[k] = 0 /\ shown[k] = <<>>
  BY DEF Init
<1> QED BY <1>1 DEF ClientAt

\* What ClientAt reads of its session: the packet taken last, and no later one.
LEMMA ClientFrame ==
  ASSUME NEW k \in Session, ClientAt(k),
         client'[k] = client[k], taken'[k] = taken[k], shown'[k] = shown[k],
         taken[k] > 0 => wire'[k][taken[k]] = wire[k][taken[k]]
  PROVE  ClientAt(k)'
BY DEF ClientAt, SentTo

\* Handlers only add to what is on the wire.
LEMMA WireGrows ==
  ASSUME Typed, NEW s \in Session, Serve(s), NEW k \in Session, NEW i \in 1..Len(wire[k])
  PROVE  wire'[k][i] = wire[k][i]
<1>1. ASSUME NEW j \in Session, NEW p \in Packets, wire' = [wire EXCEPT ![j] = Append(@, p)]
      PROVE  wire'[k][i] = wire[k][i]
  <2>1. wire[k] \in Seq(Packets) /\ wire'[k] = IF k = j THEN Append(wire[k], p) ELSE wire[k]
    BY <1>1 DEF Typed
  <2>2. Append(wire[k], p)[i] = wire[k][i]
    BY <2>1, AppendProperties
  <2> QED BY <2>1, <2>2
<1>2. CASE Respond(s)
  BY <1>1, <1>2, NothingTyped DEF Respond
<1>3. ASSUME NEW j \in Session, Send(s, j)
      PROVE  wire'[k][i] = wire[k][i]
  <2>1. handler[s].writer \in Writers
    BY DEF Typed, Handlers
  <2>2. write_to_packet(handler[s].writer, "forward") \in Packets
    BY <2>1, Written
  <2> QED BY <1>1, <1>3, <2>2 DEF Send
<1>4. CASE UNCHANGED wire
  BY <1>4
<1> QED BY <1>2, <1>3, <1>4 DEF Serve, Begin, Write, Receive, ReceiveMore, Lock

\* A letter that is read to its end is shown as it was sent.
LEMMA ShownLetter ==
  ASSUME Typed, NEW k \in Session, NEW l \in SentTo(k),
         Show(k, ReaderAt(l, Len(l.text))),
         \A i \in DOMAIN shown[k] : shown[k][i] \in SentTo(k)
  PROVE  \A i \in DOMAIN shown'[k] : shown'[k][i] \in SentTo(k)
<1>1. l \in Letters
  BY PostsSent
<1>2. SubSeq(l.text, 1, Len(l.text)) = l.text
  BY <1>1, SubSeqFull DEF Letters
<1> DEFINE e == [name |-> ReaderAt(l, Len(l.text)).name, text |-> ReaderAt(l, Len(l.text)).text]
<1>3. e = l /\ e \in Shows
  BY <1>1, <1>2 DEF ReaderAt, Letters, Shows, Names
<1>4. shown[k] \in Seq(Shows) /\ shown'[k] = Append(shown[k], e)
  BY DEF Typed, Show
<1> HIDE DEF e
<1>5. /\ Append(shown[k], e) \in Seq(Shows) /\ Len(Append(shown[k], e)) = Len(shown[k]) + 1
      /\ \A i \in 1..Len(shown[k]) : Append(shown[k], e)[i] = shown[k][i]
      /\ Append(shown[k], e)[Len(shown[k]) + 1] = e
  BY <1>3, <1>4, AppendProperties
<1>6. Len(shown[k]) \in Nat /\ DOMAIN shown[k] = 1..Len(shown[k])
      /\ DOMAIN shown'[k] = 1..(Len(shown[k]) + 1)
  BY <1>4, <1>5, Lengths
<1> SUFFICES ASSUME NEW i \in 1..(Len(shown[k]) + 1) PROVE shown'[k][i] \in SentTo(k)
  BY <1>6
<1>7. CASE i = Len(shown[k]) + 1
  BY <1>3, <1>4, <1>5, <1>7
<1>8. CASE i # Len(shown[k]) + 1
  <2>1. i \in 1..Len(shown[k])
    BY <1>6, <1>8
  <2> QED BY <1>4, <1>5, <1>6, <2>1
<1> QED BY <1>7, <1>8

\* The first packet of a message, which may be its last.
LEMMA ClientHandle ==
  ASSUME OneEach, Typed, DownInv, NEW k \in Session, ClientAt(k), Handle(k), ~client[k].early
  PROVE  ClientAt(k)'
<1> DEFINE n == taken[k] + 1
           p == wire[k][n]
<1>1. /\ client[k] \in Clients /\ client[k].pc = "idle" /\ n \in 1..Len(wire[k])
      /\ taken[k] \in Nat /\ wire[k] \in Seq(Packets) /\ taken[k] < arrived[k]
  BY NextTaken DEF Handle, Typed
<1>2. taken'[k] = n /\ wire'[k] = wire[k] /\ n > 0
  BY <1>1 DEF Handle, Typed
<1>3. p \in FirstTo(k)
  <2>1. CASE taken[k] = 0
    <3>1. wire[k] # <<>>
      BY <1>1, EmptySeq
    <3> QED BY <2>1, <3>1, WireLinked
  <2>2. CASE taken[k] > 0
    <3>1. taken[k] \in 1..(Len(wire[k]) - 1)
      BY <1>1, <2>2, Lengths
    <3>2. Ends(wire[k][taken[k]])
      BY <1>1, <2>2 DEF ClientAt
    <3> QED BY <3>1, <3>2, WireLinked DEF Linked
  <2> QED BY <1>1, <2>1, <2>2
<1>4. CASE p = Response
  <2>1. p.type = "response" /\ Ends(p)
    BY <1>4, EmptySeq DEF Response, Ends
  <2>2. UNCHANGED <<client, shown>>
    BY <2>1 DEF Handle
  <2> HIDE DEF n
  <2> QED BY <1>1, <1>2, <2>1, <2>2 DEF ClientAt, SentTo
<1>5. CASE p # Response
  <2>1. PICK l \in SentTo(k) : p = PacketAt(l, 0, "forward")
    BY <1>3, <1>5 DEF FirstTo
  <2> DEFINE a == After(l, 0)
             r == ReaderAt(l, a)
  <2>2. l \in Letters /\ Len(l.text) \in Nat /\ 0 \in 0..Len(l.text)
    BY PostsSent, LenProperties DEF Letters
  <2>3. a \in 0..Len(l.text) /\ p.type = "forward" /\ (Ends(p) <=> a = Len(l.text))
    BY <2>1, <2>2, AtPlace
  <2>4. ReadFirst(p) = r
    BY <2>1, <2>2, ReadBack
  <2>5. r.remaining = Len(l.text) - a
    BY DEF ReaderAt
  <2> HIDE DEF n, p, r, a
  <2>6. CASE a = Len(l.text)
    <3>1. Show(k, r) /\ UNCHANGED client
      BY <2>2, <2>3, <2>4, <2>5, <2>6 DEF Handle, p, n
    <3>2. \A i \in DOMAIN shown'[k] : shown'[k][i] \in SentTo(k)
      BY <2>6, <3>1, ShownLetter DEF ClientAt, r
    <3>3. Ends(wire'[k][taken'[k]])
      BY <1>2, <2>3, <2>6 DEF p
    <3> QED BY <1>1, <3>1, <3>2, <3>3 DEF ClientAt, SentTo
  <2>7. CASE a # Len(l.text)
    <3>1. r.remaining # 0 /\ a < Len(l.text)
      BY <2>2, <2>3, <2>5, <2>7
    <3>2. UNCHANGED shown /\ \E b \in {client[k].buffer, JunkPacket} :
            client' = [client EXCEPT ![k] = [@ EXCEPT !.pc = "more", !.reader = r, !.buffer = b]]
      BY <2>3, <2>4, <3>1 DEF Handle, p, n
    <3>3. client'[k].pc = "more" /\ client'[k].reader = r /\ client'[k].early = client[k].early
      <4>1. PICK b \in {client[k].buffer, JunkPacket} :
              client' = [client EXCEPT ![k] = [@ EXCEPT !.pc = "more", !.reader = r, !.buffer = b]]
        BY <3>2
      <4>2. client'[k] = [client[k] EXCEPT !.pc = "more", !.reader = r, !.buffer = b]
        BY <4>1 DEF Typed
      <4> QED BY <1>1, <4>2 DEF Clients
    <3>4. wire'[k][taken'[k]] = PacketAt(l, 0, "forward")
      BY <1>2, <2>1 DEF p
    <3> QED BY <1>2, <2>2, <3>1, <3>2, <3>3, <3>4 DEF ClientAt, SentTo, r, a
  <2> QED BY <2>6, <2>7
<1> QED BY <1>4, <1>5

\* A further packet, which is the next of the same message.
LEMMA ClientHandleMore ==
  ASSUME Typed, DownInv, NEW k \in Session, ClientAt(k), HandleMore(k), ~client'[k].early
  PROVE  ClientAt(k)'
<1> DEFINE n == taken[k] + 1
           q == wire[k][n]
<1>1. client[k].pc = "more" /\ taken[k] < arrived[k] /\ ~client[k].early
  <2>1. client'[k].early = (client[k].early \/ ~(taken[k] < arrived[k]))
    BY DEF HandleMore, Typed
  <2>2. client[k].early \in BOOLEAN
    BY DEF Typed, Clients
  <2>3. client[k].pc = "more"
    BY DEF HandleMore
  <2> QED BY <2>1, <2>2, <2>3
<1>2. n \in 1..Len(wire[k]) /\ taken[k] \in Nat /\ wire[k] \in Seq(Packets) /\ Len(wire[k]) \in Nat
  BY <1>1, NextTaken, LenProperties DEF Typed
<1>3. taken'[k] = n /\ wire'[k] = wire[k] /\ n > 0
  BY <1>1, <1>2 DEF HandleMore, Typed
<1>a. PICK l \in SentTo(k) : \E o \in 0..Len(l.text) :
        /\ After(l, o) < Len(l.text)
        /\ wire[k][taken[k]] = PacketAt(l, o, "forward")
        /\ client[k].reader = ReaderAt(l, After(l, o))
  BY <1>1 DEF ClientAt
<1>4. PICK o \in 0..Len(l.text) :
        /\ After(l, o) < Len(l.text)
        /\ wire[k][taken[k]] = PacketAt(l, o, "forward")
        /\ client[k].reader = ReaderAt(l, After(l, o))
  BY <1>a
<1> DEFINE a == After(l, o)
           c == After(l, a)
           r == ReaderAt(l, c)
<1>5. l \in Letters /\ Len(l.text) \in Nat /\ o \in Nat /\ \E m \in Posts : l.text = Text(m)
  BY PostsSent, LenProperties DEF Letters
<1>6. a \in o..Len(l.text) /\ (o < Len(l.text) => o < a)
      /\ (Ends(PacketAt(l, o, "forward")) <=> a = Len(l.text))
  BY <1>5, AtPlace
<1>7. a < Len(l.text) /\ ~Ends(PacketAt(l, o, "forward"))
  <2> HIDE DEF a
  <2> QED BY <1>4, <1>5, <1>6 DEF a
<1>8. a \in 1..(Len(l.text) - 1) /\ a \in 0..Len(l.text)
  <2> HIDE DEF a
  <2> QED BY <1>5, <1>6, <1>7
<1>9. q = PacketAt(l, a, "forward")
  <2>1. taken[k] \in 1..(Len(wire[k]) - 1)
    <3>1. taken[k] > 0
      BY <1>1 DEF ClientAt
    <3> QED BY <1>2, <3>1
  <2>2. CarriesOn(SentTo(k), "forward", PacketAt(l, o, "forward"), q)
    BY <1>4, <1>7, <2>1, WireLinked DEF Linked
  <2>3. PICK j \in SentTo(k) : \E e \in 0..Len(j.text) :
          /\ After(j, e) < Len(j.text)
          /\ PacketAt(l, o, "forward") = PacketAt(j, e, "forward")
          /\ q = PacketAt(j, After(j, e), "forward")
    BY <2>2 DEF CarriesOn
  <2>4. PICK e \in 0..Len(j.text) :
          /\ After(j, e) < Len(j.text)
          /\ PacketAt(l, o, "forward") = PacketAt(j, e, "forward")
          /\ q = PacketAt(j, After(j, e), "forward")
    BY <2>3
  <2>5. j \in Letters /\ \E m \in Posts : j.text = Text(m)
    BY PostsSent
  <2>6. PacketAt(j, After(j, e), "forward") = PacketAt(l, a, "forward")
    BY <1>5, <2>4, <2>5, NextPacket
  <2> QED BY <2>4, <2>6
<1> HIDE DEF a
<1>10. /\ c \in a..Len(l.text) /\ (Ends(q) <=> c = Len(l.text))
       /\ Fits(client[k].reader, "forward", q) /\ ReadMore(client[k].reader, q) = r
  <2>1. client[k].reader = ReaderAt(l, a)
    BY <1>4 DEF a
  <2> QED BY <1>5, <1>8, <1>9, <2>1, AtPlace, ReadOn
<1>11. r.remaining = Len(l.text) - c
  BY DEF ReaderAt
<1> HIDE DEF c, r, q, n
<1>12. /\ client'[k].pc = IF r.remaining = 0 THEN "idle" ELSE "more"
       /\ client'[k].reader = r
       /\ IF r.remaining = 0 THEN Show(k, r) ELSE UNCHANGED shown
  BY <1>1, <1>10 DEF HandleMore, Typed, q, n
<1>13. CASE c = Len(l.text)
  <2>1. client'[k].pc = "idle" /\ Show(k, r)
    BY <1>5, <1>11, <1>12, <1>13
  <2>2. \A i \in DOMAIN shown'[k] : shown'[k][i] \in SentTo(k)
    BY <1>1, <1>13, <2>1, ShownLetter DEF ClientAt, r
  <2>3. Ends(wire'[k][taken'[k]])
    BY <1>3, <1>10, <1>13 DEF q
  <2> QED BY <2>1, <2>2, <2>3 DEF ClientAt, SentTo
<1>14. CASE c # Len(l.text)
  <2>1. r.remaining # 0 /\ c < Len(l.text)
    BY <1>5, <1>8, <1>10, <1>11, <1>14
  <2>2. client'[k].pc = "more" /\ UNCHANGED shown
    BY <1>12, <2>1
  <2>3. wire'[k][taken'[k]] = PacketAt(l, a, "forward")
    BY <1>3, <1>9 DEF q
  <2> QED BY <1>1, <1>3, <1>8, <1>12, <2>1, <2>2, <2>3 DEF ClientAt, SentTo, r, c
<1> QED BY <1>13, <1>14

\* Every step keeps what a client has put together.
LEMMA ClientNext ==
  ASSUME OneEach
  PROVE  Typed /\ DownInv /\ ClientInv /\ [Next]_vars => ClientInv'
<1> SUFFICES ASSUME Typed, DownInv, ClientInv, [Next]_vars, NEW k \in Session
             PROVE  ClientAt(k)'
  BY DEF ClientInv
<1>1. ClientAt(k)
  BY DEF ClientInv
<1>2. CASE UNCHANGED vars
  BY <1>1, <1>2, ClientFrame DEF vars
<1>3. ASSUME NEW s \in Session, Serve(s)
      PROVE  ClientAt(k)'
  <2>1. UNCHANGED <<client, taken, shown>>
    BY <1>3 DEF Serve, Begin, Write, Receive, ReceiveMore, Respond, Lock, Send, clientVars
  <2>2. taken[k] > 0 => taken[k] \in 1..Len(wire[k])
    <3>1. taken[k] \in Nat /\ arrived[k] \in Nat /\ taken[k] <= arrived[k]
          /\ arrived[k] <= Len(wire[k]) /\ wire[k] \in Seq(Packets)
      BY DEF Typed, PlacesInv
    <3>2. Len(wire[k]) \in Nat
      BY <3>1, LenProperties
    <3> QED BY <3>1, <3>2
  <2> QED BY <1>1, <1>3, <2>1, <2>2, WireGrows, ClientFrame
<1>4. ASSUME NEW j \in Session, Read(j)
      PROVE  ClientAt(k)'
  <2>1. CASE j # k
    <3>1. client'[k] = client[k] /\ taken'[k] = taken[k] /\ shown'[k] = shown[k] /\ wire' = wire
      BY <1>4, <2>1 DEF Read, Arrive, Handle, HandleMore, Show, Typed
    <3> QED BY <1>1, <3>1, ClientFrame
  <2>2. CASE Arrive(k)
    <3>1. UNCHANGED <<client, taken, shown, wire>>
      BY <2>2 DEF Arrive
    <3> QED BY <1>1, <3>1, ClientFrame
  <2>3. CASE Handle(k)
    <3>1. CASE client[k].early
      <4>1. client'[k].early
        <5>1. client[k] \in Clients
          BY DEF Typed
        <5>2. \/ client'[k] = client[k]
              \/ \E b \in {client[k].buffer, JunkPacket} : \E r :
                   client'[k] = [client[k] EXCEPT !.pc = "more", !.reader = r, !.buffer = b]
          BY <2>3 DEF Handle, Typed
        <5> QED BY <3>1, <5>1, <5>2 DEF Clients
      <4> QED BY <4>1 DEF ClientAt
    <3>2. CASE ~client[k].early
      BY <1>1, <2>3, <3>2, ClientHandle
    <3> QED BY <3>1, <3>2
  <2>4. CASE HandleMore(k)
    <3>1. CASE client'[k].early
      BY <3>1 DEF ClientAt
    <3>2. CASE ~client'[k].early
      BY <1>1, <2>4, <3>2, ClientHandleMore
    <3> QED BY <3>1, <3>2
  <2> QED BY <1>4, <2>1, <2>2, <2>3, <2>4 DEF Read
<1> QED BY <1>2, <1>3, <1>4 DEF Next, Finished

\* What has been put together is what is shown.
LEMMA ClientShows == ClientInv => ArrivedIsShownRight
<1> SUFFICES ASSUME ClientInv, NEW k \in Session, ~client[k].early
             PROVE  ShownRight(k)
  BY DEF ArrivedIsShownRight
<1>1. client[k].pc # "thrown" /\ \A i \in DOMAIN shown[k] : shown[k][i] \in SentTo(k)
  BY DEF ClientInv, ClientAt
<1>2. ASSUME NEW i \in DOMAIN shown[k]
      PROVE  \E s \in Session : \E m \in Posted(s) :
               /\ m.to = connectedUser[k]
               /\ shown[k][i] = [name |-> connectedUser[s], text |-> Text(m)]
  BY ZenonT(30), <1>1 DEF SentTo, Letter
<1> QED BY <1>1, <1>2 DEF ShownRight

\* What a client shows is a message that the user it names sent to its user, all
\* of it, and no packet ends the client, if it never reads a packet before it
\* has come, and no user has two sessions (ClientSocketManager::handlePacket).
THEOREM ShownAsSent ==
  ASSUME OneEach
  PROVE  Spec => []ArrivedIsShownRight
<1>1. Init => UpInv /\ DownInv /\ ClientInv
  BY UpInit, DownInit, ClientInit
<1>2. Typed /\ (UpInv /\ DownInv /\ ClientInv) /\ [Next]_vars => (UpInv /\ DownInv /\ ClientInv)'
  BY UpNext, DownNext, ClientNext
<1>3. ClientInv => ArrivedIsShownRight
  BY ClientShows
<1> QED BY <1>1, <1>2, <1>3, AlwaysTyped, PTL DEF Spec

=============================================================================
