-------------------------- MODULE MillenniumProofs --------------------------
(***************************************************************************)
(* Theorems about Millennium, for any machines, users, codebooks, habits   *)
(* and bounds: the type invariant of clients and server; that a client     *)
(* files under the user whom the server has logged in; that what it files  *)
(* is what was sent; that every request that waits can be answered where   *)
(* its recipient is; that nobody is shown who is no friend; and that the   *)
(* page is the conversation with the friend who was chosen.                *)
(***************************************************************************)
EXTENDS MillenniumProperties, SequenceTheorems, FiniteSetTheorems,
        WellFoundedInduction, TLAPS

-----------------------------------------------------------------------------
(* The state of a client *)

\* What a user logged in, a form or a page may have as a name.
Handle == User \cup {NoName}
Boxes == [id : Nat, name : User, status : {"ONLINE", "OFFLINE"}]
MessageRows == [friend_id : Nat \ {0}, message : Nat, original : BOOLEAN]

\* The states of a client that shows the page p.
Programs(p) ==
  [friends : Seq(FriendRows), messages : Seq(MessageRows),
   logged_in_user : Handle, queried_friend : Handle,
   screen : {"off", "login", "main", "error"}, creating_account : BOOLEAN,
   username : Handle, waiting : BOOLEAN, boxes : SUBSET Boxes,
   requestWidgets : [User -> {"none", "pending", "buttons"}], page : {p},
   books : [BookName -> Keyword \cup {NoBook}], current : BookName, modal : BOOLEAN]

\* Messages have friends, entries have ids of their own, and there is a codebook.
Sound(s) ==
  /\ s \in Programs(s.page)
  /\ \A i \in DOMAIN s.messages : s.messages[i].friend_id \in DOMAIN s.friends
  /\ IsFiniteSet(s.boxes) /\ \A b, d \in s.boxes : (b.id = d.id) = (b.name = d.name)
  /\ current_codebook(s) \in Keyword

\* No row of a friend changes.
Keeps(s, t) ==
  /\ Len(s.friends) <= Len(t.friends)
  /\ \A i \in DOMAIN s.friends : t.friends[i] = s.friends[i]

\* What the widgets do leaves the login as it is.
SameLogin(s, t) ==
  /\ t.screen = s.screen /\ t.waiting = s.waiting
  /\ t.username = s.username /\ t.logged_in_user = s.logged_in_user

\* From s to t nothing is said or read.
Silent(s, t) == Sound(t) /\ Keeps(s, t) /\ SameLogin(s, t) /\ t.messages = s.messages

\* A sound state is a record with these fields.
LEMMA SoundFields ==
  ASSUME NEW s, Sound(s)
  PROVE  /\ s.friends \in Seq(FriendRows) /\ s.messages \in Seq(MessageRows)
         /\ s.logged_in_user \in Handle /\ s.queried_friend \in Handle
         /\ s.screen \in {"off", "login", "main", "error"}
         /\ s.creating_account \in BOOLEAN
         /\ s.username \in Handle /\ s.waiting \in BOOLEAN
         /\ s.boxes \in SUBSET Boxes
         /\ s.requestWidgets \in [User -> {"none", "pending", "buttons"}]
         /\ s.books \in [BookName -> Keyword \cup {NoBook}]
         /\ s.current \in BookName /\ s.modal \in BOOLEAN
  BY DEF Sound, Programs

\* A new entry whose id and name are not there keeps the entries apart.
LEMMA AddNewFriendSilent ==
  ASSUME NEW s, Sound(s), NEW id \in Nat, NEW n \in User, NEW st \in {"ONLINE", "OFFLINE"}
  PROVE  Silent(s, addNewFriend(s, id, n, st))
<1> DEFINE b == [id |-> id, name |-> n, status |-> st]
           t == [s EXCEPT !.boxes = s.boxes \cup {b}]
<1>1. Silent(s, s)
  BY SoundFields DEF Silent, Keeps, SameLogin
<1>2. ASSUME \A x \in s.boxes : x.id # id /\ x.name # n PROVE Silent(s, t)
  <2>1. b \in Boxes /\ s.boxes \in SUBSET Boxes
    BY SoundFields DEF Boxes
  <2>2. \A x, y \in s.boxes \cup {b} : (x.id = y.id) = (x.name = y.name)
    BY <1>2, <2>1 DEF Sound, Boxes
  <2> HIDE DEF b
  <2>3. t \in Programs(s.page)
    BY <2>1 DEF Sound, Programs
  <2>4. /\ t.page = s.page /\ t.boxes = s.boxes \cup {b}
        /\ t.friends = s.friends /\ t.messages = s.messages
        /\ t.books = s.books /\ t.current = s.current
        /\ SameLogin(s, t)
    BY DEF Sound, Programs, SameLogin
  <2> HIDE DEF t
  <2>5. IsFiniteSet(t.boxes)
    BY <2>4, FS_AddElement DEF Sound
  <2>6. Sound(t)
    BY <2>2, <2>3, <2>4, <2>5 DEF Sound, current_codebook
  <2> QED
    BY <2>4, <2>6, SoundFields DEF Silent, Keeps
<1>3. addNewFriend(s, id, n, st) = IF \E x \in s.boxes : x.id = id \/ x.name = n THEN s ELSE t
  BY DEF addNewFriend
<1> QED
  BY <1>1, <1>2, <1>3

\* What is silent step by step is silent.
LEMMA SilentTwice ==
  ASSUME NEW s, Sound(s), NEW t, Silent(s, t), NEW u, Silent(t, u)
  PROVE  Silent(s, u)
<1>1. s.friends \in Seq(FriendRows) /\ t.friends \in Seq(FriendRows)
  BY SoundFields DEF Silent
<1>2. \A i \in DOMAIN s.friends : i \in DOMAIN t.friends
  BY <1>1, LenProperties DEF Silent, Keeps
<1>3. u.friends \in Seq(FriendRows)
  BY SoundFields DEF Silent
<1>4. Keeps(s, u)
  BY <1>1, <1>2, <1>3, LenProperties DEF Silent, Keeps
<1> QED
  BY <1>4 DEF Silent, SameLogin

\* The least of a set of numbers is in it, and no other is.
LEMMA LeastIs ==
  ASSUME NEW T \in SUBSET Nat, T # {}
  PROVE  Min(T) \in T /\ \A y \in T : Min(T) <= y
<1>1. PICK x \in T : \A y \in T : ~ (<<y, x>> \in OpToRel(<, Nat))
  BY NatLessThanWellFounded, WFMin
<1>2. \A y \in T : x <= y
  <2> SUFFICES ASSUME NEW y \in T PROVE x <= y
    OBVIOUS
  <2>1. y \in Nat /\ x \in Nat
    OBVIOUS
  <2>2. ~ (y < x)
    BY <1>1, <2>1 DEF OpToRel
  <2> QED
    BY <2>1, <2>2
<1> QED
  BY <1>2 DEF Min

\* The row of a friend is there and is the friend's.
LEMMA FriendIdIs ==
  ASSUME NEW s, Sound(s), NEW n \in User, hasFriend(s, n)
  PROVE  /\ getFriendId(s, n) \in DOMAIN s.friends
         /\ s.friends[getFriendId(s, n)] = [friend_name |-> n, user |-> s.logged_in_user]
<1>1. s.friends \in Seq(FriendRows)
  BY SoundFields
<1>2. DOMAIN s.friends \subseteq Nat
  BY <1>1, LenProperties
<1>3. FriendIds(s, n) \in SUBSET Nat /\ FriendIds(s, n) # {}
  BY <1>2 DEF FriendIds, hasFriend
<1>4. getFriendId(s, n) \in FriendIds(s, n)
  BY <1>3, LeastIs DEF getFriendId
<1> QED
  BY <1>4 DEF FriendIds

-----------------------------------------------------------------------------
(* Slots that say and read nothing *)

\* A friend who is added has a row and an entry.
LEMMA InsertFriendSilent ==
  ASSUME NEW s, Sound(s), NEW n \in User
  PROVE  Silent(s, insertFriend(s, n))
<1> DEFINE r == [friend_name |-> n, user |-> s.logged_in_user]
           t == [s EXCEPT !.friends = Append(s.friends, r)]
<1>1. Silent(s, s)
  BY SoundFields DEF Silent, Keeps, SameLogin
<1>2. r \in FriendRows /\ s.friends \in Seq(FriendRows)
  BY SoundFields DEF FriendRows, Handle
<1> HIDE DEF r
<1>3. /\ Append(s.friends, r) \in Seq(FriendRows)
      /\ Len(Append(s.friends, r)) = Len(s.friends) + 1
      /\ \A i \in 1..Len(s.friends) : Append(s.friends, r)[i] = s.friends[i]
      /\ DOMAIN s.friends = 1..Len(s.friends) /\ Len(s.friends) \in Nat
      /\ DOMAIN Append(s.friends, r) = 1..(Len(s.friends) + 1)
  BY <1>2, AppendProperties, LenProperties
<1>4. t \in Programs(s.page)
  BY <1>3 DEF Sound, Programs
<1>5. /\ t.page = s.page /\ t.boxes = s.boxes
      /\ t.friends = Append(s.friends, r) /\ t.messages = s.messages
      /\ t.books = s.books /\ t.current = s.current
      /\ SameLogin(s, t)
  BY DEF Sound, Programs, SameLogin
<1>6. t = FriendRowInserted(s, n)
  BY DEF FriendRowInserted, r
<1> HIDE DEF t
<1>7. \A i \in DOMAIN t.messages : t.messages[i].friend_id \in DOMAIN t.friends
  BY <1>3, <1>5 DEF Sound
<1>8. Sound(t)
  BY <1>4, <1>5, <1>7 DEF Sound, current_codebook
<1>9. Silent(s, t)
  BY <1>3, <1>5, <1>8 DEF Silent, Keeps
<1>10. Len(t.friends) \in Nat
  BY <1>3, <1>5
<1>11. Silent(t, addNewFriend(t, Len(t.friends), n, "OFFLINE"))
  BY <1>8, <1>10, AddNewFriendSilent
<1>12. Silent(s, addNewFriend(t, Len(t.friends), n, "OFFLINE"))
  BY <1>9, <1>11, SilentTwice
<1> QED
  BY <1>1, <1>6, <1>12 DEF insertFriend

\* Changing the entries alone, their ids and names as far apart as before.
LEMMA BoxesSilent ==
  ASSUME NEW s, Sound(s), NEW bs \in SUBSET Boxes, IsFiniteSet(bs),
         \A b, d \in bs : (b.id = d.id) = (b.name = d.name)
  PROVE  Silent(s, [s EXCEPT !.boxes = bs])
<1> DEFINE t == [s EXCEPT !.boxes = bs]
<1>1. t \in Programs(s.page)
  BY DEF Sound, Programs
<1>2. /\ t.page = s.page /\ t.boxes = bs
      /\ t.friends = s.friends /\ t.messages = s.messages
      /\ t.books = s.books /\ t.current = s.current
      /\ SameLogin(s, t)
  BY DEF Sound, Programs, SameLogin
<1> HIDE DEF t
<1>3. Sound(t)
  BY <1>1, <1>2 DEF Sound, current_codebook
<1>4. Silent(s, t)
  BY <1>2, <1>3, SoundFields DEF Silent, Keeps
<1> QED
  BY <1>4 DEF t

\* A status finds an entry, or makes entry and row.
LEMMA UpdateFriendStatusSilent ==
  ASSUME NEW s, Sound(s), NEW n \in User, NEW st \in {"ONLINE", "OFFLINE"}
  PROVE  Silent(s, updateFriendStatus(s, n, st))
<1> DEFINE with(b) == IF b.name = n THEN [b EXCEPT !.status = st] ELSE b
           bs == {with(b) : b \in s.boxes}
           t == addNewFriend(s, Cardinality(s.boxes), n, st)
<1>1. s.boxes \in SUBSET Boxes
  BY SoundFields
<1>2. \A b \in Boxes : with(b) \in Boxes /\ with(b).id = b.id /\ with(b).name = b.name
  BY DEF Boxes
<1> HIDE DEF with
<1>3. bs \in SUBSET Boxes
  BY <1>1, <1>2
<1>4. \A b, d \in bs : (b.id = d.id) = (b.name = d.name)
  BY <1>1, <1>2 DEF Sound
<1>5. Silent(s, [s EXCEPT !.boxes = bs])
  <2>1. [b \in s.boxes |-> with(b)] \in Surjection(s.boxes, bs)
    BY DEF Surjection
  <2>2. IsFiniteSet(bs)
    BY <2>1, FS_Surjection DEF Sound
  <2> QED
    BY <1>3, <1>4, <2>2, BoxesSilent
<1>6. Silent(s, t)
  <2>1. Cardinality(s.boxes) \in Nat
    BY FS_CardinalityType DEF Sound
  <2> QED
    BY <2>1, AddNewFriendSilent
<1>7. Silent(s, insertFriend(t, n))
  <2>1. Silent(t, insertFriend(t, n))
    BY <1>6, InsertFriendSilent DEF Silent
  <2> QED
    BY <1>6, <2>1, SilentTwice
<1> QED
  BY <1>5, <1>7 DEF updateFriendStatus, with

\* The list of friends that a login brings gives each a place of its own.
LEMMA ProcessFriendListSilent ==
  ASSUME NEW s, Sound(s), NEW names \in SUBSET User
  PROVE  Silent(s, processFriendList(s, names))
<1> DEFINE before(i) == {j \in 1..(i - 1) : Names[j] \in names}
           place(i) == Cardinality(before(i))
           isNew(i) == \A b \in s.boxes : b.id # place(i) /\ b.name # Names[i]
           I == {k \in DOMAIN Names : Names[k] \in names /\ isNew(k)}
           box(i) == [id |-> place(i), name |-> Names[i], status |-> "OFFLINE"]
           added == {box(i) : i \in I}
<1>1. /\ Names \in Seq(User) /\ DOMAIN Names = 1..Len(Names) /\ Len(Names) \in Nat
      /\ \A i, j \in DOMAIN Names : Names[i] = Names[j] => i = j
  BY NamesAssumption, LenProperties DEF IsInjective
<1>2. \A i \in DOMAIN Names : IsFiniteSet(before(i)) /\ place(i) \in Nat
  <2> SUFFICES ASSUME NEW i \in DOMAIN Names PROVE IsFiniteSet(before(i)) /\ place(i) \in Nat
    OBVIOUS
  <2>1. IsFiniteSet(1..(i - 1))
    BY <1>1, FS_Interval
  <2>2. before(i) \in SUBSET (1..(i - 1))
    OBVIOUS
  <2>3. IsFiniteSet(before(i))
    BY <2>1, <2>2, FS_Subset
  <2> QED
    BY <2>3, FS_CardinalityType
<1>3. ASSUME NEW i \in DOMAIN Names, NEW j \in DOMAIN Names, i < j, Names[i] \in names
      PROVE  place(i) # place(j)
  <2>1. before(i) \in SUBSET before(j) /\ i \in before(j) /\ i \notin before(i)
    BY <1>1, <1>3
  <2>2. IsFiniteSet(before(j))
    BY <1>2
  <2> HIDE DEF before
  <2> QED
    BY <2>1, <2>2, FS_Subset
<1> HIDE DEF place
<1>4. \A i, j \in I : place(i) = place(j) => i = j
  <2> SUFFICES ASSUME NEW i \in I, NEW j \in I, i # j PROVE place(i) # place(j)
    OBVIOUS
  <2>1. i \in Nat /\ j \in Nat
    BY <1>1
  <2>2. CASE i < j
    BY <1>3, <2>2
  <2>3. CASE j < i
    BY <1>3, <2>3
  <2> QED
    BY <2>1, <2>2, <2>3
<1>5. added \in SUBSET Boxes
  <2>1. \A i \in DOMAIN Names : Names[i] \in User
    BY <1>1, ElementOfSeq
  <2>2. \A i \in I : box(i) \in Boxes
    BY <1>2, <2>1 DEF Boxes, place
  <2> QED
    BY <2>2
<1>6. IsFiniteSet(added)
  <2>1. IsFiniteSet(1..Len(Names)) /\ I \in SUBSET (1..Len(Names))
    BY <1>1, FS_Interval
  <2>2. IsFiniteSet(I)
    BY <2>1, FS_Subset
  <2> HIDE DEF box, I
  <2>3. [i \in I |-> box(i)] \in Surjection(I, added)
    BY DEF Surjection
  <2> QED
    BY <2>2, <2>3, FS_Surjection
<1>7. IsFiniteSet(s.boxes \cup added)
  BY <1>6, FS_Union DEF Sound
<1>8. s.boxes \in SUBSET Boxes
  BY SoundFields
<1>9. \A b, d \in s.boxes \cup added : (b.id = d.id) = (b.name = d.name)
  <2>1. \A b, d \in s.boxes : (b.id = d.id) = (b.name = d.name)
    BY DEF Sound
  <2>2. \A b \in s.boxes, i \in I : b.id # box(i).id /\ b.name # box(i).name
    OBVIOUS
  <2>3. \A i, j \in I : (box(i).id = box(j).id) = (box(i).name = box(j).name)
    BY <1>1, <1>4
  <2> HIDE DEF box, I
  <2> QED
    BY <2>1, <2>2, <2>3
<1>10. processFriendList(s, names) = [s EXCEPT !.boxes = s.boxes \cup added]
  BY DEF processFriendList, place
<1> HIDE DEF added
<1>11. s.boxes \cup added \in SUBSET Boxes
  BY <1>5, <1>8
<1> QED
  BY <1>7, <1>9, <1>10, <1>11, BoxesSilent

\* What happens in the requests box.
LEMMA RequestsSilent ==
  ASSUME NEW s, Sound(s), NEW n \in User
  PROVE  /\ \A k \in {"pending", "buttons"} : Silent(s, addRequest(s, n, k))
         /\ Silent(s, removeRequest(s, n))
<1>1. ASSUME NEW w \in [User -> {"none", "pending", "buttons"}]
      PROVE  Silent(s, [s EXCEPT !.requestWidgets = w])
  <2> DEFINE t == [s EXCEPT !.requestWidgets = w]
  <2>1. t \in Programs(s.page)
    BY DEF Sound, Programs
  <2>2. /\ t.page = s.page /\ t.boxes = s.boxes
        /\ t.friends = s.friends /\ t.messages = s.messages
        /\ t.books = s.books /\ t.current = s.current
        /\ SameLogin(s, t)
    BY DEF Sound, Programs, SameLogin
  <2> HIDE DEF t
  <2>3. Sound(t)
    BY <2>1, <2>2 DEF Sound, current_codebook
  <2>4. Silent(s, t)
    BY <2>2, <2>3, SoundFields DEF Silent, Keeps
  <2> QED
    BY <2>4 DEF t
<1>2. s.requestWidgets \in [User -> {"none", "pending", "buttons"}]
  BY SoundFields
<1>3. \A k \in {"none", "pending", "buttons"} :
        Silent(s, [s EXCEPT !.requestWidgets = [s.requestWidgets EXCEPT ![n] = k]])
  BY <1>1, <1>2
<1>4. Silent(s, s)
  BY SoundFields DEF Silent, Keeps, SameLogin
<1>5. \A k : addRequest(s, n, k) =
        IF s.requestWidgets[n] # "none" THEN s
        ELSE [s EXCEPT !.requestWidgets = [s.requestWidgets EXCEPT ![n] = k]]
  BY DEF addRequest
<1>6. removeRequest(s, n) = [s EXCEPT !.requestWidgets = [s.requestWidgets EXCEPT ![n] = "none"]]
  BY DEF removeRequest
<1> QED
  BY <1>3, <1>4, <1>5, <1>6

\* A message box opens or closes.
LEMMA ModalSilent ==
  ASSUME NEW s, Sound(s), NEW m \in BOOLEAN
  PROVE  Silent(s, [s EXCEPT !.modal = m])
<1> DEFINE t == [s EXCEPT !.modal = m]
<1>1. t \in Programs(s.page)
  BY DEF Sound, Programs
<1>2. /\ t.page = s.page /\ t.boxes = s.boxes
      /\ t.friends = s.friends /\ t.messages = s.messages
      /\ t.books = s.books /\ t.current = s.current
      /\ SameLogin(s, t)
  BY DEF Sound, Programs, SameLogin
<1> HIDE DEF t
<1>3. Sound(t)
  BY <1>1, <1>2 DEF Sound, current_codebook
<1>4. Silent(s, t)
  BY <1>2, <1>3, SoundFields DEF Silent, Keeps
<1> QED
  BY <1>4 DEF t

\* The answer to a request.
LEMMA ResponseSilent ==
  ASSUME NEW s, Sound(s), NEW n \in User,
         NEW r \in {"PENDING", "ACCEPT", "REJECT", "DOES_NOT_EXIST"}
  PROVE  Silent(s, processFriendResponse(s, n, r))
<1>1. CASE r = "DOES_NOT_EXIST"
  BY <1>1, ModalSilent DEF processFriendResponse
<1>2. CASE r = "PENDING"
  BY <1>2, RequestsSilent DEF processFriendResponse
<1>3. CASE r = "ACCEPT"
  <2> DEFINE t == insertFriend(s, n)
  <2>1. Silent(s, t)
    BY InsertFriendSilent
  <2>2. Sound(t)
    BY <2>1 DEF Silent
  <2> HIDE DEF t
  <2>3. Silent(t, removeRequest(t, n))
    BY <2>2, RequestsSilent
  <2>4. Silent(s, removeRequest(t, n))
    BY <2>1, <2>3, SilentTwice
  <2> QED
    BY <1>3, <2>4 DEF processFriendResponse, t
<1>4. CASE r = "REJECT"
  BY <1>4, RequestsSilent DEF processFriendResponse
<1> QED
  BY <1>1, <1>2, <1>3, <1>4

\* A page is shown.
LEMMA QuerySilent ==
  ASSUME NEW s, Sound(s), NEW n \in User
  PROVE  Silent(s, queryFriendMessages(s, n))
<1>1. ASSUME NEW pg PROVE Silent(s, [[s EXCEPT !.queried_friend = n] EXCEPT !.page = pg])
  <2> DEFINE q == [s EXCEPT !.queried_friend = n]
             t == [q EXCEPT !.page = pg]
  <2>1. q \in Programs(s.page)
    BY DEF Sound, Programs, Handle
  <2>2. /\ q.boxes = s.boxes /\ q.friends = s.friends /\ q.messages = s.messages
        /\ q.books = s.books /\ q.current = s.current /\ SameLogin(s, q)
    BY DEF Sound, Programs, SameLogin
  <2> HIDE DEF q
  <2>3. t \in Programs(pg)
    BY <2>1 DEF Programs
  <2>4. /\ t.page = pg /\ t.boxes = q.boxes
        /\ t.friends = q.friends /\ t.messages = q.messages
        /\ t.books = q.books /\ t.current = q.current
        /\ SameLogin(q, t)
    BY <2>1 DEF Programs, SameLogin
  <2> HIDE DEF t
  <2>5. Sound(t)
    BY <2>2, <2>3, <2>4 DEF Sound, current_codebook
  <2>6. Silent(s, t)
    BY <2>2, <2>4, <2>5, SoundFields DEF Silent, Keeps, SameLogin
  <2> QED
    BY <2>6 DEF t, q
<1>2. Silent(s, s)
  BY SoundFields DEF Silent, Keeps, SameLogin
<1> QED
  BY <1>1, <1>2 DEF queryFriendMessages, processMessages

\* A codebook is added, or chosen among those there are.
LEMMA BooksSilent ==
  ASSUME NEW s, Sound(s), NEW b \in BookName
  PROVE  /\ \A k \in Keyword : Silent(s, addNewCodebook(s, b, k))
         /\ s.books[b] # NoBook => Silent(s, [s EXCEPT !.current = b])
<1>1. ASSUME NEW bs \in [BookName -> Keyword \cup {NoBook}], bs[b] \in Keyword
      PROVE  Silent(s, [s EXCEPT !.books = bs, !.current = b])
  <2> DEFINE t == [s EXCEPT !.books = bs, !.current = b]
  <2>1. t \in Programs(s.page)
    BY DEF Sound, Programs
  <2>2. /\ t.page = s.page /\ t.boxes = s.boxes
        /\ t.friends = s.friends /\ t.messages = s.messages
        /\ t.books = bs /\ t.current = b
        /\ SameLogin(s, t)
    BY DEF Sound, Programs, SameLogin
  <2> HIDE DEF t
  <2>3. Sound(t)
    BY <1>1, <2>1, <2>2 DEF Sound, current_codebook
  <2>4. Silent(s, t)
    BY <2>2, <2>3, SoundFields DEF Silent, Keeps
  <2> QED
    BY <2>4 DEF t
<1>2. s.books \in [BookName -> Keyword \cup {NoBook}]
  BY SoundFields
<1>3. Silent(s, s)
  BY SoundFields DEF Silent, Keeps, SameLogin
<1>4. ASSUME NEW k \in Keyword PROVE Silent(s, addNewCodebook(s, b, k))
  <2> DEFINE bs == [s.books EXCEPT ![b] = k]
  <2>1. bs \in [BookName -> Keyword \cup {NoBook}] /\ bs[b] \in Keyword
    BY <1>2
  <2>2. addNewCodebook(s, b, k) = IF s.books[b] # NoBook THEN s
                                  ELSE [s EXCEPT !.books = bs, !.current = b]
    BY DEF addNewCodebook
  <2> HIDE DEF bs
  <2> QED
    BY <1>1, <1>3, <2>1, <2>2
<1>5. ASSUME s.books[b] # NoBook PROVE Silent(s, [s EXCEPT !.current = b])
  <2>1. s.books[b] \in Keyword
    BY <1>2, <1>5
  <2>2. [s EXCEPT !.books = s.books, !.current = b] = [s EXCEPT !.current = b]
    BY DEF Sound, Programs
  <2> QED
    BY <1>1, <1>2, <2>1, <2>2
<1> QED
  BY <1>4, <1>5

-----------------------------------------------------------------------------
(* Slots that say or log in *)

\* A message of a friend gets one row, of any other none.
LEMMA InsertMessageIs ==
  ASSUME NEW s, Sound(s), NEW n \in User, NEW m \in Nat, NEW o \in BOOLEAN
  PROVE  LET t == insertMessage(s, m, o, n)
             r == [friend_id |-> getFriendId(s, n), message |-> m, original |-> o]
         IN /\ Sound(t) /\ Keeps(s, t) /\ SameLogin(s, t)
            /\ t.messages = IF hasFriend(s, n) THEN Append(s.messages, r) ELSE s.messages
<1> DEFINE r == [friend_id |-> getFriendId(s, n), message |-> m, original |-> o]
           q == [s EXCEPT !.messages = Append(s.messages, r)]
           pg == Append(q.page, [message |-> m, original |-> o])
           t == [q EXCEPT !.page = pg]
<1>1. CASE ~hasFriend(s, n)
  BY <1>1, SoundFields DEF insertMessage, Keeps, SameLogin
<1>2. CASE hasFriend(s, n)
  <2>1. getFriendId(s, n) \in DOMAIN s.friends /\ s.friends \in Seq(FriendRows)
    BY <1>2, FriendIdIs, SoundFields
  <2>2. getFriendId(s, n) \in Nat \ {0}
    BY <2>1, LenProperties
  <2>3. r \in MessageRows /\ r.friend_id \in DOMAIN s.friends
    BY <2>1, <2>2 DEF MessageRows
  <2> HIDE DEF r
  <2>4. s.messages \in Seq(MessageRows)
    BY SoundFields
  <2>5. /\ Append(s.messages, r) \in Seq(MessageRows)
        /\ \A i \in DOMAIN Append(s.messages, r) :
             Append(s.messages, r)[i].friend_id \in DOMAIN s.friends
    BY <2>3, <2>4, AppendProperties, LenProperties DEF Sound
  <2>6. q \in Programs(s.page)
    BY <2>5 DEF Sound, Programs
  <2>7. /\ q.page = s.page /\ q.boxes = s.boxes /\ q.friends = s.friends
        /\ q.messages = Append(s.messages, r)
        /\ q.books = s.books /\ q.current = s.current /\ SameLogin(s, q)
    BY DEF Sound, Programs, SameLogin
  <2>8. q = MessageRowInserted(s, n, m, o)
    BY DEF MessageRowInserted, r
  <2> HIDE DEF q
  <2>9. Sound(q)
    BY <2>5, <2>6, <2>7 DEF Sound, current_codebook
  <2> HIDE DEF pg
  <2>10. t \in Programs(pg)
    BY <2>6 DEF Programs
  <2>11. /\ t.page = pg /\ t.boxes = q.boxes /\ t.friends = q.friends
         /\ t.messages = q.messages
         /\ t.books = q.books /\ t.current = q.current /\ SameLogin(q, t)
    BY <2>6 DEF Programs, SameLogin
  <2>12. t = Shown(MessageRowInserted(s, n, m, o), m, o)
    BY <2>8 DEF Shown, pg
  <2> HIDE DEF t
  <2>13. Sound(t)
    BY <2>9, <2>10, <2>11 DEF Sound, current_codebook
  <2>14. insertMessage(s, m, o, n) \in {q, t}
    BY <1>2, <2>8, <2>12 DEF insertMessage
  <2>15. Keeps(s, q) /\ Keeps(s, t)
    BY <2>7, <2>11, SoundFields DEF Keeps
  <2>16. SameLogin(s, q) /\ SameLogin(s, t)
    BY <2>7, <2>11 DEF SameLogin
  <2>17. q.messages = Append(s.messages, r) /\ t.messages = Append(s.messages, r)
    BY <2>7, <2>11
  <2> QED
    BY <1>2, <2>9, <2>13, <2>14, <2>15, <2>16, <2>17 DEF r
<1> QED
  BY <1>1, <1>2

\* Whatever is done to the other fields.
Resembles(s, t) ==
  /\ t.page = s.page /\ t.boxes = s.boxes
  /\ t.friends = s.friends /\ t.messages = s.messages
  /\ t.books = s.books /\ t.current = s.current

\* Boxes, rows and codebooks are what soundness is about.
LEMMA ResemblingSound ==
  ASSUME NEW s, Sound(s), NEW t \in Programs(s.page), Resembles(s, t)
  PROVE  Sound(t) /\ Keeps(s, t) /\ t.messages = s.messages
<1>1. Sound(t)
  BY DEF Sound, Resembles, current_codebook
<1>2. Keeps(s, t)
  BY SoundFields DEF Keeps, Resembles
<1> QED
  BY <1>1, <1>2 DEF Resembles

\* The result of a login: the handle is what the form has.
LEMMA LoginResultIs ==
  ASSUME NEW s, Sound(s), NEW result \in BOOLEAN
  PROVE  LET t == handleLoginResult(s, result)
         IN /\ Sound(t) /\ Keeps(s, t) /\ t.messages = s.messages /\ ~t.waiting
            /\ IF result THEN t.screen = "main" /\ t.logged_in_user = s.username
                         ELSE t.screen = s.screen /\ t.logged_in_user = s.logged_in_user
<1> DEFINE q == [s EXCEPT !.waiting = FALSE, !.username = NoName]
           p == [[q EXCEPT !.screen = "main"] EXCEPT !.logged_in_user = s.username]
<1>1. /\ q \in Programs(s.page) /\ Resembles(s, q)
      /\ ~q.waiting /\ q.screen = s.screen /\ q.logged_in_user = s.logged_in_user
  BY DEF Sound, Programs, Resembles, Handle
<1>2. /\ p \in Programs(s.page) /\ Resembles(s, p)
      /\ ~p.waiting /\ p.screen = "main" /\ p.logged_in_user = s.username
  BY DEF Sound, Programs, Resembles, Handle
<1> HIDE DEF q, p
<1>3. Sound(q) /\ Keeps(s, q) /\ q.messages = s.messages
  BY <1>1, ResemblingSound
<1>4. Sound(p) /\ Keeps(s, p) /\ p.messages = s.messages
  BY <1>2, ResemblingSound
<1>5. queryFriends(p) \in SUBSET User
  BY DEF queryFriends
<1> DEFINE t == processFriendList(p, queryFriends(p))
<1>6. Silent(p, t)
  BY <1>4, <1>5, ProcessFriendListSilent
<1>7. handleLoginResult(s, result) = IF result THEN t ELSE q
  BY DEF handleLoginResult, onLogin, p, q
<1> HIDE DEF t
<1>8. Keeps(s, t)
  BY <1>4, <1>6, SoundFields, LenProperties DEF Keeps, Silent
<1> QED
  BY <1>1, <1>2, <1>3, <1>4, <1>6, <1>7, <1>8 DEF Silent, SameLogin

-----------------------------------------------------------------------------
(* Types *)

\* The types of packets, up and down, and what a thread will answer.
Results == {"RESULT_YES", "RESULT_NO"}
Outcomes == Results \cup ToDo
Logins == {"CREATE_ACCOUNT", "LOGIN_REQUEST"}

Up == [type : ToServer, name : User, body : Encrypted]
Plain == [type : FromServer \ Results, name : User, body : Encrypted]
Down == Plain \cup [type : Results, name : {NoName}, body : {NoText}]
Answers == {p \in Down : p.type # "MESSAGE"}
             \cup [type : ToDo, name : User, body : {NoText}] \cup {NoAnswer}

\* The type invariant with what it takes to keep it.
Typed ==
  /\ serpent = [c \in Client |-> serpent[c]]
  /\ \A c \in Client : Sound(serpent[c])
  /\ link \in [Client -> {"closed", "open", "ended"}]
  /\ up \in [Client -> Seq(Up)]
  /\ down \in [Client -> Seq(Down)]
  /\ accounts \subseteq User
  /\ friends \subseteq User \X User
  /\ requests \in [User \X User -> {"none", "shown", "hidden"}]
  /\ connectedUser \in [Client -> Handle]
  /\ answer \in [Client -> Answers]
  /\ posted \in Seq([from : User, to : User, book : Keyword])
  /\ spent \in [acts : Nat, edits : Nat, launches : Nat, breaks : Nat]

-----------------------------------------------------------------------------
(* The course of a login *)

\* No login has its result in q.
NoResult(q) == \A i \in DOMAIN q : q[i].type \notin Results

\* The form has kept the name it was sent with.
Unedited(c, n) == spent.edits = 0 => n = serpent[c].username

\* A result for c says whether its connection has a user, the one of the form.
ResultIs(c, p) ==
  IF p.type = "RESULT_YES" THEN connectedUser[c] \in User /\ Unedited(c, connectedUser[c])
                           ELSE connectedUser[c] = NoName

\* Before a login; with its packet on the way; with its result at the server, an
\* account to be created first, or on the way; and after it.
Before(c) ==
  connectedUser[c] = NoName /\ up[c] = <<>> /\ answer[c] = NoAnswer /\ NoResult(down[c])
Asking(c) ==
  /\ Len(up[c]) = 1 /\ up[c][1].type \in Logins /\ Unedited(c, up[c][1].name)
  /\ connectedUser[c] = NoName /\ answer[c] = NoAnswer /\ NoResult(down[c])
Decided(c) ==
  /\ up[c] = <<>> /\ NoResult(down[c])
  /\ \/ answer[c].type \in Results /\ ResultIs(c, answer[c])
     \/ /\ answer[c].type \in ToDo /\ connectedUser[c] = NoName
        /\ Unedited(c, answer[c].name)
Told(c) ==
  /\ up[c] = <<>> /\ answer[c] = NoAnswer
  /\ \E i \in DOMAIN down[c] :
       /\ down[c][i].type \in Results /\ ResultIs(c, down[c][i])
       /\ \A j \in DOMAIN down[c] \ {i} : down[c][j].type \notin Results
After(c) ==
  /\ connectedUser[c] \in User
  /\ spent.edits = 0 => serpent[c].logged_in_user = connectedUser[c]
  /\ answer[c].type \notin Outcomes /\ NoResult(down[c])

\* What is on its way to the server is one login, or from a user logged in.
Upward(c) ==
  /\ \/ /\ \A i \in DOMAIN up[c] : up[c][i].type \notin Logins
        /\ up[c] # <<>> => connectedUser[c] \in User
     \/ /\ Len(up[c]) = 1 /\ up[c][1].type \in Logins
        /\ connectedUser[c] = NoName /\ answer[c] = NoAnswer
  /\ answer[c].type \in ToDo => up[c] = <<>> /\ connectedUser[c] = NoName

\* What the screen of c says of its connection, its login and its user.
LoginAt(c) ==
  LET s == serpent[c] IN
  /\ Upward(c)
  /\ s.screen \in {"off", "login"} => s.logged_in_user = NoName
  /\ s.screen = "off" => ~s.waiting
  /\ link[c] # "open" =>
       /\ down[c] = <<>> /\ s.screen # "main" /\ (s.screen = "login" => ~s.waiting)
       /\ link[c] = "closed" =>
            up[c] = <<>> /\ answer[c] = NoAnswer /\ connectedUser[c] = NoName
  /\ link[c] = "open" =>
       \/ s.screen = "login" /\ ~s.waiting /\ Before(c)
       \/ s.screen = "login" /\ s.waiting /\ (Asking(c) \/ Decided(c) \/ Told(c))
       \/ s.screen = "main" /\ After(c)

LoginInv == \A c \in Client : LoginAt(c)

-----------------------------------------------------------------------------
(* Messages *)

\* p has the text of a message of one user to the other.
Carries(p, from, to) ==
  \E m \in DOMAIN posted :
    /\ posted[m].from = from /\ posted[m].to = to
    /\ p.body = [text |-> m, book |-> posted[m].book]

\* Messages on their way are between the user of their connection and the one
\* they name.
MailAt(c) ==
  /\ \A i \in DOMAIN up[c] :
       up[c][i].type = "MESSAGE" => Carries(up[c][i], connectedUser[c], up[c][i].name)
  /\ \A i \in DOMAIN down[c] :
       down[c][i].type = "MESSAGE" => Carries(down[c][i], down[c][i].name, connectedUser[c])

\* The row r is under f, whose message it is.
Filed(r, f) ==
  IF r.original
  THEN /\ r.message \in DOMAIN posted
       /\ posted[r.message].from = f.user /\ posted[r.message].to = f.friend_name
  ELSE \E m \in DOMAIN posted :
         /\ posted[m].from = f.friend_name
         /\ f.user \in {posted[m].to, NoName}
         /\ r.message = m \/ (r.message = Garbled /\ Keyword # {posted[m].book})

\* Every message stored at c is that of its row.
FiledAt(c) ==
  \A i \in DOMAIN serpent[c].messages :
    Filed(serpent[c].messages[i], serpent[c].friends[serpent[c].messages[i].friend_id])

\* As long as no form was edited after it was sent.
MailInv == spent.edits = 0 => \A c \in Client : MailAt(c) /\ FiledAt(c)

-----------------------------------------------------------------------------
(* What the server sends *)

\* What the client of d has yet to read goes on with packets of S, if there is
\* a connection.
Hears(d, S) ==
  /\ down'[d] \in Seq(Down)
  /\ DOMAIN down[d] \subseteq DOMAIN down'[d]
  /\ \A i \in DOMAIN down[d] : down'[d][i] = down[d][i]
  /\ \A i \in DOMAIN down'[d] \ DOMAIN down[d] : down'[d][i] \in S
  /\ link[d] # "open" => down'[d] = down[d]

\* What is no message, and no result.
Calm == {p \in Plain : p.type # "MESSAGE"}

\* A sequence made longer.
LEMMA Joined ==
  ASSUME NEW S, NEW T \in SUBSET S, NEW a \in Seq(S), NEW b \in Seq(T)
  PROVE  /\ a \o b \in Seq(S)
         /\ DOMAIN a \subseteq DOMAIN (a \o b)
         /\ \A i \in DOMAIN a : (a \o b)[i] = a[i]
         /\ \A i \in DOMAIN (a \o b) \ DOMAIN a : (a \o b)[i] \in T
<1>1. b \in Seq(S)
  BY SeqMonotonic
<1> DEFINE m == Len(a)
           n == Len(b)
           q == a \o b
<1>2. /\ m \in Nat /\ n \in Nat /\ DOMAIN a = 1..m /\ \A j \in 1..n : b[j] \in T
  BY LenProperties, ElementOfSeq
<1>3. /\ q \in Seq(S) /\ Len(q) = m + n
      /\ \A i \in 1..(m + n) : q[i] = IF i <= m THEN a[i] ELSE b[i - m]
  BY <1>1, ConcatProperties
<1> HIDE DEF q, m, n
<1>4. DOMAIN q = 1..(m + n)
  BY <1>3, LenProperties
<1>5. ASSUME NEW i \in 1..m PROVE i \in DOMAIN q /\ q[i] = a[i]
  BY <1>2, <1>3, <1>4
<1>6. ASSUME NEW i \in 1..(m + n), i \notin 1..m PROVE q[i] \in T
  <2>1. ~ (i <= m) /\ i - m \in 1..n
    BY <1>2, <1>6
  <2> QED
    BY <1>2, <1>3, <2>1
<1> QED
  BY <1>2, <1>3, <1>4, <1>5, <1>6 DEF q

\* What is delivered to a client is heard there.
LEMMA DeliveredHears ==
  ASSUME Typed, NEW told, Delivered(told), NEW d \in Client,
         NEW S \in SUBSET Plain, told[d] \in Seq(S)
  PROVE  Hears(d, S)
<1>1. down[d] \in Seq(Down) /\ S \in SUBSET Down
  BY DEF Typed, Down
<1>2. down'[d] = IF link[d] = "open" THEN down[d] \o told[d] ELSE down[d]
  BY DEF Delivered
<1>3. CASE link[d] = "open"
  <2> DEFINE q == down[d] \o told[d]
  <2>1. /\ q \in Seq(Down)
        /\ DOMAIN down[d] \subseteq DOMAIN q
        /\ \A i \in DOMAIN down[d] : q[i] = down[d][i]
        /\ \A i \in DOMAIN q \ DOMAIN down[d] : q[i] \in S
    BY <1>1, Joined
  <2>2. down'[d] = q
    BY <1>2, <1>3
  <2> HIDE DEF q
  <2> QED
    BY <1>3, <2>1, <2>2 DEF Hears
<1>4. CASE link[d] # "open"
  BY <1>1, <1>2, <1>4 DEF Hears
<1> QED
  BY <1>3, <1>4

\* Packets told to a user, to friends, to nobody, and one after the other.
LEMMA ToldTypes ==
  ASSUME NEW S, NEW d \in Client, NEW packets \in Seq(S), NEW who, NEW u
  PROVE  /\ To(who, u, packets)[d] \in Seq(S)
         /\ ToFriends(who, u, packets)[d] \in Seq(S)
         /\ Nobody[d] \in Seq(S)
         /\ who[d] # u => To(who, u, packets)[d] = <<>>
         /\ \A t, m : t[d] \in Seq(S) /\ m[d] \in Seq(S) => Then(t, m)[d] \in Seq(S)
<1>1. <<>> \in Seq(S)
  BY EmptySeq
<1>2. \A t, m : t[d] \in Seq(S) /\ m[d] \in Seq(S) => Then(t, m)[d] \in Seq(S)
  BY ConcatProperties DEF Then
<1> QED
  BY <1>1, <1>2 DEF To, ToFriends, Nobody

\* A function on 1..n is a sequence.
LEMMA IsSeq ==
  ASSUME NEW S, NEW n \in Nat, NEW f \in [1..n -> S]
  PROVE  f \in Seq(S)
  BY SeqDef

\* One packet, and two.
LEMMA OneOrTwo ==
  ASSUME NEW S, NEW p \in S, NEW q \in S
  PROVE  <<p>> \in Seq(S) /\ <<p, q>> \in Seq(S)
<1>1. <<>> \in Seq(S) /\ <<p>> = Append(<<>>, p) /\ <<p, q>> = Append(<<p>>, q)
  OBVIOUS
<1> QED
  BY <1>1, AppendProperties

\* The packets the server makes.
LEMMA PacketTypes ==
  ASSUME NEW n \in User
  PROVE  /\ \A t \in FromServer \ (Results \cup {"MESSAGE"}) : Packet(t, n) \in Calm
         /\ \A who : Status(who, n) \in Calm
         /\ \A e \in Encrypted : MessagePacket(n, e) \in Plain
         /\ \A t \in ToServer : Packet(t, n) \in Up
         /\ \A e \in Encrypted : MessagePacket(n, e) \in Up
         /\ \A yes \in BOOLEAN : /\ Result(yes) \in Answers
                                 /\ Result(yes).type = IF yes THEN "RESULT_YES" ELSE "RESULT_NO"
         /\ \A t \in ToDo : Packet(t, n) \in Answers
<1>1. NoText \in Encrypted
  BY BookAssumption DEF NoText, Encrypted, Garbled
<1>2. /\ \A t \in FromServer \ (Results \cup {"MESSAGE"}) : Packet(t, n) \in Calm
      /\ \A t \in ToServer : Packet(t, n) \in Up
  BY <1>1 DEF Packet, Calm, Plain, Up
<1>3. {"ONLINE", "OFFLINE"} \subseteq FromServer \ (Results \cup {"MESSAGE"})
  BY DEF FromServer, Results
<1>4. \A who : Status(who, n) \in Calm
  BY <1>2, <1>3 DEF Status
<1>5. "MESSAGE" \in FromServer \ Results /\ "MESSAGE" \in ToServer
  BY DEF FromServer, Results, ToServer
<1>6. \A e \in Encrypted : MessagePacket(n, e) \in Plain /\ MessagePacket(n, e) \in Up
  BY <1>5 DEF MessagePacket, Plain, Up
<1>7. \A yes \in BOOLEAN : /\ Result(yes) \in Answers
                           /\ Result(yes).type = IF yes THEN "RESULT_YES" ELSE "RESULT_NO"
  BY DEF Result, Packet, Down, Results, Answers
<1>8. \A t \in ToDo : Packet(t, n) \in Answers
  BY DEF Packet, Answers
<1> QED
  BY <1>2, <1>4, <1>6, <1>7, <1>8

\* The answer to a query is a sequence of users.
LEMMA QueryTypes ==
  ASSUME NEW T \in SUBSET User, NEW q \in SetToSeqs(T)
  PROVE  q \in Seq(User) /\ DOMAIN q = 1..Len(q) /\ Len(q) \in Nat
<1>1. IsFiniteSet(User)
  <2>1. /\ DOMAIN Names = 1..Len(Names) /\ Len(Names) \in Nat
        /\ Names \in [1..Len(Names) -> User]
    BY NamesAssumption, LenProperties
  <2>2. Names \in Surjection(1..Len(Names), User)
    BY <2>1 DEF Surjection, User, ToSet
  <2>3. IsFiniteSet(1..Len(Names))
    BY <2>1, FS_Interval
  <2> QED
    BY <2>2, <2>3, FS_Surjection
<1>2. Cardinality(T) \in Nat
  BY <1>1, FS_Subset, FS_CardinalityType
<1>3. q \in [1..Cardinality(T) -> User]
  BY DEF SetToSeqs
<1>4. q \in Seq(User)
  BY <1>2, <1>3, SeqDef
<1> QED
  BY <1>4, LenProperties

-----------------------------------------------------------------------------
(* What the thread of a connection does with a packet *)

\* The thread of c takes the first packet; other connections go on as they were.
Served(c) ==
  /\ up[c] # <<>> /\ answer[c] = NoAnswer
  /\ up'[c] = Tail(up[c])
  /\ \A d \in Client \ {c} :
       up'[d] = up[d] /\ answer'[d] = answer[d] /\ connectedUser'[d] = connectedUser[d]
  /\ Misses
  /\ UNCHANGED <<serpent, link, history>>

LoginServed(c) ==
  /\ Served(c)
  /\ Head(up[c]).type \in Logins
  /\ answer'[c].type \in Outcomes
  /\ answer'[c].type \in ToDo =>
       answer'[c].name = Head(up[c]).name /\ Head(up[c]).name \notin accounts
  /\ connectedUser'[c] = IF answer'[c].type = "RESULT_YES" THEN Head(up[c]).name
                                                           ELSE connectedUser[c]
  /\ \A d \in Client : Hears(d, Calm)

RequestServed(c) ==
  /\ Served(c)
  /\ Head(up[c]).type \notin Logins
  /\ answer'[c].type \notin Outcomes
  /\ UNCHANGED connectedUser
  /\ \A d \in Client : Hears(d, IF Head(up[c]).type = "MESSAGE" THEN Plain ELSE Calm)

\* The variables that Handles sets.
LEMMA HandlesIs ==
  ASSUME Typed, NEW c \in Client, NEW a \in Answers, NEW told,
         answer[c] = NoAnswer, up[c] # <<>>,
         \A d \in Client : told[d] \in Seq(Plain),
         Handles(c, a, told)
  PROVE  /\ up' \in [Client -> Seq(Up)] /\ up'[c] = Tail(up[c])
         /\ answer' \in [Client -> Answers] /\ answer'[c] = a
         /\ down' \in [Client -> Seq(Down)] /\ Delivered(told)
         /\ \A d \in Client \ {c} : up'[d] = up[d] /\ answer'[d] = answer[d]
         /\ Misses /\ UNCHANGED <<serpent, link, history>>
<1>1. up[c] \in Seq(Up) /\ Tail(up[c]) \in Seq(Up)
  BY HeadTailProperties DEF Typed
<1>2. \A d \in Client : Hears(d, Plain)
  BY DeliveredHears DEF Handles
<1>3. down' \in [Client -> Seq(Down)]
  BY <1>2 DEF Handles, Delivered, Hears
<1> QED
  BY <1>1, <1>3 DEF Handles, Typed

\* What is served keeps the types.
LEMMA ServedTyped ==
  ASSUME Typed, NEW c \in Client, UNCHANGED <<serpent, link, history>>,
         up' \in [Client -> Seq(Up)], down' \in [Client -> Seq(Down)],
         answer' \in [Client -> Answers],
         connectedUser' \in [Client -> Handle],
         accounts' \subseteq User, friends' \subseteq User \X User,
         requests' \in [User \X User -> {"none", "shown", "hidden"}]
  PROVE  Typed'
  BY SMTT(60) DEF Typed, history, Sound, Programs, current_codebook

\* The first of the packets.
LEMMA HeadUp ==
  ASSUME Typed, NEW c \in Client, up[c] # <<>>
  PROVE  /\ Head(up[c]) \in Up /\ Head(up[c]).name \in User
         /\ Head(up[c]) = up[c][1] /\ 1 \in DOMAIN up[c]
<1>1. up[c] \in Seq(Up)
  BY DEF Typed
<1>2. Head(up[c]) \in Up /\ Head(up[c]) = up[c][1] /\ 1 \in DOMAIN up[c]
  BY <1>1, HeadTailProperties, EmptySeq, LenProperties
<1> QED
  BY <1>2 DEF Up

\* There is an account, or one will be created; nothing is said to others.
LEMMA CreateAccountIs ==
  ASSUME Typed, NEW c \in Client, CreateAccount(c)
  PROVE  Typed' /\ LoginServed(c)
<1> DEFINE p == Head(up[c])
           yes == p.name \notin accounts
           a == IF yes THEN Packet("INSERT", p.name) ELSE Result(FALSE)
<1>1. /\ answer[c] = NoAnswer /\ up[c] # <<>> /\ p.type \in Logins /\ p.name \in User
      /\ Handles(c, a, Nobody)
      /\ UNCHANGED <<accounts, friends, requests, connectedUser>>
  BY HeadUp DEF CreateAccount, Receives, Logins
<1>2. /\ a \in Answers /\ a.type \in Outcomes /\ a.type # "RESULT_YES"
      /\ a.type \in ToDo => a.name = p.name /\ yes
  <2>1. CASE yes
    <3>1. /\ a = Packet("INSERT", p.name) /\ a.type = "INSERT" /\ a.name = p.name
          /\ "INSERT" \in ToDo
      BY <2>1 DEF ToDo, Packet
    <3>2. Packet("INSERT", p.name) \in Answers
      BY <1>1, <3>1, PacketTypes
    <3> HIDE DEF a, yes
    <3> QED
      BY <2>1, <3>1, <3>2 DEF Outcomes
  <2>2. CASE ~yes
    <3>1. a = Result(FALSE) /\ Result(FALSE) \in Answers /\ Result(FALSE).type = "RESULT_NO"
      BY <1>1, <2>2, PacketTypes
    <3> HIDE DEF a
    <3>2. a.type = "RESULT_NO" /\ a \in Answers
      BY <3>1
    <3> QED
      BY <3>2 DEF Outcomes, Results, ToDo
  <2> QED
    BY <2>1, <2>2
<1>3. \A d \in Client : Nobody[d] \in Seq(Calm) /\ Nobody[d] \in Seq(Plain)
  BY EmptySeq DEF Nobody
<1> HIDE DEF p, a
<1>4. /\ up' \in [Client -> Seq(Up)] /\ up'[c] = Tail(up[c])
      /\ answer' \in [Client -> Answers] /\ answer'[c] = a
      /\ down' \in [Client -> Seq(Down)] /\ Delivered(Nobody)
      /\ \A d \in Client \ {c} : up'[d] = up[d] /\ answer'[d] = answer[d]
      /\ Misses /\ UNCHANGED <<serpent, link, history>>
  BY <1>1, <1>2, <1>3, HandlesIs
<1>5. Typed'
  BY <1>1, <1>4, ServedTyped DEF Typed
<1>6. \A d \in Client : Hears(d, Calm)
  BY <1>3, <1>4, DeliveredHears DEF Calm
<1> QED
  BY <1>1, <1>2, <1>4, <1>5, <1>6 DEF LoginServed, Served, p

\* What a login is told is no message and no result.
LEMMA LoginToldCalm ==
  ASSUME Typed, NEW who, NEW u \in User, NEW d \in Client,
         NEW incoming \in SetToSeqs({s \in User : requests[<<s, u>>] = "shown"}),
         NEW outgoing \in SetToSeqs({t \in User : requests[<<u, t>>] # "none"}),
         NEW fs \in SetToSeqs({f \in User : <<u, f>> \in friends})
  PROVE  LoginTold(who, u, incoming, outgoing, fs)[d] \in Seq(Calm)
<1> DEFINE a == [i \in DOMAIN incoming |-> Packet("FORWARD", incoming[i])]
           b == [i \in DOMAIN outgoing |-> Packet("PENDING", outgoing[i])]
           e == [i \in DOMAIN fs |-> Status(who, fs[i])]
<1>1. /\ incoming \in Seq(User) /\ DOMAIN incoming = 1..Len(incoming) /\ Len(incoming) \in Nat
      /\ outgoing \in Seq(User) /\ DOMAIN outgoing = 1..Len(outgoing) /\ Len(outgoing) \in Nat
      /\ fs \in Seq(User) /\ DOMAIN fs = 1..Len(fs) /\ Len(fs) \in Nat
  <2> DEFINE T1 == {s \in User : requests[<<s, u>>] = "shown"}
             T2 == {t \in User : requests[<<u, t>>] # "none"}
             T3 == {f \in User : <<u, f>> \in friends}
  <2>1. T1 \in SUBSET User /\ T2 \in SUBSET User /\ T3 \in SUBSET User
    OBVIOUS
  <2>2. incoming \in SetToSeqs(T1) /\ outgoing \in SetToSeqs(T2) /\ fs \in SetToSeqs(T3)
    OBVIOUS
  <2> HIDE DEF T1, T2, T3
  <2> QED
    BY <2>1, <2>2, QueryTypes
<1>2. {"FORWARD", "PENDING", "ONLINE"} \subseteq FromServer \ (Results \cup {"MESSAGE"})
  BY DEF FromServer, Results
<1>3. \A n \in User : /\ Packet("FORWARD", n) \in Calm /\ Packet("PENDING", n) \in Calm
                      /\ Packet("ONLINE", n) \in Calm /\ Status(who, n) \in Calm
  BY <1>2, PacketTypes
<1>4. /\ \A i \in DOMAIN incoming : incoming[i] \in User
      /\ \A i \in DOMAIN outgoing : outgoing[i] \in User
      /\ \A i \in DOMAIN fs : fs[i] \in User
  BY <1>1, ElementOfSeq
<1>5. a \in [1..Len(incoming) -> Calm] /\ b \in [1..Len(outgoing) -> Calm]
      /\ e \in [1..Len(fs) -> Calm]
  BY <1>1, <1>3, <1>4
<1> HIDE DEF a, b, e
<1>6. a \in Seq(Calm) /\ b \in Seq(Calm) /\ e \in Seq(Calm)
  BY <1>1, <1>5, IsSeq
<1>7. a \o b \o e \in Seq(Calm)
  BY <1>6, ConcatProperties
<1>8. <<Packet("ONLINE", u)>> \in Seq(Calm)
  BY <1>3, OneOrTwo
<1>9. /\ To(who, u, a \o b \o e)[d] \in Seq(Calm)
      /\ ToFriends(who, u, <<Packet("ONLINE", u)>>)[d] \in Seq(Calm)
  BY <1>7, <1>8, ToldTypes
<1>10. LoginTold(who, u, incoming, outgoing, fs) =
         Then(To(who, u, a \o b \o e), ToFriends(who, u, <<Packet("ONLINE", u)>>))
  BY DEF LoginTold, a, b, e
<1> QED
  BY <1>8, <1>9, <1>10, ToldTypes

\* A login says what its user missed, and then the result.
LEMMA LoginRequestIs ==
  ASSUME Typed, NEW c \in Client, LoginRequest(c)
  PROVE  Typed' /\ LoginServed(c)
<1> DEFINE p == Head(up[c])
           who == [connectedUser EXCEPT ![c] = p.name]
<1>1. /\ answer[c] = NoAnswer /\ up[c] # <<>> /\ p.type \in Logins /\ p.name \in User
      /\ UNCHANGED <<accounts, friends, requests>>
  BY HeadUp DEF LoginRequest, Receives, Logins
<1>2. PICK yes \in BOOLEAN : \E told :
        /\ connectedUser' = IF yes THEN who ELSE connectedUser
        /\ Handles(c, Result(yes), told)
        /\ \A d \in Client : told[d] \in Seq(Calm)
  <2>1. CASE p.name \in accounts
    <3>1. PICK incoming \in SetToSeqs({s \in User : requests[<<s, p.name>>] = "shown"}) :
          \E outgoing \in SetToSeqs({t \in User : requests[<<p.name, t>>] # "none"}) :
          \E fs \in SetToSeqs({f \in User : <<p.name, f>> \in friends}) :
            /\ connectedUser' = who
            /\ Handles(c, Result(TRUE), LoginTold(who, p.name, incoming, outgoing, fs))
      BY <2>1 DEF LoginRequest
    <3>2. PICK outgoing \in SetToSeqs({t \in User : requests[<<p.name, t>>] # "none"}) :
          \E fs \in SetToSeqs({f \in User : <<p.name, f>> \in friends}) :
            /\ connectedUser' = who
            /\ Handles(c, Result(TRUE), LoginTold(who, p.name, incoming, outgoing, fs))
      BY <3>1
    <3>3. PICK fs \in SetToSeqs({f \in User : <<p.name, f>> \in friends}) :
            /\ connectedUser' = who
            /\ Handles(c, Result(TRUE), LoginTold(who, p.name, incoming, outgoing, fs))
      BY <3>2
    <3> DEFINE told == LoginTold(who, p.name, incoming, outgoing, fs)
    <3>4. \A d \in Client : told[d] \in Seq(Calm)
      BY <1>1, LoginToldCalm
    <3> HIDE DEF told, who
    <3> QED
      BY <3>3, <3>4 DEF told
  <2>2. CASE p.name \notin accounts
    <3>1. Handles(c, Result(FALSE), Nobody) /\ UNCHANGED connectedUser
      BY <2>2 DEF LoginRequest
    <3>2. \A d \in Client : Nobody[d] \in Seq(Calm)
      BY EmptySeq DEF Nobody
    <3> QED
      BY <3>1, <3>2
  <2> QED
    BY <2>1, <2>2
<1>3. PICK told :
        /\ connectedUser' = IF yes THEN who ELSE connectedUser
        /\ Handles(c, Result(yes), told)
        /\ \A d \in Client : told[d] \in Seq(Calm)
  BY <1>2
<1>4. /\ Result(yes) \in Answers
      /\ Result(yes).type = IF yes THEN "RESULT_YES" ELSE "RESULT_NO"
  BY <1>1, PacketTypes
<1>5. \A d \in Client : told[d] \in Seq(Plain)
  BY <1>3, SeqMonotonic DEF Calm
<1>6. /\ connectedUser' \in [Client -> Handle]
      /\ \A d \in Client \ {c} : connectedUser'[d] = connectedUser[d]
      /\ connectedUser'[c] = IF yes THEN p.name ELSE connectedUser[c]
  BY <1>1, <1>3 DEF Typed, Handle
<1> HIDE DEF p, who
<1>7. /\ up' \in [Client -> Seq(Up)] /\ up'[c] = Tail(up[c])
      /\ answer' \in [Client -> Answers] /\ answer'[c] = Result(yes)
      /\ down' \in [Client -> Seq(Down)] /\ Delivered(told)
      /\ \A d \in Client \ {c} : up'[d] = up[d] /\ answer'[d] = answer[d]
      /\ Misses /\ UNCHANGED <<serpent, link, history>>
  BY <1>1, <1>3, <1>4, <1>5, HandlesIs
<1>8. Typed'
  BY <1>1, <1>6, <1>7, ServedTyped DEF Typed
<1>9. \A d \in Client : Hears(d, Calm)
  BY <1>3, <1>7, DeliveredHears DEF Calm
<1>10. /\ answer'[c].type \in Outcomes /\ answer'[c].type \notin ToDo
       /\ yes <=> answer'[c].type = "RESULT_YES"
  BY <1>4, <1>7 DEF Results, Outcomes, ToDo
<1> QED
  BY <1>1, <1>6, <1>7, <1>8, <1>9, <1>10 DEF LoginServed, Served, p

\* Who is heard by the server after a login is logged in.
LEMMA LoggedIn ==
  ASSUME Typed, NEW c \in Client, LoginAt(c), up[c] # <<>>, Head(up[c]).type \notin Logins
  PROVE  connectedUser[c] \in User
<1>1. Head(up[c]) = up[c][1]
  BY HeadUp
<1> QED
  BY <1>1 DEF LoginAt, Upward

\* A request, whatever it does to the tables.
LEMMA RequestIs ==
  ASSUME Typed, NEW c \in Client, NEW t \in ToServer \ Logins, Receives(c, t),
         NEW a \in Answers, a.type \notin Outcomes,
         NEW told, Handles(c, a, told), UNCHANGED <<accounts, connectedUser>>,
         \A d \in Client : told[d] \in Seq(IF t = "MESSAGE" THEN Plain ELSE Calm),
         friends' \subseteq User \X User,
         requests' \in [User \X User -> {"none", "shown", "hidden"}]
  PROVE  Typed' /\ RequestServed(c) /\ Delivered(told) /\ answer'[c] = a
<1> DEFINE S == IF t = "MESSAGE" THEN Plain ELSE Calm
<1>1. S \in SUBSET Plain
  BY DEF Calm
<1>2. answer[c] = NoAnswer /\ up[c] # <<>> /\ Head(up[c]).type = t
  BY DEF Receives
<1> HIDE DEF S
<1>3. \A d \in Client : told[d] \in Seq(S) /\ told[d] \in Seq(Plain)
  BY <1>1, SeqMonotonic DEF S
<1>4. /\ up' \in [Client -> Seq(Up)] /\ up'[c] = Tail(up[c])
      /\ answer' \in [Client -> Answers] /\ answer'[c] = a
      /\ down' \in [Client -> Seq(Down)] /\ Delivered(told)
      /\ \A d \in Client \ {c} : up'[d] = up[d] /\ answer'[d] = answer[d]
      /\ Misses /\ UNCHANGED <<serpent, link, history>>
  BY <1>2, <1>3, HandlesIs
<1>5. Typed'
  BY <1>4, ServedTyped DEF Typed
<1>6. \A d \in Client : Hears(d, S)
  BY <1>1, <1>3, <1>4, DeliveredHears
<1> QED
  BY <1>2, <1>4, <1>5, <1>6 DEF RequestServed, Served, S

\* A request is forwarded or not, and its sender told.
LEMMA FriendRequestSendIs ==
  ASSUME Typed, NEW c \in Client, LoginAt(c), FriendRequestSend(c)
  PROVE  Typed' /\ RequestServed(c)
<1> DEFINE p == Head(up[c])
           u == connectedUser[c]
<1>1. /\ Receives(c, "ASK") /\ UNCHANGED <<accounts, friends, connectedUser>>
      /\ up[c] # <<>> /\ p.type = "ASK"
  BY DEF FriendRequestSend, Receives
<1>2. "ASK" \in ToServer \ Logins /\ "ASK" # "MESSAGE"
      /\ {"PENDING", "FORWARD", "DOES_NOT_EXIST"} \subseteq FromServer \ (Results \cup {"MESSAGE"})
  BY DEF ToServer, Logins, FromServer, Results
<1>3. p.name \in User /\ u \in User
  BY <1>1, <1>2, HeadUp, LoggedIn
<1>4. /\ Packet("PENDING", p.name) \in Calm /\ Packet("DOES_NOT_EXIST", p.name) \in Calm
      /\ Packet("FORWARD", u) \in Calm
  BY <1>2, <1>3, PacketTypes
<1>5. \A a \in Calm : a \in Answers /\ a.type \notin Outcomes
  BY DEF Calm, Plain, Down, Answers, Outcomes, ToDo, FromServer
<1>6. friends' \subseteq User \X User
  BY <1>1 DEF Typed
<1>7. CASE p.name \in accounts
  <2> DEFINE told == To(connectedUser, p.name, <<Packet("FORWARD", u)>>)
  <2>1. /\ requests' = [requests EXCEPT ![<<u, p.name>>] = "shown"]
        /\ Handles(c, Packet("PENDING", p.name), told)
    BY <1>7 DEF FriendRequestSend
  <2>2. \A d \in Client : told[d] \in Seq(Calm)
    BY <1>4, OneOrTwo, ToldTypes
  <2>3. requests' \in [User \X User -> {"none", "shown", "hidden"}]
    BY <2>1 DEF Typed
  <2> HIDE DEF told, p, u
  <2> QED
    BY <1>1, <1>2, <1>4, <1>5, <1>6, <2>1, <2>2, <2>3, RequestIs
<1>8. CASE p.name \notin accounts
  <2>1. Handles(c, Packet("DOES_NOT_EXIST", p.name), Nobody) /\ UNCHANGED requests
    BY <1>8 DEF FriendRequestSend
  <2>2. \A d \in Client : Nobody[d] \in Seq(Calm)
    BY EmptySeq DEF Nobody
  <2>3. requests' \in [User \X User -> {"none", "shown", "hidden"}]
    BY <2>1 DEF Typed
  <2> HIDE DEF p, u
  <2> QED
    BY <1>1, <1>2, <1>4, <1>5, <1>6, <2>1, <2>2, <2>3, RequestIs
<1> QED
  BY <1>7, <1>8

\* No answer is no result.
LEMMA NoAnswerIs ==
  NoAnswer \in Answers /\ NoAnswer.type \notin Outcomes
  BY DEF NoAnswer, Packet, Results, ToDo, Outcomes, Answers

\* Both sides hear of an acceptance.
LEMMA AcceptIs ==
  ASSUME Typed, NEW c \in Client, LoginAt(c), Accept(c)
  PROVE  Typed' /\ RequestServed(c)
<1> DEFINE n == Head(up[c]).name
           u == connectedUser[c]
           told == Then(To(connectedUser, u, <<Status(connectedUser, n)>>),
                        To(connectedUser, n, <<Packet("ACCEPT", u), Packet("ONLINE", u)>>))
<1>1. /\ Receives(c, "ACCEPT") /\ UNCHANGED <<accounts, connectedUser>>
      /\ up[c] # <<>> /\ Head(up[c]).type = "ACCEPT"
      /\ requests' = [requests EXCEPT ![<<n, u>>] = "none"]
      /\ friends' = friends \cup {<<n, u>>, <<u, n>>}
      /\ Handles(c, NoAnswer, told)
  BY DEF Accept, Receives
<1>2. /\ "ACCEPT" \in ToServer \ Logins /\ "ACCEPT" # "MESSAGE"
      /\ {"ACCEPT", "ONLINE"} \subseteq FromServer \ (Results \cup {"MESSAGE"})
  BY DEF ToServer, Logins, FromServer, Results
<1>3. n \in User /\ u \in User
  BY <1>1, <1>2, HeadUp, LoggedIn
<1>4. /\ Packet("ACCEPT", u) \in Calm /\ Packet("ONLINE", u) \in Calm
      /\ Status(connectedUser, n) \in Calm
  BY <1>2, <1>3, PacketTypes
<1>5. \A d \in Client : told[d] \in Seq(Calm)
  BY <1>4, OneOrTwo, ToldTypes
<1>6. /\ friends' \subseteq User \X User
      /\ requests' \in [User \X User -> {"none", "shown", "hidden"}]
  BY <1>1, <1>3 DEF Typed
<1> HIDE DEF told, n, u
<1> QED
  BY <1>1, <1>2, <1>5, <1>6, NoAnswerIs, RequestIs

\* The sender of a request hears that it is rejected.
LEMMA RejectIs ==
  ASSUME Typed, NEW c \in Client, LoginAt(c), Reject(c)
  PROVE  Typed' /\ RequestServed(c)
<1> DEFINE n == Head(up[c]).name
           u == connectedUser[c]
           told == To(connectedUser, n, <<Packet("REJECT", u)>>)
<1>1. /\ Receives(c, "REJECT") /\ UNCHANGED <<accounts, friends, connectedUser>>
      /\ up[c] # <<>> /\ Head(up[c]).type = "REJECT"
      /\ requests' = [requests EXCEPT ![<<n, u>>] = "none"]
      /\ Handles(c, NoAnswer, told)
  BY DEF Reject, Receives
<1>2. /\ "REJECT" \in ToServer \ Logins /\ "REJECT" # "MESSAGE"
      /\ "REJECT" \in FromServer \ (Results \cup {"MESSAGE"})
  BY DEF ToServer, Logins, FromServer, Results
<1>3. u \in User
  BY <1>1, <1>2, LoggedIn
<1>4. Packet("REJECT", u) \in Calm
  BY <1>2, <1>3, PacketTypes
<1>5. \A d \in Client : told[d] \in Seq(Calm)
  BY <1>4, OneOrTwo, ToldTypes
<1>6. /\ friends' \subseteq User \X User
      /\ requests' \in [User \X User -> {"none", "shown", "hidden"}]
  BY <1>1 DEF Typed
<1> HIDE DEF told, n, u
<1> QED
  BY <1>1, <1>2, <1>5, <1>6, NoAnswerIs, RequestIs

\* Nobody hears that a request is hidden.
LEMMA HideIs ==
  ASSUME Typed, NEW c \in Client, LoginAt(c), Hide(c)
  PROVE  Typed' /\ RequestServed(c)
<1> DEFINE n == Head(up[c]).name
           u == connectedUser[c]
<1>1. /\ Receives(c, "HIDE") /\ UNCHANGED <<accounts, friends, connectedUser>>
      /\ requests' = [requests EXCEPT ![<<n, u>>] = IF @ = "none" THEN @ ELSE "hidden"]
      /\ Handles(c, NoAnswer, Nobody)
  BY DEF Hide, Receives
<1>2. "HIDE" \in ToServer \ Logins /\ "HIDE" # "MESSAGE"
  BY DEF ToServer, Logins
<1>3. \A d \in Client : Nobody[d] \in Seq(Calm)
  BY EmptySeq DEF Nobody
<1>4. /\ friends' \subseteq User \X User
      /\ requests' \in [User \X User -> {"none", "shown", "hidden"}]
  BY <1>1 DEF Typed
<1> HIDE DEF n, u
<1> QED
  BY <1>1, <1>2, <1>3, <1>4, NoAnswerIs, RequestIs

\* A message goes to those it names, from the user of its connection.
LEMMA ForwardMessageIs ==
  ASSUME Typed, NEW c \in Client, LoginAt(c), ForwardMessage(c)
  PROVE  /\ Typed' /\ RequestServed(c) /\ connectedUser[c] \in User
         /\ Head(up[c]).type = "MESSAGE"
         /\ \A d \in Client :
              Hears(d, IF connectedUser[d] = Head(up[c]).name
                       THEN {MessagePacket(connectedUser[c], Head(up[c]).body)} ELSE {})
<1> DEFINE p == Head(up[c])
           u == connectedUser[c]
           told == To(connectedUser, p.name, <<MessagePacket(u, p.body)>>)
<1>1. /\ Receives(c, "MESSAGE") /\ UNCHANGED <<accounts, friends, requests, connectedUser>>
      /\ up[c] # <<>> /\ p.type = "MESSAGE"
      /\ Handles(c, NoAnswer, told)
  BY DEF ForwardMessage, Receives
<1>2. "MESSAGE" \in ToServer \ Logins
  BY DEF ToServer, Logins
<1>3. u \in User /\ p.body \in Encrypted
  BY <1>1, <1>2, HeadUp, LoggedIn DEF Up
<1>4. MessagePacket(u, p.body) \in Plain
  BY <1>3, PacketTypes
<1>5. \A d \in Client : told[d] \in Seq(Plain)
  BY <1>4, OneOrTwo, ToldTypes
<1>6. \A d \in Client :
        told[d] \in Seq(IF connectedUser[d] = p.name THEN {MessagePacket(u, p.body)} ELSE {})
  BY OneOrTwo, ToldTypes, EmptySeq DEF To
<1>7. /\ friends' \subseteq User \X User
      /\ requests' \in [User \X User -> {"none", "shown", "hidden"}]
  BY <1>1 DEF Typed
<1> HIDE DEF told
<1>8. Typed' /\ RequestServed(c) /\ Delivered(told)
  <2> HIDE DEF p, u
  <2> QED
    BY <1>1, <1>2, <1>5, <1>7, NoAnswerIs, RequestIs
<1>9. \A d \in Client :
        Hears(d, IF connectedUser[d] = p.name THEN {MessagePacket(u, p.body)} ELSE {})
  BY <1>4, <1>6, <1>8, DeliveredHears
<1> QED
  BY <1>1, <1>3, <1>8, <1>9

\* The thread of c goes on creating an account, and then has its user.
Creates(c) ==
  /\ answer[c].type \in ToDo
  /\ accounts \subseteq accounts'
  /\ UNCHANGED <<clientVars, friends, requests, missed, history>>
  /\ \A d \in Client \ {c} : answer'[d] = answer[d] /\ connectedUser'[d] = connectedUser[d]
  /\ \/ /\ answer'[c].type \in ToDo /\ answer'[c].name = answer[c].name
        /\ connectedUser'[c] = connectedUser[c]
     \/ answer'[c].type = "RESULT_YES" /\ connectedUser'[c] = answer[c].name

\* An account to be created has a name.
LEMMA ToDoIs ==
  ASSUME Typed, NEW c \in Client, answer[c].type \in ToDo
  PROVE  /\ answer[c].name \in User
         /\ answer[c].type \notin Results /\ answer[c] # NoAnswer
<1>1. answer[c] \in Answers
  BY DEF Typed
<1>2. \A p \in Down : p.type \in FromServer
  BY DEF Down, Plain, Results, FromServer
<1>3. answer[c].type \notin FromServer
  BY DEF ToDo, FromServer
<1>4. answer[c].type \notin Results /\ answer[c] # NoAnswer
  BY NoAnswerIs DEF ToDo, Results, Outcomes
<1> QED
  BY <1>1, <1>2, <1>3, <1>4 DEF Answers

\* The two steps of it.
LEMMA CreatesIs ==
  ASSUME Typed, NEW c \in Client, InsertUser(c) \/ Register(c)
  PROVE  Typed' /\ Creates(c)
<1> DEFINE n == answer[c].name
<1>1. answer[c].type \in ToDo /\ UNCHANGED <<clientVars, friends, requests, missed, history>>
  BY DEF InsertUser, Register, ToDo
<1>2. n \in User
  BY <1>1, ToDoIs
<1> HIDE DEF n
<1>3. UNCHANGED <<serpent, link, up, down>>
  BY <1>1 DEF clientVars
<1>4. CASE InsertUser(c)
  <2>1. /\ accounts' = accounts \cup {n} /\ answer' = [answer EXCEPT ![c] = Packet("REGISTER", n)]
        /\ connectedUser' = connectedUser
    BY <1>4 DEF InsertUser, n
  <2>2. /\ Packet("REGISTER", n) \in Answers /\ Packet("REGISTER", n).type \in ToDo
        /\ Packet("REGISTER", n).name = n
    BY <1>2, PacketTypes DEF ToDo, Packet
  <2>3. /\ answer' \in [Client -> Answers] /\ answer'[c] = Packet("REGISTER", n)
        /\ \A d \in Client \ {c} : answer'[d] = answer[d]
    BY <2>1, <2>2 DEF Typed
  <2>4. Typed'
    BY <1>1, <1>2, <1>3, <2>1, <2>3, ServedTyped DEF Typed
  <2> QED
    BY <1>1, <2>1, <2>2, <2>3, <2>4 DEF Creates, n
<1>5. CASE Register(c)
  <2>1. /\ accounts' = accounts /\ answer' = [answer EXCEPT ![c] = Result(TRUE)]
        /\ connectedUser' = [connectedUser EXCEPT ![c] = n]
    BY <1>5 DEF Register, n
  <2>2. Result(TRUE) \in Answers /\ Result(TRUE).type = "RESULT_YES"
    BY <1>2, PacketTypes
  <2>3. /\ answer' \in [Client -> Answers] /\ answer'[c] = Result(TRUE)
        /\ connectedUser' \in [Client -> Handle] /\ connectedUser'[c] = n
        /\ \A d \in Client \ {c} : answer'[d] = answer[d] /\ connectedUser'[d] = connectedUser[d]
    BY <1>2, <2>1, <2>2 DEF Typed, Handle
  <2>4. Typed'
    BY <1>1, <1>3, <2>1, <2>3, ServedTyped DEF Typed
  <2> QED
    BY <1>1, <2>1, <2>2, <2>3, <2>4 DEF Creates, n
<1> QED
  BY <1>4, <1>5

-----------------------------------------------------------------------------
(* The course of a login, as the server sees it *)

\* What leaves a connection alone and sends it no result leaves its login alone.
LEMMA OtherStays ==
  ASSUME Typed, NEW d \in Client, LoginAt(d), Hears(d, Plain),
         serpent'[d] = serpent[d], link'[d] = link[d], up'[d] = up[d],
         answer'[d] = answer[d], connectedUser'[d] = connectedUser[d],
         spent'.edits = 0 => spent.edits = 0
  PROVE  LoginAt(d)'
<1>1. \A i \in DOMAIN down'[d] \ DOMAIN down[d] : down'[d][i].type \notin Results
  BY DEF Hears, Plain
<1>2. NoResult(down[d]) => NoResult(down[d])'
  BY <1>1 DEF NoResult, Hears
<1>3. \A n : Unedited(d, n) => Unedited(d, n)'
  BY DEF Unedited
<1>4. \A p : ResultIs(d, p) => ResultIs(d, p)'
  BY DEF ResultIs, Unedited
<1>5. Before(d) => Before(d)'
  BY <1>2 DEF Before
<1>6. Asking(d) => Asking(d)'
  BY <1>2 DEF Asking, Unedited
<1>7. Decided(d) => Decided(d)'
  BY <1>2 DEF Decided, ResultIs, Unedited
<1>8. ASSUME Told(d) PROVE Told(d)'
  <2>1. PICK i \in DOMAIN down[d] :
          /\ down[d][i].type \in Results /\ ResultIs(d, down[d][i])
          /\ \A j \in DOMAIN down[d] \ {i} : down[d][j].type \notin Results
    BY <1>8 DEF Told
  <2>2. i \in DOMAIN down'[d] /\ down'[d][i] = down[d][i]
    BY DEF Hears
  <2>3. \A j \in DOMAIN down'[d] \ {i} : down'[d][j].type \notin Results
    BY <1>1, <2>1 DEF Hears
  <2>4. ResultIs(d, down[d][i])'
    BY <2>1, <2>2 DEF ResultIs, Unedited
  <2>5. down'[d][i].type \in Results
    BY <2>1, <2>2
  <2> QED
    BY <1>8, <2>2, <2>3, <2>4, <2>5 DEF Told
<1>9. After(d) => After(d)'
  BY <1>2 DEF After
<1>10. Upward(d)'
  BY DEF LoginAt, Upward
<1>11. link[d] # "open" => down'[d] = down[d]
  BY DEF Hears
<1> QED
  BY <1>5, <1>6, <1>7, <1>8, <1>9, <1>10, <1>11 DEF LoginAt

\* A login decided: its result is what is owed.
LEMMA LoginServedAt ==
  ASSUME Typed, NEW c \in Client, LoginInv, LoginServed(c), Typed'
  PROVE  LoginInv'
<1> SUFFICES ASSUME NEW d \in Client PROVE LoginAt(d)'
  BY DEF LoginInv
<1>1. LoginAt(d) /\ LoginAt(c)
  BY DEF LoginInv
<1>2. Hears(d, Calm) /\ Hears(d, Plain)
  BY DEF LoginServed, Hears, Calm
<1>3. UNCHANGED <<serpent, link, spent>>
  BY DEF LoginServed, Served, history
<1>4. CASE d # c
  BY <1>1, <1>2, <1>3, <1>4, OtherStays DEF LoginServed, Served
<1>5. CASE d = c
  <2> DEFINE p == Head(up[c])
  <2>1. p = up[c][1] /\ p.type \in Logins /\ p.name \in User /\ up[c] # <<>> /\ 1 \in DOMAIN up[c]
    BY HeadUp DEF LoginServed, Served
  <2>2. Len(up[c]) = 1 /\ connectedUser[c] = NoName /\ answer[c] = NoAnswer
    BY <1>1, <2>1 DEF LoginAt, Upward
  <2>3. up'[c] = <<>>
    <3>1. up[c] \in Seq(Up)
      BY DEF Typed
    <3>2. Len(Tail(up[c])) = 0 /\ Tail(up[c]) \in Seq(Up)
      BY <2>1, <2>2, <3>1, HeadTailProperties
    <3>3. Tail(up[c]) = <<>>
      BY <3>2, EmptySeq
    <3> QED
      BY <3>3 DEF LoginServed, Served
  <2>4. Upward(c)'
    BY <2>2, <2>3 DEF Upward, LoginServed, ToDo
  <2>5. link[c] # "closed"
    BY <1>1, <2>1 DEF LoginAt
  <2>6. CASE link[c] = "ended"
    BY <1>1, <1>2, <1>3, <1>5, <2>4, <2>6 DEF LoginAt, Hears
  <2>7. CASE link[c] = "open"
    <3>1. serpent[c].screen = "login" /\ serpent[c].waiting /\ Asking(c)
      <4>1. ~Before(c)
        BY <2>1 DEF Before
      <4>2. ~After(c)
        BY <2>2, NamesAssumption DEF After
      <4>3. ~Decided(c) /\ ~Told(c)
        BY <2>1 DEF Decided, Told
      <4> QED
        BY <1>1, <2>7, <4>1, <4>2, <4>3 DEF LoginAt
    <3>2. NoResult(down[c])'
      BY <1>2, <1>5, <3>1 DEF Asking, NoResult, Hears, Calm, Plain
    <3>3. spent'.edits = 0 => p.name = serpent'[c].username
      BY <1>3, <2>1, <3>1 DEF Asking, Unedited
    <3>4. /\ answer'[c].type \in Results \/ (answer'[c].type \in ToDo /\ answer'[c].name = p.name)
          /\ connectedUser'[c] = IF answer'[c].type = "RESULT_YES" THEN p.name ELSE NoName
      BY <2>2 DEF LoginServed, Outcomes
    <3> HIDE DEF p
    <3>5. ResultIs(c, answer[c])'
      BY <2>1, <3>3, <3>4 DEF ResultIs, Unedited
    <3>6. Decided(c)'
      BY <2>3, <3>2, <3>3, <3>4, <3>5 DEF Decided, ToDo, Unedited
    <3> QED
      BY <1>1, <1>3, <1>5, <2>4, <2>7, <3>1, <3>6 DEF LoginAt
  <2>8. link[c] \in {"closed", "open", "ended"}
    BY DEF Typed
  <2> QED
    BY <2>5, <2>6, <2>7, <2>8
<1> QED
  BY <1>4, <1>5

\* An account created: the login is on its way to its result.
LEMMA CreatesAt ==
  ASSUME Typed, NEW c \in Client, LoginInv, Creates(c), Typed'
  PROVE  LoginInv'
<1> SUFFICES ASSUME NEW d \in Client PROVE LoginAt(d)'
  BY DEF LoginInv
<1>1. LoginAt(d) /\ LoginAt(c)
  BY DEF LoginInv
<1>2. UNCHANGED <<serpent, link, up, down, spent>>
  BY DEF Creates, clientVars, history
<1>3. CASE d # c
  <2>1. Hears(d, Plain)
    BY <1>2 DEF Hears, Typed
  <2> QED
    BY <1>1, <1>2, <1>3, <2>1, OtherStays DEF Creates
<1>4. CASE d = c
  <2> DEFINE n == answer[c].name
  <2>1. /\ answer[c].type \in ToDo /\ n \in User
        /\ answer[c].type \notin Results /\ answer[c] # NoAnswer
    BY ToDoIs DEF Creates
  <2>2. up[c] = <<>> /\ connectedUser[c] = NoName
    BY <1>1, <2>1 DEF LoginAt, Upward
  <2>3. \/ /\ answer'[c].type \in ToDo /\ answer'[c].name = n
           /\ connectedUser'[c] = NoName
        \/ answer'[c].type = "RESULT_YES" /\ connectedUser'[c] = n
    BY <2>2 DEF Creates
  <2>4. Upward(c)'
    BY <1>2, <2>2, <2>3 DEF Upward, ToDo
  <2>5. link[c] # "closed"
    BY <1>1, <2>1 DEF LoginAt
  <2>6. CASE link[c] = "ended"
    BY <1>1, <1>2, <1>4, <2>4, <2>6 DEF LoginAt
  <2>7. CASE link[c] = "open"
    <3>1. ~After(c) /\ ~Before(c) /\ ~Asking(c) /\ ~Told(c)
      BY <2>1 DEF After, Before, Asking, Told, Outcomes
    <3>2. serpent[c].screen = "login" /\ serpent[c].waiting /\ Decided(c)
      BY <1>1, <2>7, <3>1 DEF LoginAt
    <3>3. NoResult(down[c])' /\ (spent'.edits = 0 => n = serpent'[c].username)
      BY <1>2, <2>1, <3>2 DEF Decided, NoResult, Unedited
    <3> HIDE DEF n
    <3>4. Decided(c)'
      BY <1>2, <2>1, <2>2, <2>3, <3>3 DEF Decided, ResultIs, Unedited, Results
    <3> QED
      BY <1>1, <1>2, <1>4, <2>4, <2>7, <3>2, <3>4 DEF LoginAt
  <2>8. link[c] \in {"closed", "open", "ended"}
    BY DEF Typed
  <2> QED
    BY <2>5, <2>6, <2>7, <2>8
<1> QED
  BY <1>3, <1>4

\* A request served: its user stays logged in.
LEMMA RequestServedAt ==
  ASSUME Typed, NEW c \in Client, LoginInv, RequestServed(c), Typed'
  PROVE  LoginInv'
<1> SUFFICES ASSUME NEW d \in Client PROVE LoginAt(d)'
  BY DEF LoginInv
<1>1. LoginAt(d) /\ LoginAt(c)
  BY DEF LoginInv
<1>2. Hears(d, Plain)
  BY DEF RequestServed, Hears, Calm
<1>3. UNCHANGED <<serpent, link, spent, connectedUser>>
  BY DEF RequestServed, Served, history
<1>4. CASE d # c
  BY <1>1, <1>2, <1>3, <1>4, OtherStays DEF RequestServed, Served
<1>5. CASE d = c
  <2>1. up[c] # <<>> /\ Head(up[c]).type \notin Logins /\ answer'[c].type \notin Outcomes
        /\ Head(up[c]) = up[c][1] /\ 1 \in DOMAIN up[c]
    BY HeadUp DEF RequestServed, Served
  <2>2. connectedUser[c] \in User
    BY <1>1, <2>1, LoggedIn
  <2>3. \A i \in DOMAIN up[c] : up[c][i].type \notin Logins
    BY <1>1, <2>1 DEF LoginAt, Upward
  <2>4. \A i \in DOMAIN Tail(up[c]) : Tail(up[c])[i].type \notin Logins
    <3>1. up[c] \in Seq(Up)
      BY DEF Typed
    <3> DEFINE n == Len(up[c])
               q == Tail(up[c])
    <3>2. /\ Len(q) = n - 1 /\ q \in Seq(Up) /\ n \in Nat /\ DOMAIN up[c] = 1..n
          /\ \A i \in 1..Len(q) : q[i] = up[c][i + 1]
      BY <2>1, <3>1, HeadTailProperties, LenProperties
    <3> HIDE DEF q, n
    <3>3. DOMAIN q = 1..(n - 1)
      BY <3>2, LenProperties
    <3>4. \A i \in 1..(n - 1) : q[i] = up[c][i + 1] /\ i + 1 \in DOMAIN up[c]
      BY <3>2
    <3>5. \A i \in DOMAIN q : q[i].type \notin Logins
      BY <2>3, <3>3, <3>4
    <3> QED
      BY <3>5 DEF q
  <2>5. Upward(c)'
    BY <1>3, <2>1, <2>2, <2>4 DEF Upward, RequestServed, Served, Outcomes
  <2>6. link[c] # "closed"
    BY <1>1, <2>1 DEF LoginAt
  <2>7. CASE link[c] = "ended"
    BY <1>1, <1>2, <1>3, <1>5, <2>5, <2>7 DEF LoginAt, Hears
  <2>8. CASE link[c] = "open"
    <3>1. serpent[c].screen = "main" /\ After(c)
      <4>1. ~Before(c) /\ ~Asking(c)
        BY <2>2, NamesAssumption DEF Before, Asking
      <4>2. ~Decided(c) /\ ~Told(c)
        BY <2>1 DEF Decided, Told
      <4> QED
        BY <1>1, <2>8, <4>1, <4>2 DEF LoginAt
    <3>2. NoResult(down[c])'
      BY <1>2, <1>5, <3>1 DEF After, NoResult, Hears, Plain
    <3>3. After(c)'
      BY <1>3, <2>1, <2>2, <3>1, <3>2 DEF After
    <3> QED
      BY <1>1, <1>3, <1>5, <2>5, <2>8, <3>1, <3>3 DEF LoginAt
  <2>9. link[c] \in {"closed", "open", "ended"}
    BY DEF Typed
  <2> QED
    BY <2>6, <2>7, <2>8, <2>9
<1> QED
  BY <1>4, <1>5

\* The answer is sent.
LEMMA RespondIs ==
  ASSUME Typed, NEW c \in Client, LoginInv, Respond(c)
  PROVE  /\ Typed' /\ LoginInv'
         /\ \A d \in Client : Hears(d, IF d = c THEN {answer[c]} ELSE {})
<1> DEFINE a == answer[c]
           q == Append(down[c], a)
           n == Len(down[c])
<1>1. a \in Down /\ a # NoAnswer /\ down[c] \in Seq(Down) /\ a.type \notin ToDo
  BY DEF Respond, Typed, Answers, ToDo, FromServer, NoAnswer, Packet
<1>2. /\ n \in Nat /\ DOMAIN down[c] = 1..n
      /\ q \in Seq(Down) /\ Len(q) = n + 1 /\ q[n + 1] = a
      /\ \A i \in 1..n : q[i] = down[c][i]
  BY <1>1, AppendProperties, LenProperties
<1> HIDE DEF q, n
<1>3. DOMAIN q = 1..(n + 1)
  BY <1>2, LenProperties
<1>4. /\ \A d \in Client \ {c} : down'[d] = down[d] /\ answer'[d] = answer[d]
      /\ answer'[c] = NoAnswer
      /\ down'[c] = IF link[c] = "open" THEN q ELSE down[c]
      /\ UNCHANGED <<serpent, link, up, connectedUser, spent>>
  BY DEF Respond, Typed, history, q
<1>5. Typed'
  <2>1. down' \in [Client -> Seq(Down)] /\ answer' \in [Client -> Answers]
    BY <1>2, NoAnswerIs DEF Respond, Typed, q
  <2> QED
    BY <2>1, ServedTyped DEF Typed, Respond
<1>6. \A d \in Client : Hears(d, IF d = c THEN {a} ELSE {})
  <2>1. ASSUME NEW d \in Client, d # c PROVE Hears(d, {})
    BY <1>4, <2>1 DEF Hears, Typed
  <2>2. CASE link[c] = "open"
    BY <1>2, <1>3, <1>4, <2>1, <2>2 DEF Hears
  <2>3. CASE link[c] # "open"
    BY <1>1, <1>4, <2>1, <2>3 DEF Hears
  <2> QED
    BY <2>1, <2>2, <2>3
<1>7. ASSUME NEW d \in Client PROVE LoginAt(d)'
  <2>1. LoginAt(d)
    BY DEF LoginInv
  <2>2. CASE d # c
    <3>1. Hears(d, Plain)
      BY <1>6, <2>2 DEF Hears
    <3> QED
      BY <1>4, <2>1, <2>2, <3>1, OtherStays
  <2>3. CASE d = c
    <3>1. Upward(c)'
      BY <1>4, <2>1, <2>3, NoAnswerIs DEF LoginAt, Upward, Outcomes
    <3>2. link[c] # "closed"
      BY <1>1, <2>1, <2>3 DEF LoginAt
    <3>3. CASE link[c] = "ended"
      BY <1>4, <2>1, <2>3, <3>1, <3>3 DEF LoginAt
    <3>4. CASE link[c] = "open"
      <4>1. down'[c] = q
        BY <1>4, <3>4
      <4>2. \/ serpent[c].screen = "login" /\ serpent[c].waiting /\ Decided(c)
            \/ serpent[c].screen = "main" /\ After(c)
        BY <1>1, <2>1, <2>3, <3>4 DEF LoginAt, Before, Asking, Told
      <4>3. CASE serpent[c].screen = "login" /\ serpent[c].waiting /\ Decided(c)
        <5>1. ResultIs(c, a) /\ a.type \in Results /\ up[c] = <<>> /\ NoResult(down[c])
          BY <1>1, <4>3 DEF Decided
        <5>2. PICK k \in Nat : k = n + 1 /\ k \in DOMAIN q /\ q[k] = a
          BY <1>2, <1>3
        <5>3. \A j \in DOMAIN q \ {k} : q[j].type \notin Results
          BY <1>2, <1>3, <5>1, <5>2 DEF NoResult
        <5>4. \A p : ResultIs(c, p) => IF p.type = "RESULT_YES"
                 THEN /\ connectedUser'[c] \in User
                      /\ spent'.edits = 0 => connectedUser'[c] = serpent'[c].username
                 ELSE connectedUser'[c] = NoName
          BY <1>4 DEF ResultIs, Unedited
        <5> HIDE DEF a, q, n
        <5>5. ResultIs(c, down[c][k])'
          BY <4>1, <5>1, <5>2, <5>4 DEF ResultIs, Unedited
        <5>6. Told(c)'
          BY <1>4, <4>1, <5>1, <5>2, <5>3, <5>5 DEF Told
        <5> QED
          BY <1>4, <2>1, <2>3, <3>1, <3>4, <4>3, <5>6 DEF LoginAt
      <4>4. CASE serpent[c].screen = "main" /\ After(c)
        <5>1. NoResult(q)
          BY <1>2, <1>3, <4>4 DEF After, NoResult, Outcomes
        <5>2. After(c)'
          BY <1>4, <4>1, <4>4, <5>1, NoAnswerIs DEF After
        <5> QED
          BY <1>4, <2>1, <2>3, <3>1, <3>4, <4>4, <5>2 DEF LoginAt
      <4> QED
        BY <4>2, <4>3, <4>4
    <3> QED
      BY <3>2, <3>3, <3>4 DEF Typed
  <2> QED
    BY <2>2, <2>3
<1> QED
  BY <1>5, <1>6, <1>7 DEF LoginInv

\* The end of a connection is noticed.
LEMMA DisconnectedIs ==
  ASSUME Typed, NEW c \in Client, LoginInv, Disconnected(c)
  PROVE  /\ Typed' /\ LoginInv'
         /\ \A d \in Client : Hears(d, Calm)
<1> DEFINE u == connectedUser[c]
           told == ToFriends(connectedUser, u, <<Packet("OFFLINE", u)>>)
<1>1. /\ link[c] = "ended" /\ up[c] = <<>> /\ answer[c] = NoAnswer
      /\ link' = [link EXCEPT ![c] = "closed"]
      /\ connectedUser' = [connectedUser EXCEPT ![c] = NoName]
      /\ Delivered(told)
      /\ UNCHANGED <<serpent, up, accounts, friends, requests, answer, history>>
  BY DEF Disconnected
<1>2. \A d \in Client : told[d] \in Seq(Calm)
  <2>1. CASE u \in User
    <3>1. "OFFLINE" \in FromServer \ (Results \cup {"MESSAGE"})
      BY DEF FromServer, Results
    <3>2. Packet("OFFLINE", u) \in Calm
      BY <2>1, <3>1, PacketTypes
    <3> QED
      BY <3>2, OneOrTwo, ToldTypes
  <2>2. CASE u \notin User
    BY <2>2, EmptySeq DEF ToFriends, Typed
  <2> QED
    BY <2>1, <2>2
<1> HIDE DEF told
<1>3. \A d \in Client : Hears(d, Calm) /\ Hears(d, Plain)
  <2>1. \A d \in Client : Hears(d, Calm)
    BY <1>1, <1>2, DeliveredHears DEF Calm
  <2> QED
    BY <2>1 DEF Hears, Calm
<1>4. /\ link' \in [Client -> {"closed", "open", "ended"}] /\ link'[c] = "closed"
      /\ connectedUser' \in [Client -> Handle] /\ connectedUser'[c] = NoName
      /\ \A d \in Client \ {c} : link'[d] = link[d] /\ connectedUser'[d] = connectedUser[d]
  BY <1>1 DEF Typed, Handle
<1>5. Typed'
  <2>1. down' \in [Client -> Seq(Down)]
    BY <1>1, <1>3 DEF Delivered, Hears
  <2> QED
    BY <1>1, <1>4, <2>1 DEF Typed, history, Sound, Programs, current_codebook
<1>6. ASSUME NEW d \in Client PROVE LoginAt(d)'
  <2>1. LoginAt(d)
    BY DEF LoginInv
  <2>2. CASE d # c
    BY <1>1, <1>3, <1>4, <2>1, <2>2, OtherStays DEF history
  <2>3. CASE d = c
    <3>1. down'[c] = <<>>
      BY <1>1, <1>3, <2>1, <2>3 DEF LoginAt, Hears
    <3>2. Upward(c)'
      BY <1>1, NoAnswerIs DEF Upward, Outcomes
    <3> QED
      BY <1>1, <1>4, <2>1, <2>3, <3>1, <3>2 DEF LoginAt
  <2> QED
    BY <2>2, <2>3
<1> QED
  BY <1>3, <1>5, <1>6 DEF LoginInv

-----------------------------------------------------------------------------
(* The steps of clients and users *)

\* Nothing is said or read at d, and what is on its way was so before, except
\* for packets that are no messages.
Quiet(d) ==
  /\ Keeps(serpent[d], serpent'[d]) /\ serpent'[d].messages = serpent[d].messages
  /\ \A i \in DOMAIN up'[d] :
       up'[d][i].type = "MESSAGE" => \E j \in DOMAIN up[d] : up[d][j] = up'[d][i]
  /\ \A i \in DOMAIN down'[d] :
       down'[d][i].type = "MESSAGE" => \E j \in DOMAIN down[d] : down[d][j] = down'[d][i]

\* The server does nothing, and a step of a user is counted.
Counted ==
  /\ UNCHANGED serverVars
  /\ posted' \in Seq([from : User, to : User, book : Keyword])
  /\ spent' \in [acts : Nat, edits : Nat, launches : Nat, breaks : Nat]
  /\ spent'.edits = 0 => spent.edits = 0

\* What spends one of a bound is counted, and nothing is uncounted.
LEMMA CountedIs ==
  ASSUME Typed, UNCHANGED serverVars
  PROVE  /\ UNCHANGED history => Counted
         /\ \A what \in {"acts", "edits", "launches", "breaks"} :
              Spends(what) /\ posted' \in Seq([from : User, to : User, book : Keyword])
                => Counted /\ IF what = "edits" THEN spent'.edits # 0
                                                ELSE spent'.edits = spent.edits
<1>1. UNCHANGED history => Counted
  BY DEF Typed, Counted, history
<1>2. ASSUME NEW what \in {"acts", "edits", "launches", "breaks"}, Spends(what)
      PROVE  /\ spent' \in [acts : Nat, edits : Nat, launches : Nat, breaks : Nat]
             /\ spent'.edits = 0 => spent.edits = 0
             /\ IF what = "edits" THEN spent'.edits # 0 ELSE spent'.edits = spent.edits
  <2>1. spent \in [{"acts", "edits", "launches", "breaks"} -> Nat]
    BY DEF Typed
  <2>2. spent' = [spent EXCEPT ![what] = spent[what] + 1]
    BY <1>2 DEF Spends
  <2>3. spent' \in [{"acts", "edits", "launches", "breaks"} -> Nat]
    BY <2>1, <2>2
  <2>4. spent'["edits"] = IF what = "edits" THEN spent["edits"] + 1 ELSE spent["edits"]
    BY <2>1, <2>2
  <2>5. spent["edits"] \in Nat
    BY <2>1
  <2>6. (spent'["edits"] = 0 => spent["edits"] = 0)
        /\ IF what = "edits" THEN spent'["edits"] # 0 ELSE spent'["edits"] = spent["edits"]
    BY <2>4, <2>5
  <2> QED
    BY <2>3, <2>6
<1> QED
  BY <1>1, <1>2 DEF Counted

\* A step of the client of c leaves the others alone.
LEMMA OneClient ==
  ASSUME Typed, LoginInv, NEW c \in Client, NEW t, Sound(t), Becomes(c, t), Counted,
         link' \in [Client -> {"closed", "open", "ended"}],
         up' \in [Client -> Seq(Up)], down' \in [Client -> Seq(Down)],
         \A d \in Client \ {c} : link'[d] = link[d] /\ up'[d] = up[d] /\ down'[d] = down[d]
  PROVE  /\ Typed' /\ serpent'[c] = t
         /\ answer' = answer /\ connectedUser' = connectedUser
         /\ LoginAt(c)' => LoginInv'
         /\ \A d \in Client \ {c} : Quiet(d)
<1>1. /\ serpent' = [d \in Client |-> serpent'[d]] /\ serpent'[c] = t
      /\ \A d \in Client \ {c} : serpent'[d] = serpent[d]
  BY DEF Typed, Becomes
<1>2. UNCHANGED <<accounts, friends, requests, answer, connectedUser>>
  BY DEF Counted, serverVars
<1>3. \A d \in Client : Sound(serpent[d]) /\ Sound(serpent'[d])
  BY <1>1 DEF Typed
<1>4. Typed'
  <2>1. \A d \in Client : Sound(serpent[d])'
    BY <1>3 DEF Sound, Programs, current_codebook
  <2> QED
    BY <1>1, <1>2, <2>1 DEF Typed, Counted
<1>5. ASSUME NEW d \in Client \ {c} PROVE LoginAt(d)' /\ Quiet(d)
  <2>1. Hears(d, Plain)
    BY DEF Hears, Typed
  <2>2. LoginAt(d) /\ (spent'.edits = 0 => spent.edits = 0)
    BY DEF LoginInv, Counted
  <2>3. LoginAt(d)'
    BY <1>1, <1>2, <2>1, <2>2, OtherStays
  <2>4. Keeps(serpent[d], serpent'[d])
    BY <1>1, <1>3, SoundFields DEF Keeps
  <2> QED
    BY <1>1, <2>3, <2>4 DEF Quiet
<1> QED
  BY <1>1, <1>2, <1>4, <1>5 DEF LoginInv

\* A silent step at the client of c.
LEMMA SilentAt ==
  ASSUME Typed, LoginInv, NEW c \in Client, NEW t, Silent(serpent[c], t), Becomes(c, t),
         Counted, UNCHANGED <<link, up, down>>
  PROVE  Typed' /\ LoginInv' /\ \A d \in Client : Quiet(d)
<1>1. /\ Typed' /\ serpent'[c] = t /\ answer' = answer /\ connectedUser' = connectedUser
      /\ LoginAt(c)' => LoginInv'
      /\ \A d \in Client \ {c} : Quiet(d)
  BY OneClient DEF Silent, Typed
<1>2. LoginAt(c)'
  <2>1. SameLogin(serpent[c], serpent'[c]) /\ LoginAt(c) /\ (spent'.edits = 0 => spent.edits = 0)
    BY <1>1 DEF Silent, LoginInv, Counted
  <2>2. \A n : Unedited(c, n) => Unedited(c, n)'
    BY <2>1 DEF Unedited, SameLogin
  <2>3. Upward(c)' /\ (Before(c) => Before(c)') /\ (NoResult(down[c]) => NoResult(down[c])')
    BY <1>1, <2>1 DEF LoginAt, Upward, Before, NoResult
  <2>4. Asking(c) => Asking(c)'
    BY <1>1, <2>1 DEF Asking, Unedited, SameLogin, NoResult
  <2>5. Decided(c) => Decided(c)'
    BY <1>1, <2>1 DEF Decided, ResultIs, Unedited, SameLogin, NoResult
  <2>6. Told(c) => Told(c)'
    BY <1>1, <2>1 DEF Told, ResultIs, Unedited, SameLogin
  <2>7. After(c) => After(c)'
    BY <1>1, <2>1 DEF After, SameLogin, NoResult
  <2>8. /\ serpent'[c].screen = serpent[c].screen /\ serpent'[c].waiting = serpent[c].waiting
        /\ serpent'[c].logged_in_user = serpent[c].logged_in_user
        /\ link' = link /\ up' = up /\ down' = down
    BY <2>1 DEF SameLogin
  <2> QED
    BY <1>1, <2>1, <2>3, <2>4, <2>5, <2>6, <2>7, <2>8 DEF LoginAt
<1>3. Quiet(c)
  BY <1>1 DEF Quiet, Silent
<1> QED
  BY <1>1, <1>2, <1>3

\* A client that is logged in sends a packet.
LEMMA SendAt ==
  ASSUME Typed, LoginInv, NEW c \in Client, serpent[c].screen = "main",
         NEW t, Sound(t), Keeps(serpent[c], t), SameLogin(serpent[c], t), Becomes(c, t),
         NEW p \in Up, p.type \notin Logins, Sends(c, p), Counted
  PROVE  /\ Typed' /\ LoginInv' /\ connectedUser[c] \in User
         /\ up'[c] = Append(up[c], p) /\ serpent'[c] = t
         /\ UNCHANGED <<connectedUser, down>>
         /\ \A d \in Client \ {c} : Quiet(d)
         /\ p.type # "MESSAGE" /\ t.messages = serpent[c].messages => Quiet(c)
<1>1. LoginAt(c) /\ link[c] = "open" /\ After(c)
  BY DEF LoginInv, LoginAt
<1>2. up' = [up EXCEPT ![c] = Append(@, p)] /\ UNCHANGED <<link, down>>
  BY <1>1 DEF Sends
<1> DEFINE q == Append(up[c], p)
           n == Len(up[c])
<1>3. /\ n \in Nat /\ DOMAIN up[c] = 1..n /\ q \in Seq(Up) /\ DOMAIN q = 1..(n + 1)
      /\ q[n + 1] = p /\ \A i \in 1..n : q[i] = up[c][i]
  BY AppendProperties, LenProperties DEF Typed
<1>4. up' \in [Client -> Seq(Up)] /\ up'[c] = q /\ \A d \in Client \ {c} : up'[d] = up[d]
  BY <1>2, <1>3 DEF Typed
<1> HIDE DEF q, n
<1>5. /\ Typed' /\ serpent'[c] = t /\ answer' = answer /\ connectedUser' = connectedUser
      /\ LoginAt(c)' => LoginInv'
      /\ \A d \in Client \ {c} : Quiet(d)
  BY <1>2, <1>4, OneClient DEF Typed
<1>6. connectedUser[c] \in User
  BY <1>1 DEF After
<1>7. LoginAt(c)'
  <2>1. \A i \in DOMAIN up[c] : up[c][i].type \notin Logins
    BY <1>1, <1>6, NamesAssumption DEF LoginAt, Upward
  <2>2. \A i \in DOMAIN q : q[i].type \notin Logins
    BY <1>3, <2>1
  <2>3. Upward(c)'
    BY <1>1, <1>4, <1>5, <1>6, <2>2 DEF Upward, After, Outcomes
  <2>4. serpent'[c].screen = "main" /\ serpent'[c].logged_in_user = serpent[c].logged_in_user
    BY <1>5 DEF SameLogin
  <2>5. After(c)'
    BY <1>1, <1>2, <1>5, <2>4 DEF After, NoResult, Counted
  <2> QED
    BY <1>1, <1>2, <2>3, <2>4, <2>5 DEF LoginAt
<1>8. p.type # "MESSAGE" /\ t.messages = serpent[c].messages => Quiet(c)
  BY <1>2, <1>3, <1>4, <1>5 DEF Quiet
<1> QED
  BY <1>2, <1>4, <1>5, <1>6, <1>7, <1>8 DEF q

\* Choosing a friend or a codebook, making one, closing a message box, and
\* changing between logging in and registering are silent.
LEMMA LocalStep ==
  ASSUME Typed, LoginInv, NEW c \in Client,
         \/ \E n \in User : Quietly(SelectFriend(c, n))
         \/ \E b \in BookName : Quietly(SelectCodebook(c, b))
         \/ \E b \in BookName, k \in Keyword : MakeCodebook(c, b, k)
         \/ Quietly(DismissMessageBox(c))
         \/ Quietly(swapLoginPurpose(c))
  PROVE  Typed' /\ LoginInv' /\ \A d \in Client : Quiet(d)
<1> DEFINE s == serpent[c]
<1>1. Sound(s)
  BY DEF Typed
<1>2. ASSUME UNCHANGED <<link, up, down>>, Counted, NEW t, Silent(s, t), Becomes(c, t)
      PROVE  Typed' /\ LoginInv' /\ \A d \in Client : Quiet(d)
  BY <1>2, SilentAt
<1>3. UNCHANGED serverVars /\ UNCHANGED history => Counted
  BY CountedIs
<1>4. CASE \E n \in User : Quietly(SelectFriend(c, n))
  <2>1. PICK n \in User : Quietly(SelectFriend(c, n))
    BY <1>4
  <2>2. Silent(s, queryFriendMessages(s, n))
    BY <1>1, QuerySilent
  <2> QED
    BY <1>2, <1>3, <2>1, <2>2 DEF Quietly, SelectFriend
<1>5. CASE \E b \in BookName : Quietly(SelectCodebook(c, b))
  <2>1. PICK b \in BookName : Quietly(SelectCodebook(c, b))
    BY <1>5
  <2>2. Silent(s, [s EXCEPT !.current = b])
    BY <1>1, <2>1, BooksSilent DEF Quietly, SelectCodebook
  <2> QED
    BY <1>2, <1>3, <2>1, <2>2 DEF Quietly, SelectCodebook
<1>6. CASE \E b \in BookName, k \in Keyword : MakeCodebook(c, b, k)
  <2>1. PICK b \in BookName, k \in Keyword : MakeCodebook(c, b, k)
    BY <1>6
  <2>2. Silent(s, addNewCodebook(s, b, k))
    BY <1>1, BooksSilent
  <2>3. UNCHANGED <<serverVars, posted>> /\ Spends("acts")
    BY <2>1 DEF MakeCodebook, Acts
  <2>4. Counted
    BY <2>3, CountedIs DEF Typed
  <2> QED
    BY <1>2, <2>1, <2>2, <2>4 DEF MakeCodebook, Acts, CreateCodebook
<1>7. CASE Quietly(DismissMessageBox(c))
  <2>1. Silent(s, [s EXCEPT !.modal = FALSE])
    BY <1>1, ModalSilent
  <2> QED
    BY <1>2, <1>3, <1>7, <2>1 DEF Quietly, DismissMessageBox
<1>8. CASE Quietly(swapLoginPurpose(c))
  <2> DEFINE t == [s EXCEPT !.creating_account = ~s.creating_account]
  <2>1. t \in Programs(s.page) /\ Resembles(s, t) /\ SameLogin(s, t)
    BY <1>1 DEF Sound, Programs, Resembles, SameLogin
  <2>2. Becomes(c, t) /\ UNCHANGED <<link, up, down>> /\ Counted
    BY <1>3, <1>8 DEF Quietly, swapLoginPurpose
  <2> HIDE DEF t, s
  <2>3. Silent(s, t)
    BY <1>1, <2>1, ResemblingSound DEF Silent
  <2> QED
    BY <1>2, <2>2, <2>3
<1> QED
  BY <1>4, <1>5, <1>6, <1>7, <1>8

\* A user asks for a friend, or answers a request.
LEMMA RequestStep ==
  ASSUME Typed, LoginInv, NEW c \in Client, NEW n \in User, Ask(c, n) \/ Decide(c, n)
  PROVE  Typed' /\ LoginInv' /\ \A d \in Client : Quiet(d)
<1> DEFINE s == serpent[c]
<1>1. Sound(s)
  BY DEF Typed
<1>2. UNCHANGED <<serverVars, posted>> /\ Spends("acts") /\ s.screen = "main"
  BY DEF Ask, Decide, Acts, createFriendRequest, Answer, At
<1>3. Counted
  BY <1>2, CountedIs DEF Typed
<1>4. Silent(s, s)
  BY <1>1, SoundFields DEF Silent, Keeps, SameLogin
<1>5. ASSUME NEW r \in ToServer \ (Logins \cup {"MESSAGE"}), Sends(c, Packet(r, n)),
             NEW t, Silent(s, t), Becomes(c, t)
      PROVE  Typed' /\ LoginInv' /\ \A d \in Client : Quiet(d)
  <2>1. Packet(r, n) \in Up /\ Packet(r, n).type = r
    BY PacketTypes DEF Packet
  <2> HIDE DEF s
  <2>2. /\ Typed' /\ LoginInv'
        /\ \A d \in Client \ {c} : Quiet(d)
        /\ Packet(r, n).type # "MESSAGE" /\ t.messages = serpent[c].messages => Quiet(c)
    BY <1>2, <1>3, <1>5, <2>1, SendAt DEF Silent, s
  <2> QED
    BY <1>5, <2>1, <2>2 DEF Silent, s
<1>6. CASE Ask(c, n)
  <2>1. Sends(c, Packet("ASK", n)) /\ UNCHANGED serpent
    BY <1>6 DEF Ask, Acts, createFriendRequest
  <2>2. Becomes(c, s)
    BY <2>1 DEF Becomes, Typed
  <2>3. "ASK" \in ToServer \ (Logins \cup {"MESSAGE"})
    BY DEF ToServer, Logins
  <2> QED
    BY <1>4, <1>5, <2>1, <2>2, <2>3
<1>7. CASE Decide(c, n)
  <2>1. PICK r \in {"ACCEPT", "REJECT", "HIDE"} : Answer(c, n, r)
    BY <1>7 DEF Decide, Acts
  <2> DEFINE q == IF r = "ACCEPT" THEN insertFriend(s, n) ELSE s
             t == removeRequest(q, n)
  <2>2. Silent(s, q)
    BY <1>1, <1>4, InsertFriendSilent
  <2> HIDE DEF q
  <2>3. Silent(q, t)
    BY <2>2, RequestsSilent DEF Silent
  <2> HIDE DEF t
  <2>4. Silent(s, t)
    BY <1>1, <2>2, <2>3, SilentTwice
  <2>5. r \in ToServer \ (Logins \cup {"MESSAGE"})
    BY DEF ToServer, Logins
  <2>6. Sends(c, Packet(r, n)) /\ Becomes(c, t)
    BY <2>1 DEF Answer, t, q
  <2> QED
    BY <1>5, <2>4, <2>5, <2>6
<1> QED
  BY <1>6, <1>7

\* A user writes: the row of the message and the packet that carries it.
LEMMA WriteIs ==
  ASSUME Typed, LoginInv, NEW c \in Client, Write(c)
  PROVE  LET s == serpent[c]
             n == s.queried_friend
             m == Len(posted) + 1
             k == current_codebook(s)
             p == MessagePacket(n, [text |-> m, book |-> k])
             r == [friend_id |-> getFriendId(s, n), message |-> m, original |-> TRUE]
         IN /\ Typed' /\ LoginInv' /\ connectedUser[c] \in User
            /\ s.screen = "main" /\ n \in User /\ hasFriend(s, n) /\ p \in Up
            /\ posted' = Append(posted, [from |-> connectedUser[c], to |-> n, book |-> k])
            /\ up'[c] = Append(up[c], p) /\ UNCHANGED <<connectedUser, down>>
            /\ Keeps(s, serpent'[c])
            /\ serpent'[c].messages = Append(s.messages, r)
            /\ \A d \in Client \ {c} : Quiet(d)
            /\ spent'.edits = spent.edits
<1> DEFINE s == serpent[c]
           n == s.queried_friend
           m == Len(posted) + 1
           k == current_codebook(s)
           p == MessagePacket(n, [text |-> m, book |-> k])
           r == [friend_id |-> getFriendId(s, n), message |-> m, original |-> TRUE]
           t == insertMessage(s, m, TRUE, n)
           x == [from |-> connectedUser[c], to |-> n, book |-> k]
<1>1. Sound(s)
  BY DEF Typed
<1>2. /\ s.screen = "main" /\ hasFriend(s, n) /\ Sends(c, p) /\ Becomes(c, t)
      /\ UNCHANGED serverVars /\ Spends("acts")
      /\ posted' = Append(posted, x)
  BY DEF Write, Acts, SendButton, At, encrypt
<1>3. n \in User
  <2>1. PICK i \in DOMAIN s.friends :
          s.friends[i] = [friend_name |-> n, user |-> s.logged_in_user]
    BY <1>2 DEF hasFriend, FriendIds
  <2>2. s.friends[i] \in FriendRows
    BY <1>1, SoundFields, ElementOfSeq, LenProperties
  <2> HIDE DEF n, s
  <2>3. s.friends[i].friend_name = n
    BY <2>1
  <2> QED
    BY <2>2, <2>3 DEF FriendRows
<1>4. connectedUser[c] \in User
  BY <1>2 DEF LoginInv, LoginAt, After
<1>5. k \in Keyword /\ m \in Nat
  BY <1>1, LenProperties DEF Sound, Typed
<1>6. /\ [text |-> m, book |-> k] \in Encrypted
      /\ x \in [from : User, to : User, book : Keyword]
  BY <1>3, <1>4, <1>5 DEF Encrypted
<1> HIDE DEF x
<1>7. p \in Up /\ p.type \notin Logins
  BY <1>3, <1>6, PacketTypes DEF MessagePacket, Logins
<1>8. posted' \in Seq([from : User, to : User, book : Keyword])
  BY <1>2, <1>6, AppendProperties DEF Typed
<1>9. Counted /\ spent'.edits = spent.edits
  BY <1>2, <1>8, CountedIs
<1> HIDE DEF m, p, k, n
<1>10. Sound(t) /\ Keeps(s, t) /\ SameLogin(s, t) /\ t.messages = Append(s.messages, r)
  BY <1>1, <1>2, <1>3, <1>5, InsertMessageIs
<1> HIDE DEF t, r
<1>11. /\ Typed' /\ LoginInv'
       /\ up'[c] = Append(up[c], p) /\ serpent'[c] = t
       /\ UNCHANGED <<connectedUser, down>>
       /\ \A d \in Client \ {c} : Quiet(d)
  BY <1>2, <1>7, <1>9, <1>10, SendAt
<1> QED
  BY <1>2, <1>3, <1>4, <1>7, <1>9, <1>10, <1>11 DEF m, p, k, n, r, x

\* A user sends the form.
LEMMA LoginStep ==
  ASSUME Typed, LoginInv, NEW c \in Client, NEW u \in User, Quietly(login(c, u))
  PROVE  Typed' /\ LoginInv' /\ \A d \in Client : Quiet(d)
<1> DEFINE s == serpent[c]
           t == [s EXCEPT !.username = u, !.waiting = TRUE]
           p == Packet(IF s.creating_account THEN "CREATE_ACCOUNT" ELSE "LOGIN_REQUEST", u)
<1>1. Sound(s)
  BY DEF Typed
<1>2. /\ s.screen = "login" /\ link[c] = "open" /\ ~s.waiting
      /\ Sends(c, p) /\ Becomes(c, t) /\ Counted
  BY CountedIs DEF Quietly, login, At
<1>3. Before(c) /\ s.logged_in_user = NoName
  BY <1>2 DEF LoginInv, LoginAt
<1>4. p \in Up /\ p.type \in Logins /\ p.name = u /\ p.type # "MESSAGE"
  <2>1. {"CREATE_ACCOUNT", "LOGIN_REQUEST"} \subseteq ToServer
    BY DEF ToServer
  <2>2. p \in Up
    BY <2>1, PacketTypes
  <2> QED
    BY <2>2 DEF Packet, Logins
<1>5. /\ t \in Programs(s.page) /\ Resembles(s, t)
      /\ t.username = u /\ t.waiting /\ t.screen = s.screen /\ t.logged_in_user = s.logged_in_user
  BY <1>1 DEF Sound, Programs, Resembles, Handle
<1> HIDE DEF p, t
<1>6. up'[c] = <<p>> /\ up' \in [Client -> Seq(Up)] /\ UNCHANGED <<link, down>>
      /\ \A d \in Client \ {c} : up'[d] = up[d]
  <2>1. up' = [up EXCEPT ![c] = Append(up[c], p)] /\ UNCHANGED <<link, down>>
    BY <1>2 DEF Sends
  <2>2. up[c] = <<>>
    BY <1>3 DEF Before
  <2>3. Append(up[c], p) = <<p>> /\ <<p>> \in Seq(Up)
    BY <1>4, <2>2, OneOrTwo
  <2> QED
    BY <2>1, <2>3 DEF Typed
<1>7. Sound(t) /\ Keeps(s, t) /\ t.messages = s.messages
  BY <1>1, <1>5, ResemblingSound
<1>8. /\ Typed' /\ serpent'[c] = t /\ answer' = answer /\ connectedUser' = connectedUser
      /\ LoginAt(c)' => LoginInv'
      /\ \A d \in Client \ {c} : Quiet(d)
  BY <1>2, <1>6, <1>7, OneClient DEF Typed
<1>9. Len(<<p>>) = 1 /\ <<p>>[1] = p /\ DOMAIN <<p>> = {1}
  OBVIOUS
<1>10. Asking(c)'
  <2>1. NoResult(down[c])'
    BY <1>3, <1>6 DEF Before, NoResult
  <2>3. up'[c][1] = p /\ Len(up'[c]) = 1 /\ serpent'[c].username = p.name
    BY <1>4, <1>5, <1>6, <1>8, <1>9
  <2> QED
    BY <1>3, <1>4, <1>8, <2>1, <2>3 DEF Asking, Before, Unedited
<1>11. Upward(c)'
  BY <1>4, <1>10, NoAnswerIs DEF Upward, Asking, Outcomes
<1>12. LoginAt(c)'
  BY <1>2, <1>3, <1>5, <1>6, <1>8, <1>10, <1>11 DEF LoginAt
<1>13. Quiet(c)
  BY <1>4, <1>6, <1>7, <1>8, <1>9 DEF Quiet
<1> QED
  BY <1>8, <1>12, <1>13

\* A user changes the form while its result is awaited.
LEMMA EditStep ==
  ASSUME Typed, LoginInv, NEW c \in Client, NEW u \in User, Edit(c, u)
  PROVE  Typed' /\ LoginInv' /\ "edit" \in Habits /\ spent'.edits # 0
<1> DEFINE s == serpent[c]
           t == [s EXCEPT !.username = u]
<1>1. Sound(s)
  BY DEF Typed
<1>2. /\ "edit" \in Habits /\ s.screen = "login" /\ s.waiting
      /\ Becomes(c, t) /\ UNCHANGED <<link, up, down, serverVars, posted>> /\ Spends("edits")
  BY DEF Edit, EditUsername, At
<1>3. Counted /\ spent'.edits # 0
  BY <1>2, CountedIs DEF Typed
<1>4. /\ t \in Programs(s.page) /\ Resembles(s, t)
      /\ t.waiting /\ t.screen = s.screen /\ t.logged_in_user = s.logged_in_user
  BY <1>1, <1>2 DEF Sound, Programs, Resembles, Handle
<1> HIDE DEF t
<1>5. Sound(t)
  BY <1>1, <1>4, ResemblingSound
<1>6. /\ Typed' /\ serpent'[c] = t /\ answer' = answer /\ connectedUser' = connectedUser
      /\ LoginAt(c)' => LoginInv'
  BY <1>2, <1>3, <1>5, OneClient DEF Typed
<1>7. LoginAt(c) /\ link[c] = "open" /\ (Asking(c) \/ Decided(c) \/ Told(c))
  BY <1>2 DEF LoginInv, LoginAt
<1>8. \A n : Unedited(c, n)'
  BY <1>3 DEF Unedited
<1>9. NoResult(down[c]) => NoResult(down[c])'
  BY <1>2 DEF NoResult
<1>10. Asking(c) => Asking(c)'
  BY <1>2, <1>3, <1>6, <1>9 DEF Asking, Unedited
<1>11. Decided(c) => Decided(c)'
  BY <1>2, <1>3, <1>6, <1>9 DEF Decided, ResultIs, Unedited
<1>12. Told(c) => Told(c)'
  BY <1>2, <1>3, <1>6 DEF Told, ResultIs, Unedited
<1>13. Upward(c)'
  BY <1>2, <1>6, <1>7 DEF LoginAt, Upward
<1>14. LoginAt(c)'
  BY <1>2, <1>4, <1>6, <1>7, <1>10, <1>11, <1>12, <1>13 DEF LoginAt
<1> QED
  BY <1>2, <1>3, <1>6, <1>14

\* What a client is when it is off.
LEMMA OffIs ==
  ASSUME NEW x, x.friends \in Seq(FriendRows), x.messages \in Seq(MessageRows),
         \A i \in DOMAIN x.messages : x.messages[i].friend_id \in DOMAIN x.friends
  PROVE  LET t == Off(x)
         IN /\ Sound(t) /\ t.friends = x.friends /\ t.messages = x.messages
            /\ t.screen = "off" /\ ~t.waiting /\ t.logged_in_user = NoName
<1> DEFINE t == Off(x)
<1>1. /\ t.friends = x.friends /\ t.messages = x.messages /\ t.boxes = {} /\ t.page = <<>>
      /\ t.screen = "off" /\ t.waiting = FALSE /\ t.logged_in_user = NoName
      /\ t.books = [b \in BookName |-> IF b = "default" THEN "" ELSE NoBook]
      /\ t.current = "default"
  BY DEF Off
<1>2. t \in Programs(<<>>)
  BY BookAssumption DEF Off, Programs, Handle
<1> HIDE DEF t
<1>3. current_codebook(t) \in Keyword
  BY <1>1, BookAssumption DEF current_codebook
<1>4. IsFiniteSet(t.boxes)
  BY <1>1, FS_EmptySet
<1>5. Sound(t)
  BY <1>1, <1>2, <1>3, <1>4 DEF Sound
<1> QED
  BY <1>1, <1>5 DEF t

\* A client starts, connects, is refused, breaks, or ends.
LEMMA ComingAndGoing ==
  ASSUME Typed, LoginInv, NEW c \in Client,
         Start(c) \/ Quietly(Connected(c)) \/ Refuse(c) \/ Break(c) \/ Quietly(CloseWindow(c))
  PROVE  Typed' /\ LoginInv' /\ \A d \in Client : Quiet(d)
<1> DEFINE s == serpent[c]
<1>1. Sound(s) /\ LoginAt(c)
  BY DEF Typed, LoginInv
<1>2. Counted
  <2>1. UNCHANGED serverVars /\ UNCHANGED history => Counted
    BY CountedIs
  <2>2. UNCHANGED <<serverVars, posted>> /\ (Spends("launches") \/ Spends("breaks")) => Counted
    BY CountedIs DEF Typed
  <2> QED
    BY <2>1, <2>2 DEF Start, Refuse, Break, Comes, Quietly
<1>3. ASSUME NEW x \in {"off", "login", "error"}
      PROVE  LET t == [s EXCEPT !.screen = x]
             IN /\ Sound(t) /\ Keeps(s, t) /\ t.messages = s.messages /\ t.screen = x
                /\ t.waiting = s.waiting /\ t.logged_in_user = s.logged_in_user
  <2> DEFINE t == [s EXCEPT !.screen = x]
  <2>1. /\ t \in Programs(s.page) /\ Resembles(s, t) /\ t.screen = x
        /\ t.waiting = s.waiting /\ t.logged_in_user = s.logged_in_user
    BY <1>1 DEF Sound, Programs, Resembles
  <2> HIDE DEF t
  <2>2. Sound(t) /\ Keeps(s, t) /\ t.messages = s.messages
    BY <1>1, <2>1, ResemblingSound
  <2> QED
    BY <2>1, <2>2 DEF t
<1>4. link \in [Client -> {"closed", "open", "ended"}] /\ up \in [Client -> Seq(Up)]
      /\ down \in [Client -> Seq(Down)]
  BY DEF Typed
<1>5. <<>> \in Seq(Up) /\ <<>> \in Seq(Down) /\ DOMAIN <<>> = {}
  BY EmptySeq
<1>6. CASE Start(c)
  <2> DEFINE t == [s EXCEPT !.screen = "login"]
  <2>1. s.screen = "off" /\ Becomes(c, t) /\ UNCHANGED <<link, up, down>>
    BY <1>6 DEF Start, Comes, Launch
  <2>2. /\ Sound(t) /\ Keeps(s, t) /\ t.messages = s.messages /\ t.screen = "login"
        /\ t.waiting = s.waiting /\ t.logged_in_user = s.logged_in_user
    BY <1>3
  <2> HIDE DEF t
  <2>3. /\ Typed' /\ serpent'[c] = t /\ answer' = answer /\ connectedUser' = connectedUser
        /\ LoginAt(c)' => LoginInv'
        /\ \A d \in Client \ {c} : Quiet(d)
    BY <1>2, <1>4, <2>1, <2>2, OneClient
  <2>4. Upward(c)'
    BY <1>1, <2>1, <2>3 DEF LoginAt, Upward
  <2>5. LoginAt(c)'
    BY <1>1, <2>1, <2>2, <2>3, <2>4 DEF LoginAt
  <2>6. Quiet(c)
    BY <2>1, <2>2, <2>3 DEF Quiet
  <2> QED
    BY <2>3, <2>5, <2>6
<1>7. CASE Quietly(Connected(c))
  <2>1. /\ s.screen = "login" /\ link[c] = "closed" /\ link' = [link EXCEPT ![c] = "open"]
        /\ UNCHANGED <<serpent, up, down>>
    BY <1>7 DEF Quietly, Connected
  <2>2. Becomes(c, s)
    BY <2>1 DEF Becomes, Typed
  <2>3. /\ Typed' /\ serpent'[c] = s /\ answer' = answer /\ connectedUser' = connectedUser
        /\ LoginAt(c)' => LoginInv'
        /\ \A d \in Client \ {c} : Quiet(d)
    BY <1>1, <1>2, <1>4, <2>1, <2>2, OneClient
  <2>4. /\ ~s.waiting /\ s.logged_in_user = NoName
        /\ up[c] = <<>> /\ down[c] = <<>> /\ answer[c] = NoAnswer /\ connectedUser[c] = NoName
    BY <1>1, <2>1 DEF LoginAt
  <2>5. Upward(c)' /\ Before(c)' /\ link'[c] = "open"
    BY <1>4, <1>5, <2>1, <2>3, <2>4 DEF Upward, Before, NoResult
  <2>6. LoginAt(c)'
    BY <2>1, <2>3, <2>4, <2>5 DEF LoginAt
  <2>7. Quiet(c)
    BY <1>1, <2>1, <2>3, SoundFields DEF Quiet, Keeps
  <2> QED
    BY <2>3, <2>6, <2>7
<1>8. CASE Refuse(c)
  <2> DEFINE t == [s EXCEPT !.screen = "error"]
  <2>1. s.screen = "login" /\ link[c] = "closed" /\ Becomes(c, t) /\ UNCHANGED <<link, up, down>>
    BY <1>8 DEF Refuse, Comes, ConnectionRefused, showError
  <2>2. /\ Sound(t) /\ Keeps(s, t) /\ t.messages = s.messages /\ t.screen = "error"
        /\ t.waiting = s.waiting /\ t.logged_in_user = s.logged_in_user
    BY <1>3
  <2> HIDE DEF t
  <2>3. /\ Typed' /\ serpent'[c] = t /\ answer' = answer /\ connectedUser' = connectedUser
        /\ LoginAt(c)' => LoginInv'
        /\ \A d \in Client \ {c} : Quiet(d)
    BY <1>2, <1>4, <2>1, <2>2, OneClient
  <2>4. Upward(c)'
    BY <1>1, <2>1, <2>3 DEF LoginAt, Upward
  <2>5. LoginAt(c)'
    BY <1>1, <2>1, <2>2, <2>3, <2>4 DEF LoginAt
  <2>6. Quiet(c)
    BY <2>1, <2>2, <2>3 DEF Quiet
  <2> QED
    BY <2>3, <2>5, <2>6
<1>9. CASE Break(c)
  <2> DEFINE t == [s EXCEPT !.screen = "error"]
  <2>1. /\ link[c] = "open" /\ Becomes(c, t) /\ link' = [link EXCEPT ![c] = "ended"]
        /\ up' = [up EXCEPT ![c] = <<>>] /\ down' = [down EXCEPT ![c] = <<>>]
    BY <1>9 DEF Break, Comes, ErrorOccurred, showError
  <2>2. /\ Sound(t) /\ Keeps(s, t) /\ t.messages = s.messages /\ t.screen = "error"
        /\ t.waiting = s.waiting /\ t.logged_in_user = s.logged_in_user
    BY <1>3
  <2> HIDE DEF t
  <2>3. /\ link' \in [Client -> {"closed", "open", "ended"}] /\ up' \in [Client -> Seq(Up)]
        /\ down' \in [Client -> Seq(Down)]
        /\ link'[c] = "ended" /\ up'[c] = <<>> /\ down'[c] = <<>>
        /\ \A d \in Client \ {c} : link'[d] = link[d] /\ up'[d] = up[d] /\ down'[d] = down[d]
    BY <1>4, <1>5, <2>1
  <2>4. /\ Typed' /\ serpent'[c] = t /\ answer' = answer /\ connectedUser' = connectedUser
        /\ LoginAt(c)' => LoginInv'
        /\ \A d \in Client \ {c} : Quiet(d)
    BY <1>2, <2>1, <2>2, <2>3, OneClient
  <2>5. LoginAt(c)'
    BY <1>1, <1>5, <2>2, <2>3, <2>4 DEF LoginAt, Upward
  <2>6. Quiet(c)
    BY <1>5, <2>2, <2>3, <2>4 DEF Quiet
  <2> QED
    BY <2>4, <2>5, <2>6
<1>10. CASE Quietly(CloseWindow(c))
  <2> DEFINE t == Off(s)
  <2>1. /\ Becomes(c, t) /\ link' = [link EXCEPT ![c] = IF @ = "open" THEN "ended" ELSE @]
        /\ down' = [down EXCEPT ![c] = <<>>] /\ UNCHANGED up
    BY <1>10 DEF Quietly, CloseWindow
  <2>2. s.friends \in Seq(FriendRows) /\ s.messages \in Seq(MessageRows)
        /\ \A i \in DOMAIN s.messages : s.messages[i].friend_id \in DOMAIN s.friends
    BY <1>1, SoundFields DEF Sound
  <2> HIDE DEF s
  <2>3. /\ Sound(t) /\ t.friends = s.friends /\ t.messages = s.messages
        /\ t.screen = "off" /\ ~t.waiting /\ t.logged_in_user = NoName
    BY <2>2, OffIs
  <2>4. Keeps(s, t)
    BY <2>2, <2>3, LenProperties DEF Keeps
  <2> HIDE DEF t
  <2>5. /\ link' \in [Client -> {"closed", "open", "ended"}] /\ down' \in [Client -> Seq(Down)]
        /\ link'[c] # "open" /\ (link'[c] = "closed" => link[c] = "closed") /\ down'[c] = <<>>
        /\ \A d \in Client \ {c} : link'[d] = link[d] /\ down'[d] = down[d]
    BY <1>4, <1>5, <2>1
  <2>6. /\ Typed' /\ serpent'[c] = t /\ answer' = answer /\ connectedUser' = connectedUser
        /\ LoginAt(c)' => LoginInv'
        /\ \A d \in Client \ {c} : Quiet(d)
    BY <1>2, <1>4, <2>1, <2>3, <2>5, OneClient
  <2>7. Upward(c)'
    BY <1>1, <2>1, <2>6 DEF LoginAt, Upward
  <2>8. LoginAt(c)'
    BY <1>1, <2>1, <2>3, <2>5, <2>6, <2>7 DEF LoginAt
  <2>9. Quiet(c)
    BY <1>5, <2>1, <2>3, <2>4, <2>5, <2>6 DEF Quiet, s
  <2> QED
    BY <2>6, <2>8, <2>9
<1> QED
  BY <1>6, <1>7, <1>8, <1>9, <1>10

\* What is left of a sequence, of the packets of one direction.
LEMMA TailIs ==
  ASSUME NEW S, NEW q \in Seq(S), q # <<>>
  PROVE  /\ Tail(q) \in Seq(S) /\ Head(q) \in S /\ Head(q) = q[1] /\ 1 \in DOMAIN q
         /\ \A i \in DOMAIN Tail(q) : /\ i \in Nat \ {0} /\ i + 1 \in DOMAIN q
                                      /\ Tail(q)[i] = q[i + 1]
         /\ \A i \in DOMAIN q \ {1} : i - 1 \in DOMAIN Tail(q) /\ i \in Nat
<1> DEFINE n == Len(q)
           t == Tail(q)
<1>1. /\ Len(t) = n - 1 /\ t \in Seq(S) /\ n \in Nat /\ n # 0 /\ DOMAIN q = 1..n
      /\ \A i \in 1..Len(t) : t[i] = q[i + 1]
      /\ Head(q) \in S /\ Head(q) = q[1]
  BY HeadTailProperties, LenProperties, EmptySeq
<1> HIDE DEF t, n
<1>2. DOMAIN t = 1..(n - 1)
  BY <1>1, LenProperties
<1> QED
  BY <1>1, <1>2 DEF t

\* A packet that is no result does nothing to the login; a message may be stored.
LEMMA HandlePacketIs ==
  ASSUME NEW s, Sound(s), NEW p \in Plain
  PROVE  LET t == handlePacket(s, p)
             r == [friend_id |-> getFriendId(s, p.name), original |-> FALSE,
                   message |-> decrypt(p.body, current_codebook(s))]
         IN /\ Sound(t) /\ Keeps(s, t) /\ SameLogin(s, t)
            /\ t.messages = IF p.type = "MESSAGE" /\ hasFriend(s, p.name)
                            THEN Append(s.messages, r) ELSE s.messages
<1> DEFINE t == handlePacket(s, p)
           m == decrypt(p.body, current_codebook(s))
           r == [friend_id |-> getFriendId(s, p.name), original |-> FALSE, message |-> m]
           x == [friend_id |-> getFriendId(s, p.name), message |-> m, original |-> FALSE]
<1>1. p.name \in User /\ p.body \in Encrypted /\ p.type \in FromServer \ Results
  BY DEF Plain
<1>2. m \in Nat /\ r = x
  BY <1>1 DEF decrypt, Encrypted, Garbled
<1>3. ASSUME p.type # "MESSAGE", Silent(s, t)
      PROVE  /\ Sound(t) /\ Keeps(s, t) /\ SameLogin(s, t)
             /\ t.messages = IF p.type = "MESSAGE" /\ hasFriend(s, p.name)
                             THEN Append(s.messages, r) ELSE s.messages
  BY <1>3 DEF Silent
<1>4. CASE p.type \in {"ONLINE", "OFFLINE"}
  <2>1. t = updateFriendStatus(s, p.name, p.type)
    BY <1>4 DEF handlePacket
  <2>2. Silent(s, t) /\ p.type # "MESSAGE"
    BY <1>1, <1>4, <2>1, UpdateFriendStatusSilent
  <2> QED
    BY <1>3, <2>2
<1>5. CASE p.type = "FORWARD"
  <2>1. t = addRequest(s, p.name, "buttons")
    BY <1>5 DEF handlePacket
  <2>2. Silent(s, t) /\ p.type # "MESSAGE"
    BY <1>1, <1>5, <2>1, RequestsSilent
  <2> QED
    BY <1>3, <2>2
<1>6. CASE p.type \in {"PENDING", "ACCEPT", "REJECT", "DOES_NOT_EXIST"}
  <2>1. t = processFriendResponse(s, p.name, p.type)
    BY <1>6 DEF handlePacket
  <2>2. Silent(s, t) /\ p.type # "MESSAGE"
    BY <1>1, <1>6, <2>1, ResponseSilent
  <2> QED
    BY <1>3, <2>2
<1>7. CASE p.type = "MESSAGE"
  <2>1. t = insertMessage(s, m, FALSE, p.name)
    BY <1>7 DEF handlePacket, decryptAndReceiveMessage
  <2> HIDE DEF t, m
  <2>2. /\ Sound(t) /\ Keeps(s, t) /\ SameLogin(s, t)
        /\ t.messages = IF hasFriend(s, p.name) THEN Append(s.messages, x) ELSE s.messages
    BY <1>1, <1>2, <2>1, InsertMessageIs
  <2> QED
    BY <1>2, <1>7, <2>2 DEF t, m
<1> QED
  BY <1>1, <1>4, <1>5, <1>6, <1>7 DEF FromServer, Results

\* A packet is read that is no result.
LEMMA ReadPlainIs ==
  ASSUME Typed, LoginInv, NEW c \in Client, Quietly(ReadyRead(c)),
         Head(down[c]).type \notin Results
  PROVE  /\ Typed' /\ LoginInv'
         /\ serpent'[c] = handlePacket(serpent[c], Head(down[c])) /\ Head(down[c]) \in Plain
         /\ down'[c] = Tail(down[c]) /\ UNCHANGED <<up, connectedUser, posted, spent>>
         /\ \A d \in Client \ {c} : Quiet(d)
<1> DEFINE s == serpent[c]
           p == Head(down[c])
           q == Tail(down[c])
           t == handlePacket(s, p)
<1>1. /\ link[c] = "open" /\ down[c] # <<>> /\ Becomes(c, t) /\ Counted
      /\ down' = [down EXCEPT ![c] = q] /\ UNCHANGED <<link, up, posted, spent>>
  BY CountedIs DEF Quietly, ReadyRead, history
<1>2. /\ down \in [Client -> Seq(Down)] /\ down[c] \in Seq(Down)
      /\ Sound(s) /\ LoginAt(c)
  BY DEF Typed, LoginInv
<1>3. /\ q \in Seq(Down) /\ p \in Down /\ p = down[c][1] /\ 1 \in DOMAIN down[c]
      /\ \A i \in DOMAIN q : i \in Nat \ {0} /\ i + 1 \in DOMAIN down[c] /\ q[i] = down[c][i + 1]
      /\ \A i \in DOMAIN down[c] \ {1} : i - 1 \in DOMAIN q /\ i \in Nat
  BY <1>1, <1>2, TailIs
<1> HIDE DEF q, p
<1>4. p \in Plain
  BY <1>3 DEF Down, p
<1>5. Sound(t) /\ SameLogin(s, t)
  BY <1>2, <1>4, HandlePacketIs
<1>6. down' \in [Client -> Seq(Down)] /\ down'[c] = q
      /\ \A d \in Client \ {c} : down'[d] = down[d]
  BY <1>1, <1>2, <1>3
<1> HIDE DEF t
<1>7. /\ Typed' /\ serpent'[c] = t /\ answer' = answer /\ connectedUser' = connectedUser
      /\ LoginAt(c)' => LoginInv'
      /\ \A d \in Client \ {c} : Quiet(d)
  BY <1>1, <1>5, <1>6, OneClient DEF Typed
<1>8. NoResult(down[c]) => NoResult(down[c])'
  BY <1>3, <1>6 DEF NoResult
<1>9. SameLogin(s, serpent'[c]) /\ spent'.edits = spent.edits
  BY <1>1, <1>5, <1>7
<1>10. Upward(c)' /\ (Before(c) => Before(c)')
  BY <1>1, <1>2, <1>7, <1>8 DEF LoginAt, Upward, Before
<1>11. Asking(c) => Asking(c)'
  BY <1>1, <1>7, <1>8, <1>9 DEF Asking, Unedited, SameLogin
<1>12. Decided(c) => Decided(c)'
  BY <1>1, <1>7, <1>8, <1>9 DEF Decided, ResultIs, Unedited, SameLogin
<1>13. ASSUME Told(c) PROVE Told(c)'
  <2>1. PICK i \in DOMAIN down[c] :
          /\ down[c][i].type \in Results /\ ResultIs(c, down[c][i])
          /\ \A j \in DOMAIN down[c] \ {i} : down[c][j].type \notin Results
    BY <1>13 DEF Told
  <2>2. i # 1
    BY <1>3, <2>1 DEF p
  <2>3. PICK k \in DOMAIN q : k = i - 1 /\ q[k] = down[c][i]
    BY <1>3, <2>2
  <2>4. \A j \in DOMAIN q \ {k} : q[j].type \notin Results
    <3> SUFFICES ASSUME NEW j \in DOMAIN q \ {k} PROVE q[j].type \notin Results
      OBVIOUS
    <3>1. j + 1 \in DOMAIN down[c] /\ j + 1 # i /\ q[j] = down[c][j + 1]
      BY <1>3, <2>2, <2>3
    <3> QED
      BY <2>1, <3>1
  <2>5. down'[c][k].type \in Results /\ ResultIs(c, down[c][k])'
    BY <1>6, <1>7, <1>9, <2>1, <2>3 DEF ResultIs, Unedited, SameLogin
  <2> QED
    BY <1>1, <1>6, <1>7, <1>13, <2>4, <2>5 DEF Told
<1>14. After(c) => After(c)'
  BY <1>7, <1>8, <1>9 DEF After, SameLogin
<1>15. LoginAt(c)'
  <2>1. /\ serpent'[c].screen = s.screen /\ serpent'[c].waiting = s.waiting
        /\ serpent'[c].logged_in_user = s.logged_in_user /\ link'[c] = "open"
    BY <1>1, <1>9 DEF SameLogin
  <2> QED
    BY <1>1, <1>2, <1>10, <1>11, <1>12, <1>13, <1>14, <2>1 DEF LoginAt
<1> QED
  BY <1>1, <1>4, <1>6, <1>7, <1>15 DEF t, q, p

\* The result of a login is read.
LEMMA ReadResultIs ==
  ASSUME Typed, LoginInv, NEW c \in Client, Quietly(ReadyRead(c)),
         Head(down[c]).type \in Results
  PROVE  Typed' /\ LoginInv' /\ \A d \in Client : Quiet(d)
<1> DEFINE s == serpent[c]
           p == Head(down[c])
           q == Tail(down[c])
           yes == p.type = "RESULT_YES"
           t == handleLoginResult(s, yes)
<1>1. /\ link[c] = "open" /\ down[c] # <<>> /\ Becomes(c, t) /\ Counted
      /\ down' = [down EXCEPT ![c] = q] /\ UNCHANGED <<link, up, posted, spent>>
  BY CountedIs DEF Quietly, ReadyRead, history, handlePacket, Results
<1>2. /\ down \in [Client -> Seq(Down)] /\ down[c] \in Seq(Down)
      /\ Sound(s) /\ LoginAt(c)
  BY DEF Typed, LoginInv
<1>3. /\ q \in Seq(Down) /\ p \in Down /\ p = down[c][1] /\ 1 \in DOMAIN down[c]
      /\ \A i \in DOMAIN q : i \in Nat \ {0} /\ i + 1 \in DOMAIN down[c] /\ q[i] = down[c][i + 1]
  BY <1>1, <1>2, TailIs
<1>4. yes \in BOOLEAN
  OBVIOUS
<1> HIDE DEF q, p
<1>5. p.type \in Results
  BY DEF p
<1> HIDE DEF yes
<1>6. /\ Sound(t) /\ Keeps(s, t) /\ t.messages = s.messages /\ ~t.waiting
      /\ IF yes THEN t.screen = "main" /\ t.logged_in_user = s.username
                ELSE t.screen = s.screen /\ t.logged_in_user = s.logged_in_user
  BY <1>2, <1>4, LoginResultIs
<1> HIDE DEF t
<1>7. down' \in [Client -> Seq(Down)] /\ down'[c] = q
      /\ \A d \in Client \ {c} : down'[d] = down[d]
  BY <1>1, <1>2, <1>3
<1>8. /\ Typed' /\ serpent'[c] = t /\ answer' = answer /\ connectedUser' = connectedUser
      /\ LoginAt(c)' => LoginInv'
      /\ \A d \in Client \ {c} : Quiet(d)
  BY <1>1, <1>6, <1>7, OneClient DEF Typed
<1>9. s.screen = "login" /\ Told(c) /\ s.logged_in_user = NoName
  BY <1>1, <1>2, <1>3, <1>5 DEF LoginAt, Before, Asking, Decided, After, NoResult
<1>10. ResultIs(c, p) /\ \A j \in DOMAIN down[c] \ {1} : down[c][j].type \notin Results
  BY <1>3, <1>5, <1>9 DEF Told
<1>11. NoResult(down[c])'
  <2>1. \A i \in DOMAIN q : q[i].type \notin Results
    BY <1>3, <1>10
  <2> QED
    BY <1>7, <2>1 DEF NoResult
<1>12. up'[c] = <<>> /\ answer'[c] = NoAnswer /\ link'[c] = "open" /\ spent' = spent
  BY <1>1, <1>8, <1>9 DEF Told
<1>13. Upward(c)'
  BY <1>12, NoAnswerIs DEF Upward, Outcomes
<1>14. ASSUME yes PROVE LoginAt(c)'
  <2>1. After(c)'
    BY <1>6, <1>8, <1>10, <1>11, <1>12, <1>14, NoAnswerIs DEF After, ResultIs, Unedited, yes
  <2> QED
    BY <1>6, <1>8, <1>12, <1>13, <1>14, <2>1 DEF LoginAt
<1>15. ASSUME ~yes PROVE LoginAt(c)'
  <2>1. Before(c)'
    BY <1>8, <1>10, <1>11, <1>12, <1>15 DEF Before, ResultIs, yes
  <2> QED
    BY <1>6, <1>8, <1>9, <1>12, <1>13, <1>15, <2>1 DEF LoginAt
<1>16. Quiet(c)
  <2>1. \A i \in DOMAIN q : \E j \in DOMAIN down[c] : down[c][j] = q[i]
    BY <1>3
  <2> QED
    BY <1>1, <1>6, <1>7, <1>8, <2>1 DEF Quiet
<1>17. LoginInv'
  BY <1>8, <1>14, <1>15
<1> QED
  BY <1>8, <1>16, <1>17

-----------------------------------------------------------------------------
(* The invariants *)

\* No client runs at the start, and its tables are an archive.
LEMMA InitTyped ==
  ASSUME Init
  PROVE  Typed /\ LoginInv
<1>1. ASSUME NEW c \in Client
      PROVE  /\ Sound(serpent[c]) /\ serpent[c].screen = "off" /\ ~serpent[c].waiting
             /\ serpent[c].logged_in_user = NoName
  <2>1. /\ Archive[c].friends \in Seq(FriendRows) /\ Archive[c].messages \in Seq(MessageRows)
        /\ \A i \in DOMAIN Archive[c].messages :
             Archive[c].messages[i].friend_id \in DOMAIN Archive[c].friends
    BY ArchiveAssumption DEF Tables, MessageRows
  <2>2. serpent[c] = Off(Archive[c])
    BY DEF Init
  <2> QED
    BY <2>1, <2>2, OffIs
<1>2. serpent = [c \in Client |-> serpent[c]]
  BY DEF Init
<1>3. /\ accounts \subseteq User /\ friends \subseteq User \X User
      /\ requests \in [User \X User -> {"none", "shown", "hidden"}]
  BY RegisteredAssumption, BefriendedAssumption DEF Init
<1>4. /\ link \in [Client -> {"closed", "open", "ended"}]
      /\ up \in [Client -> Seq(Up)] /\ down \in [Client -> Seq(Down)]
      /\ posted \in Seq([from : User, to : User, book : Keyword])
  BY EmptySeq DEF Init
<1>5. /\ connectedUser \in [Client -> Handle] /\ answer \in [Client -> Answers]
      /\ spent \in [acts : Nat, edits : Nat, launches : Nat, breaks : Nat]
  BY NoAnswerIs DEF Init, Handle
<1>6. Typed
  BY <1>1, <1>2, <1>3, <1>4, <1>5 DEF Typed
<1>7. ASSUME NEW c \in Client PROVE LoginAt(c)
  <2>1. /\ link[c] = "closed" /\ up[c] = <<>> /\ down[c] = <<>>
        /\ connectedUser[c] = NoName /\ answer[c] = NoAnswer
    BY DEF Init
  <2> QED
    BY <1>1, <2>1 DEF LoginAt, Upward
<1> QED
  BY <1>6, <1>7 DEF LoginInv

\* What the server does.
LEMMA ServeStep ==
  ASSUME Typed, LoginInv, NEW c \in Client, Serve(c)
  PROVE  Typed' /\ LoginInv'
<1>1. LoginAt(c)
  BY DEF LoginInv
<1>2. ASSUME CreateAccount(c) \/ LoginRequest(c) PROVE Typed' /\ LoginInv'
  BY <1>2, CreateAccountIs, LoginRequestIs, LoginServedAt
<1>3. ASSUME \/ FriendRequestSend(c) \/ Accept(c) \/ Reject(c) \/ Hide(c)
             \/ ForwardMessage(c)
      PROVE  Typed' /\ LoginInv'
  <2>1. Typed' /\ RequestServed(c)
    BY <1>1, <1>3, FriendRequestSendIs, AcceptIs, RejectIs, HideIs, ForwardMessageIs
  <2> QED
    BY <2>1, RequestServedAt
<1>4. ASSUME Respond(c) \/ Disconnected(c) PROVE Typed' /\ LoginInv'
  BY <1>4, RespondIs, DisconnectedIs
<1>5. ASSUME InsertUser(c) \/ Register(c) PROVE Typed' /\ LoginInv'
  BY <1>5, CreatesIs, CreatesAt
<1> QED
  BY <1>2, <1>3, <1>4, <1>5 DEF Serve

\* The steps, by what is known of them.
LEMMA StepsAre ==
  ASSUME Next
  PROVE  \/ \E c \in Client :
              \/ Serve(c)
              \/ Start(c) \/ Quietly(Connected(c)) \/ Refuse(c) \/ Break(c)
              \/ Quietly(CloseWindow(c))
              \/ \E u \in User : Quietly(login(c, u)) \/ Edit(c, u)
              \/ \E u \in User : Ask(c, u) \/ Decide(c, u)
              \/ Write(c)
              \/ Quietly(ReadyRead(c))
              \/ \E n \in User : Quietly(SelectFriend(c, n))
              \/ \E b \in BookName : Quietly(SelectCodebook(c, b))
              \/ \E b \in BookName, k \in Keyword : MakeCodebook(c, b, k)
              \/ Quietly(DismissMessageBox(c))
              \/ Quietly(swapLoginPurpose(c))
         \/ UNCHANGED vars
<1>1. CASE Rest
  BY <1>1 DEF Rest
<1>2. ASSUME NEW c \in Client, Use(c)
      PROVE  \/ Start(c) \/ Quietly(Connected(c))
             \/ Quietly(CloseWindow(c))
             \/ \E u \in User : Quietly(login(c, u)) \/ Edit(c, u)
             \/ \E u \in User : Ask(c, u) \/ Decide(c, u)
             \/ Write(c)
             \/ \E n \in User : Quietly(SelectFriend(c, n))
             \/ \E b \in BookName : Quietly(SelectCodebook(c, b))
             \/ \E b \in BookName, k \in Keyword : MakeCodebook(c, b, k)
             \/ Quietly(swapLoginPurpose(c))
  <2>1. CASE Enter(c)
    BY <2>1 DEF Enter, Quietly
  <2>2. CASE Befriend(c)
    BY <2>2 DEF Befriend
  <2>3. CASE Correspond(c)
    BY <2>3 DEF Correspond
  <2>4. CASE Encrypt(c)
    BY <2>4 DEF Encrypt
  <2> QED
    BY <1>2, <2>1, <2>2, <2>3, <2>4 DEF Use
<1>3. ASSUME NEW c \in Client, Notice(c)
      PROVE  Quietly(ReadyRead(c)) \/ Quietly(DismissMessageBox(c))
  BY <1>3 DEF Notice, Quietly
<1> QED
  BY <1>1, <1>2, <1>3 DEF Next

\* Types, and the course of every login, are kept.
LEMMA NextTyped ==
  ASSUME Typed, LoginInv, [Next]_vars
  PROVE  Typed' /\ LoginInv'
<1>1. ASSUME UNCHANGED vars PROVE Typed' /\ LoginInv'
  <2>1. /\ UNCHANGED <<serpent, link, up, down, accounts, friends, requests>>
        /\ UNCHANGED <<connectedUser, answer, posted, spent, history>>
    BY <1>1 DEF vars, clientVars, serverVars, history
  <2>2. Typed'
    BY <2>1, ServedTyped DEF Typed
  <2>3. ASSUME NEW d \in Client PROVE LoginAt(d)'
    <3>1. LoginAt(d) /\ Hears(d, Plain)
      BY <2>1 DEF LoginInv, Hears, Typed
    <3> QED
      BY <2>1, <3>1, OtherStays
  <2> QED
    BY <2>2, <2>3 DEF LoginInv
<1>2. ASSUME NEW c \in Client, Serve(c) PROVE Typed' /\ LoginInv'
  BY <1>2, ServeStep
<1>3. ASSUME NEW c \in Client,
             \/ Start(c) \/ Quietly(Connected(c)) \/ Refuse(c) \/ Break(c)
             \/ Quietly(CloseWindow(c))
      PROVE  Typed' /\ LoginInv'
  BY <1>3, ComingAndGoing
<1>4. ASSUME NEW c \in Client, NEW u \in User, Quietly(login(c, u)) \/ Edit(c, u)
      PROVE  Typed' /\ LoginInv'
  BY <1>4, LoginStep, EditStep
<1>5. ASSUME NEW c \in Client, NEW u \in User, Ask(c, u) \/ Decide(c, u)
      PROVE  Typed' /\ LoginInv'
  BY <1>5, RequestStep
<1>6. ASSUME NEW c \in Client, Write(c) PROVE Typed' /\ LoginInv'
  BY <1>6, WriteIs
<1>7. ASSUME NEW c \in Client, Quietly(ReadyRead(c)) PROVE Typed' /\ LoginInv'
  BY <1>7, ReadPlainIs, ReadResultIs
<1>8. ASSUME NEW c \in Client,
             \/ \E n \in User : Quietly(SelectFriend(c, n))
             \/ \E b \in BookName : Quietly(SelectCodebook(c, b))
             \/ \E b \in BookName, k \in Keyword : MakeCodebook(c, b, k)
             \/ Quietly(DismissMessageBox(c))
             \/ Quietly(swapLoginPurpose(c))
      PROVE  Typed' /\ LoginInv'
  BY <1>8, LocalStep
<1> QED
  BY <1>1, <1>2, <1>3, <1>4, <1>5, <1>6, <1>7, <1>8, StepsAre

\* What is typed is of the types that the runs check.
LEMMA TypedTypeOK ==
  ASSUME Typed
  PROVE  TypeOK
<1>1. ASSUME NEW c \in Client
      PROVE  /\ serpent[c].friends \in Seq(FriendRows)
             /\ serpent[c].messages \in
                  Seq([friend_id : 1..Len(serpent[c].friends), message : Nat, original : BOOLEAN])
             /\ up[c] \in Seq([type : ToServer, name : User, body : Encrypted])
             /\ down[c] \in Seq([type : FromServer, name : User \cup {NoName}, body : Encrypted])
  <2> DEFINE s == serpent[c]
             R == [friend_id : 1..Len(s.friends), message : Nat, original : BOOLEAN]
             P == [type : FromServer, name : User \cup {NoName}, body : Encrypted]
  <2>1. Sound(s)
    BY DEF Typed
  <2>2. s.friends \in Seq(FriendRows) /\ DOMAIN s.friends = 1..Len(s.friends)
    BY <2>1, SoundFields, LenProperties
  <2>3. /\ s.messages \in Seq(MessageRows) /\ Len(s.messages) \in Nat
        /\ s.messages \in [1..Len(s.messages) -> MessageRows]
        /\ DOMAIN s.messages = 1..Len(s.messages)
    BY <2>1, SoundFields, LenProperties
  <2>4. \A i \in 1..Len(s.messages) : s.messages[i] \in R
    <3> SUFFICES ASSUME NEW i \in 1..Len(s.messages) PROVE s.messages[i] \in R
      OBVIOUS
    <3>1. s.messages[i] \in MessageRows
      BY <2>3
    <3>2. s.messages[i].friend_id \in 1..Len(s.friends)
      BY <2>1, <2>2, <2>3 DEF Sound
    <3> QED
      BY <3>1, <3>2 DEF MessageRows
  <2> HIDE DEF R
  <2>5. s.messages \in [1..Len(s.messages) -> R]
    BY <2>3, <2>4
  <2>6. s.messages \in Seq(R)
    BY <2>3, <2>5, IsSeq
  <2>7. NoText \in Encrypted /\ Results \subseteq FromServer
    BY BookAssumption DEF NoText, Encrypted, Garbled, Results, FromServer
  <2>8. Down \in SUBSET P
    BY <2>7 DEF Down, Plain
  <2> HIDE DEF P
  <2>9. down[c] \in Seq(P)
    BY <2>8, SeqMonotonic DEF Typed
  <2> QED
    BY <2>2, <2>6, <2>9 DEF Typed, Up, R, P
<1>2. ASSUME NEW c \in Client
      PROVE  /\ serpent[c].logged_in_user \in User \cup {NoName}
             /\ serpent[c].queried_friend \in User \cup {NoName}
             /\ serpent[c].screen \in {"off", "login", "main", "error"}
             /\ serpent[c].requestWidgets \in [User -> {"none", "pending", "buttons"}]
             /\ \A b, d \in serpent[c].boxes : (b.id = d.id) = (b.name = d.name)
             /\ current_codebook(serpent[c]) \in Keyword
  <2>1. Sound(serpent[c])
    BY DEF Typed
  <2> QED
    BY <2>1, SoundFields DEF Sound, Handle
<1> QED
  BY <1>1, <1>2 DEF TypeOK, Typed, Handle

\* Clients and server keep their types: each slot of the client finds what it
\* looks up, whatever packets come in whatever order, and the handlers of the
\* server have a user to speak of.
THEOREM ClientsTyped == Spec => []TypeOK
<1>1. Init => Typed /\ LoginInv
  BY InitTyped
<1>2. Typed /\ LoginInv /\ [Next]_vars => Typed' /\ LoginInv'
  BY NextTyped
<1>3. Typed => TypeOK
  BY TypedTypeOK
<1> QED
  BY <1>1, <1>2, <1>3, PTL DEF Spec

\* A client files under the name of the user whom the server has logged in.
THEOREM FiledUnderUser == Spec => []HandleIsUser
<1>1. Init => Typed /\ LoginInv
  BY InitTyped
<1>2. Typed /\ LoginInv /\ [Next]_vars => Typed' /\ LoginInv'
  BY NextTyped
<1>3. LoginInv => HandleIsUser
  BY DEF LoginInv, LoginAt, After, HandleIsUser
<1> QED
  BY <1>1, <1>2, <1>3, PTL DEF Spec

-----------------------------------------------------------------------------
(* What becomes of messages *)

\* What was posted stays posted.
Longer(old, new) == DOMAIN old \subseteq DOMAIN new /\ \A m \in DOMAIN old : new[m] = old[m]

\* Where nothing is said or read, messages stay right.
LEMMA QuietMail ==
  ASSUME Typed, NEW d \in Client, Quiet(d), MailAt(d), FiledAt(d), Longer(posted, posted'),
         connectedUser'[d] = connectedUser[d]
  PROVE  MailAt(d)' /\ FiledAt(d)'
<1>1. ASSUME NEW p, NEW from, NEW to, Carries(p, from, to)
      PROVE  \E m \in DOMAIN posted' :
               /\ posted'[m].from = from /\ posted'[m].to = to
               /\ p.body = [text |-> m, book |-> posted'[m].book]
  BY <1>1 DEF Carries, Longer
<1>2. MailAt(d)'
  <2>1. ASSUME NEW i \in DOMAIN up'[d], up'[d][i].type = "MESSAGE"
        PROVE  \E m \in DOMAIN posted' :
                 /\ posted'[m].from = connectedUser'[d] /\ posted'[m].to = up'[d][i].name
                 /\ up'[d][i].body = [text |-> m, book |-> posted'[m].book]
    <3>1. PICK j \in DOMAIN up[d] : up[d][j] = up'[d][i]
      BY <2>1 DEF Quiet
    <3>2. Carries(up[d][j], connectedUser[d], up[d][j].name)
      BY <2>1, <3>1 DEF MailAt
    <3> QED
      BY <1>1, <3>1, <3>2
  <2>2. ASSUME NEW i \in DOMAIN down'[d], down'[d][i].type = "MESSAGE"
        PROVE  \E m \in DOMAIN posted' :
                 /\ posted'[m].from = down'[d][i].name /\ posted'[m].to = connectedUser'[d]
                 /\ down'[d][i].body = [text |-> m, book |-> posted'[m].book]
    <3>1. PICK j \in DOMAIN down[d] : down[d][j] = down'[d][i]
      BY <2>2 DEF Quiet
    <3>2. Carries(down[d][j], down[d][j].name, connectedUser[d])
      BY <2>2, <3>1 DEF MailAt
    <3> QED
      BY <1>1, <3>1, <3>2
  <2> QED
    BY <2>1, <2>2 DEF MailAt, Carries
<1>3. FiledAt(d)'
  <2> DEFINE r(i) == serpent[d].messages[i]
  <2>1. \A i \in DOMAIN serpent[d].messages :
          /\ serpent'[d].messages[i] = r(i)
          /\ serpent'[d].friends[r(i).friend_id] = serpent[d].friends[r(i).friend_id]
    BY DEF Quiet, Keeps, Typed, Sound
  <2>2. ASSUME NEW x, NEW f, Filed(x, f) PROVE Filed(x, f)'
    BY <2>2 DEF Filed, Longer
  <2>3. DOMAIN serpent'[d].messages = DOMAIN serpent[d].messages
    BY DEF Quiet
  <2>4. \A i \in DOMAIN serpent[d].messages : Filed(r(i), serpent[d].friends[r(i).friend_id])
    BY DEF FiledAt
  <2> HIDE DEF r
  <2>5. ASSUME NEW i \in DOMAIN serpent'[d].messages,
               NEW x, x = serpent'[d].messages[i],
               NEW f, f = serpent'[d].friends[x.friend_id]
        PROVE  Filed(x, f)'
    <3>1. x = r(i) /\ f = serpent[d].friends[r(i).friend_id]
      BY <2>1, <2>3, <2>5
    <3>2. Filed(x, f)
      BY <2>3, <2>4, <3>1
    <3> QED
      BY <2>2, <3>2
  <2> QED
    BY <2>5 DEF FiledAt, Filed
<1> QED
  BY <1>2, <1>3

\* A packet served and calm ones sent: nothing is said or read.
LEMMA HearsQuiet ==
  ASSUME Typed, NEW d \in Client, serpent' = serpent, Hears(d, Calm),
         up'[d] = up[d] \/ (up[d] # <<>> /\ up'[d] = Tail(up[d]))
  PROVE  Quiet(d)
<1>1. Keeps(serpent[d], serpent'[d]) /\ serpent'[d].messages = serpent[d].messages
  <2>1. Sound(serpent[d])
    BY DEF Typed
  <2> QED
    BY <2>1, SoundFields DEF Keeps
<1>2. \A i \in DOMAIN up'[d] : \E j \in DOMAIN up[d] : up[d][j] = up'[d][i]
  <2>1. up[d] \in Seq(Up)
    BY DEF Typed
  <2>2. CASE up'[d] = up[d]
    BY <2>2
  <2>3. CASE up[d] # <<>> /\ up'[d] = Tail(up[d])
    BY <2>1, <2>3, TailIs
  <2> QED
    BY <2>2, <2>3
<1>3. \A i \in DOMAIN down'[d] :
        down'[d][i].type = "MESSAGE" => \E j \in DOMAIN down[d] : down[d][j] = down'[d][i]
  BY DEF Hears, Calm
<1> QED
  BY <1>1, <1>2, <1>3 DEF Quiet

\* Nothing of the messages changes.
LEMMA QuietStep ==
  ASSUME Typed, MailInv, spent'.edits = 0 => spent.edits = 0, UNCHANGED <<posted, connectedUser>>,
         \A d \in Client : Quiet(d)
  PROVE  MailInv'
<1>1. Longer(posted, posted')
  BY DEF Longer
<1> QED
  BY <1>1, QuietMail DEF MailInv

\* Nobody is sent messages.
LEMMA NobodysMail ==
  ASSUME Typed, NEW c \in Client, connectedUser[c] = NoName, MailAt(c)
  PROVE  \A i \in DOMAIN down[c] : down[c][i].type # "MESSAGE"
<1> SUFFICES ASSUME NEW i \in DOMAIN down[c], down[c][i].type = "MESSAGE" PROVE FALSE
  OBVIOUS
<1>1. PICK m \in DOMAIN posted : posted[m].to = NoName
  BY DEF MailAt, Carries
<1>2. posted[m] \in [from : User, to : User, book : Keyword]
  <2>1. posted \in Seq([from : User, to : User, book : Keyword])
    BY DEF Typed
  <2> QED
    BY <2>1, ElementOfSeq, LenProperties
<1> QED
  BY <1>1, <1>2, NamesAssumption

\* A login is served: the connection of nobody had no messages to show.
LEMMA LoginServedMail ==
  ASSUME Typed, LoginInv, MailInv, NEW c \in Client, LoginServed(c)
  PROVE  MailInv'
<1>1. UNCHANGED <<serpent, posted, spent>> /\ up[c] # <<>> /\ up'[c] = Tail(up[c])
      /\ Head(up[c]).type \in Logins
  BY DEF LoginServed, Served, history
<1>2. ASSUME NEW d \in Client PROVE Quiet(d)
  <2>1. Hears(d, Calm)
    BY DEF LoginServed
  <2>2. up'[d] = up[d] \/ (up[d] # <<>> /\ up'[d] = Tail(up[d]))
    BY <1>1 DEF LoginServed, Served
  <2> QED
    BY <1>1, <2>1, <2>2, HearsQuiet
<1>3. Longer(posted, posted')
  BY <1>1 DEF Longer
<1>4. SUFFICES ASSUME spent.edits = 0, NEW d \in Client, MailAt(d), FiledAt(d)
               PROVE  MailAt(d)' /\ FiledAt(d)'
  BY <1>1 DEF MailInv
<1>5. CASE d # c
  <2>1. connectedUser'[d] = connectedUser[d]
    BY <1>5 DEF LoginServed, Served
  <2> QED
    BY <1>2, <1>3, <1>4, <2>1, QuietMail
<1>6. CASE d = c
  <2>1. connectedUser[c] = NoName /\ Len(up[c]) = 1
    <3>1. Head(up[c]) = up[c][1] /\ 1 \in DOMAIN up[c]
      BY <1>1, HeadUp
    <3> QED
      BY <1>1, <3>1 DEF LoginInv, LoginAt, Upward
  <2>2. \A i \in DOMAIN down[c] : down[c][i].type # "MESSAGE"
    BY <1>4, <1>6, <2>1, NobodysMail
  <2>3. \A i \in DOMAIN down'[c] : down'[c][i].type # "MESSAGE"
    BY <1>2, <2>2 DEF Quiet
  <2>4. up'[c] = <<>>
    <3>1. up[c] \in Seq(Up)
      BY DEF Typed
    <3>2. Len(Tail(up[c])) = 0 /\ Tail(up[c]) \in Seq(Up)
      BY <1>1, <2>1, <3>1, HeadTailProperties
    <3> QED
      BY <1>1, <3>2, EmptySeq
  <2>5. MailAt(c)'
    BY <2>3, <2>4 DEF MailAt
  <2>6. FiledAt(c)'
    BY SMTT(60), <1>1, <1>4, <1>6 DEF FiledAt, Filed
  <2> QED
    BY <1>6, <2>5, <2>6
<1> QED
  BY <1>5, <1>6

\* An account is created: the connection of nobody had no messages to show.
LEMMA CreatesMail ==
  ASSUME Typed, LoginInv, MailInv, NEW c \in Client, Creates(c)
  PROVE  MailInv'
<1>1. UNCHANGED <<serpent, up, down, posted, spent>>
  BY DEF Creates, clientVars, history
<1>2. SUFFICES ASSUME spent.edits = 0, NEW d \in Client, MailAt(d), FiledAt(d)
               PROVE  MailAt(d)' /\ FiledAt(d)'
  BY <1>1 DEF MailInv
<1>3. FiledAt(d)'
  BY SMTT(90), <1>1, <1>2 DEF FiledAt, Filed
<1>4. CASE d # c
  <2>1. connectedUser'[d] = connectedUser[d]
    BY <1>4 DEF Creates
  <2> QED
    BY <1>1, <1>2, <1>3, <2>1 DEF MailAt, Carries
<1>5. CASE d = c
  <2>1. up[c] = <<>> /\ connectedUser[c] = NoName
    BY DEF LoginInv, LoginAt, Upward, Creates
  <2>2. \A i \in DOMAIN down[c] : down[c][i].type # "MESSAGE"
    BY <1>2, <1>5, <2>1, NobodysMail
  <2>3. MailAt(c)'
    BY <1>1, <2>1, <2>2 DEF MailAt
  <2> QED
    BY <1>3, <1>5, <2>3
<1> QED
  BY <1>4, <1>5

\* A message is passed on to those it names.
LEMMA ForwardMessageMail ==
  ASSUME Typed, LoginInv, MailInv, NEW c \in Client, ForwardMessage(c)
  PROVE  MailInv'
<1> DEFINE p == Head(up[c])
           u == connectedUser[c]
           x == MessagePacket(u, p.body)
<1>1. /\ RequestServed(c) /\ p.type = "MESSAGE"
      /\ \A d \in Client : Hears(d, IF connectedUser[d] = p.name THEN {x} ELSE {})
  BY ForwardMessageIs DEF LoginInv
<1>2. /\ UNCHANGED <<serpent, posted, spent, connectedUser>>
      /\ up[c] # <<>> /\ up'[c] = Tail(up[c]) /\ \A d \in Client \ {c} : up'[d] = up[d]
  BY <1>1 DEF RequestServed, Served, history
<1>3. SUFFICES ASSUME spent.edits = 0, NEW d \in Client, MailAt(c), MailAt(d), FiledAt(d)
               PROVE  MailAt(d)' /\ FiledAt(d)'
  BY <1>2 DEF MailInv
<1>4. FiledAt(d)'
  BY SMTT(90), <1>2, <1>3 DEF FiledAt, Filed
<1>5. \A y, from, to : Carries(y, from, to) => Carries(y, from, to)'
  BY <1>2 DEF Carries
<1>6. \A i \in DOMAIN up'[d] : \E j \in DOMAIN up[d] : up[d][j] = up'[d][i]
  <2>1. up[d] \in Seq(Up)
    BY DEF Typed
  <2>2. CASE d = c
    <3>1. \A i \in DOMAIN Tail(up[c]) : i + 1 \in DOMAIN up[c] /\ Tail(up[c])[i] = up[c][i + 1]
      BY <1>2, <2>1, <2>2, TailIs
    <3> QED
      BY <1>2, <2>2, <3>1
  <2>3. CASE d # c
    BY <1>2, <2>3
  <2> QED
    BY <2>2, <2>3
<1>7. Carries(p, u, p.name)
  <2>1. p = up[c][1] /\ 1 \in DOMAIN up[c]
    BY <1>2, HeadUp
  <2> QED
    BY <1>1, <1>3, <2>1 DEF MailAt
<1>8. x.name = u /\ x.body = p.body
  BY DEF MessagePacket
<1>9. connectedUser[d] = p.name => Carries(x, x.name, connectedUser[d])
  BY <1>7, <1>8 DEF Carries
<1> HIDE DEF x, p
<1>10. \A i \in DOMAIN down'[d] : down'[d][i].type = "MESSAGE" =>
          Carries(down'[d][i], down'[d][i].name, connectedUser[d])
  <2> SUFFICES ASSUME NEW i \in DOMAIN down'[d], down'[d][i].type = "MESSAGE"
               PROVE  Carries(down'[d][i], down'[d][i].name, connectedUser[d])
    OBVIOUS
  <2>1. Hears(d, IF connectedUser[d] = p.name THEN {x} ELSE {})
    BY <1>1
  <2>2. CASE i \in DOMAIN down[d]
    BY <1>3, <2>1, <2>2 DEF Hears, MailAt
  <2>3. CASE i \notin DOMAIN down[d]
    <3>1. connectedUser[d] = p.name /\ down'[d][i] = x
      BY <2>1, <2>3 DEF Hears
    <3> QED
      BY <1>9, <3>1
  <2> QED
    BY <2>2, <2>3
<1>11. MailAt(d)'
  BY <1>2, <1>3, <1>6, <1>10 DEF MailAt, Carries
<1> QED
  BY <1>4, <1>11

\* The answers of the server are no messages.
LEMMA RespondMail ==
  ASSUME Typed, LoginInv, MailInv, NEW c \in Client, Respond(c)
  PROVE  MailInv'
<1>1. /\ UNCHANGED <<serpent, up, posted, spent, connectedUser>>
      /\ answer[c].type \in FromServer /\ answer[c] \in Answers
  BY DEF Respond, history, Typed
<1>2. answer[c].type # "MESSAGE"
  BY <1>1, NoAnswerIs DEF Answers, ToDo, FromServer, NoAnswer, Packet
<1>3. ASSUME NEW d \in Client PROVE Quiet(d)
  <2>1. Hears(d, IF d = c THEN {answer[c]} ELSE {})
    BY RespondIs
  <2>2. Sound(serpent[d])
    BY DEF Typed
  <2>3. Keeps(serpent[d], serpent'[d])
    BY <1>1, <2>2, SoundFields DEF Keeps
  <2>4. \A i \in DOMAIN down'[d] :
          down'[d][i].type = "MESSAGE" => \E j \in DOMAIN down[d] : down[d][j] = down'[d][i]
    BY <1>2, <2>1 DEF Hears
  <2> QED
    BY <1>1, <2>3, <2>4 DEF Quiet
<1> QED
  BY <1>1, <1>3, QuietStep

\* A connection that has ended has nothing on its way.
LEMMA DisconnectedMail ==
  ASSUME Typed, LoginInv, MailInv, NEW c \in Client, Disconnected(c)
  PROVE  MailInv'
<1>1. /\ UNCHANGED <<serpent, up, posted, spent>> /\ link[c] = "ended" /\ up[c] = <<>>
      /\ \A d \in Client \ {c} : connectedUser'[d] = connectedUser[d]
  BY DEF Disconnected, history, Typed
<1>2. \A d \in Client : Hears(d, Calm)
  BY DisconnectedIs
<1>3. Longer(posted, posted')
  BY <1>1 DEF Longer
<1>4. SUFFICES ASSUME spent.edits = 0, NEW d \in Client, MailAt(d), FiledAt(d)
               PROVE  MailAt(d)' /\ FiledAt(d)'
  BY <1>1 DEF MailInv
<1>5. CASE d # c
  <2>1. Quiet(d)
    BY <1>1, <1>2, HearsQuiet
  <2> QED
    BY <1>1, <1>3, <1>4, <1>5, <2>1, QuietMail
<1>6. CASE d = c
  <2>1. down'[c] = <<>>
    BY <1>1, <1>2 DEF LoginInv, LoginAt, Hears
  <2> QED
    BY SMTT(60), <1>1, <1>4, <1>6, <2>1 DEF MailAt, FiledAt, Filed
<1> QED
  BY <1>5, <1>6

\* A row more, right if the new one is.
LEMMA RowMore ==
  ASSUME Typed, NEW c \in Client, FiledAt(c), Longer(posted, posted'),
         Keeps(serpent[c], serpent'[c]), NEW r \in MessageRows,
         r.friend_id \in DOMAIN serpent[c].friends,
         serpent'[c].messages = Append(serpent[c].messages, r),
         NEW g, g = serpent[c].friends[r.friend_id], Filed(r, g)'
  PROVE  FiledAt(c)'
<1> DEFINE s == serpent[c]
           n == Len(s.messages)
           q == Append(s.messages, r)
           fs == serpent'[c].friends
<1>1. Sound(s)
  BY DEF Typed
<1>2. /\ n \in Nat /\ DOMAIN s.messages = 1..n /\ DOMAIN q = 1..(n + 1)
      /\ q[n + 1] = r /\ \A i \in 1..n : q[i] = s.messages[i]
  <2>1. s.messages \in Seq(MessageRows)
    BY <1>1, SoundFields
  <2> QED
    BY <2>1, AppendProperties, LenProperties
<1>3. \A i \in 1..n : /\ s.messages[i].friend_id \in DOMAIN s.friends
                      /\ Filed(s.messages[i], s.friends[s.messages[i].friend_id])
  BY <1>1, <1>2 DEF Sound, FiledAt
<1>4. \A i \in DOMAIN s.friends : fs[i] = s.friends[i]
  BY DEF Keeps
<1> HIDE DEF q, n, s, fs
<1>5. ASSUME NEW x, NEW f, Filed(x, f) PROVE Filed(x, f)'
  BY <1>5 DEF Filed, Longer
<1>6. ASSUME NEW i \in 1..(n + 1), NEW x, x = q[i], NEW f, f = fs[x.friend_id]
      PROVE  Filed(x, f)'
  <2>1. CASE i = n + 1
    <3>1. x = r /\ f = g
      BY <1>2, <1>4, <1>6, <2>1 DEF s
    <3> QED
      BY <3>1
  <2>2. CASE i \in 1..n
    <3>1. x = s.messages[i] /\ f = s.friends[x.friend_id]
      BY <1>2, <1>3, <1>4, <1>6, <2>2
    <3>2. Filed(x, f)
      BY <1>3, <2>2, <3>1
    <3> QED
      BY <1>5, <3>2
  <2> QED
    BY <1>2, <2>1, <2>2
<1>7. serpent'[c].messages = q /\ serpent'[c].friends = fs
  BY DEF q, s, fs
<1> QED
  BY SMTT(60), <1>2, <1>6, <1>7 DEF FiledAt, Filed

\* What a user writes is filed under the friend, and goes there.
LEMMA WriteMail ==
  ASSUME Typed, LoginInv, MailInv, NEW c \in Client, Write(c)
  PROVE  MailInv'
<1> DEFINE s == serpent[c]
           n == s.queried_friend
           m == Len(posted) + 1
           k == current_codebook(s)
           p == MessagePacket(n, [text |-> m, book |-> k])
           r == [friend_id |-> getFriendId(s, n), message |-> m, original |-> TRUE]
           x == [from |-> connectedUser[c], to |-> n, book |-> k]
           g == [friend_name |-> n, user |-> s.logged_in_user]
<1>1. /\ s.screen = "main" /\ n \in User /\ hasFriend(s, n)
      /\ p \in Up /\ connectedUser[c] \in User
      /\ posted' = Append(posted, x)
      /\ up'[c] = Append(up[c], p) /\ UNCHANGED <<connectedUser, down>>
      /\ Keeps(s, serpent'[c])
      /\ serpent'[c].messages = Append(s.messages, r)
      /\ \A d \in Client \ {c} : Quiet(d)
      /\ spent'.edits = spent.edits
  BY WriteIs
<1>2. /\ m \in Nat \ {0} /\ posted' \in Seq([from : User, to : User, book : Keyword])
      /\ DOMAIN posted = 1..(m - 1) /\ DOMAIN posted' = 1..m /\ posted'[m] = x
      /\ \A i \in 1..(m - 1) : posted'[i] = posted[i]
  <2> DEFINE P == [from : User, to : User, book : Keyword]
  <2>1. posted \in Seq(P) /\ current_codebook(s) \in Keyword
    BY DEF Typed, Sound
  <2>2. x \in P
    BY <1>1, <2>1
  <2> HIDE DEF P, x
  <2> QED
    BY <1>1, <2>1, <2>2, AppendProperties, LenProperties DEF P
<1>3. Longer(posted, posted') /\ m \in DOMAIN posted'
  BY <1>2 DEF Longer
<1>4. SUFFICES ASSUME spent.edits = 0, NEW d \in Client, MailAt(d), FiledAt(d)
               PROVE  MailAt(d)' /\ FiledAt(d)'
  BY <1>1 DEF MailInv
<1>5. CASE d # c
  BY <1>1, <1>3, <1>4, <1>5, QuietMail
<1>6. CASE d = c
  <2>1. Sound(s) /\ s.logged_in_user = connectedUser[c]
    BY <1>1, <1>4 DEF Typed, LoginInv, LoginAt, After
  <2>2. getFriendId(s, n) \in DOMAIN s.friends /\ s.friends[getFriendId(s, n)] = g
    BY <1>1, <2>1, FriendIdIs
  <2>3. p.name = n /\ p.body = [text |-> m, book |-> k] /\ p.type = "MESSAGE"
    BY DEF MessagePacket
  <2>4. x.from = connectedUser[c] /\ x.to = n /\ x.book = k
    OBVIOUS
  <2>5. g.user = s.logged_in_user /\ g.friend_name = n
    OBVIOUS
  <2>6. r.friend_id = getFriendId(s, n) /\ r.message = m /\ r.original
    OBVIOUS
  <2>7. r \in MessageRows
    <3>1. s.friends \in Seq(FriendRows)
      BY <2>1, SoundFields
    <3>2. getFriendId(s, n) \in Nat \ {0}
      BY <2>2, <3>1, LenProperties
    <3> QED
      BY <1>2, <3>2 DEF MessageRows
  <2>8. /\ s.friends = serpent[c].friends /\ s.messages = serpent[c].messages
        /\ Keeps(serpent[c], serpent'[c])
    BY <1>1
  <2>9. Sound(serpent[c])
    BY <2>1
  <2> HIDE DEF m, k, n, p, r, x, g, s
  <2>10. PICK a, b, h : a = p /\ b = r /\ h = g
    OBVIOUS
  <2>11. Filed(b, h)'
    BY <1>2, <1>3, <2>1, <2>4, <2>5, <2>6, <2>10 DEF Filed
  <2>12. FiledAt(c)'
    BY <1>1, <1>3, <1>4, <1>6, <2>2, <2>6, <2>7, <2>8, <2>10, <2>11, RowMore
  <2>13. \E i \in DOMAIN posted' :
           /\ posted'[i].from = connectedUser'[c] /\ posted'[i].to = p.name
           /\ p.body = [text |-> i, book |-> posted'[i].book]
    BY <1>1, <1>2, <1>3, <2>3, <2>4
  <2>14. ASSUME NEW i \in DOMAIN up'[c], up'[c][i].type = "MESSAGE"
         PROVE  \E j \in DOMAIN posted' :
                  /\ posted'[j].from = connectedUser'[c] /\ posted'[j].to = up'[c][i].name
                  /\ up'[c][i].body = [text |-> j, book |-> posted'[j].book]
    <3>1. up[c] \in Seq(Up)
      BY DEF Typed
    <3>2. (i \in DOMAIN up[c] /\ up'[c][i] = up[c][i]) \/ up'[c][i] = p
      <4> DEFINE l == Len(up[c])
                 q == Append(up[c], p)
      <4>1. /\ l \in Nat /\ DOMAIN up[c] = 1..l /\ DOMAIN q = 1..(l + 1)
            /\ q[l + 1] = p /\ \A j \in 1..l : q[j] = up[c][j]
        BY <1>1, <3>1, AppendProperties, LenProperties
      <4> HIDE DEF q, l
      <4>2. up'[c] = q
        BY <1>1 DEF q
      <4> QED
        BY <4>1, <4>2
    <3>3. CASE i \in DOMAIN up[c] /\ up'[c][i] = up[c][i]
      <4>1. Carries(up[c][i], connectedUser[c], up[c][i].name)
        BY <1>4, <1>6, <2>14, <3>3 DEF MailAt
      <4> QED
        BY <1>1, <1>3, <3>3, <4>1 DEF Carries, Longer
    <3>4. CASE up'[c][i] = p
      BY <2>13, <3>4
    <3> QED
      BY <3>2, <3>3, <3>4
  <2>15. ASSUME NEW i \in DOMAIN down'[c], down'[c][i].type = "MESSAGE"
         PROVE  \E j \in DOMAIN posted' :
                  /\ posted'[j].from = down'[c][i].name /\ posted'[j].to = connectedUser'[c]
                  /\ down'[c][i].body = [text |-> j, book |-> posted'[j].book]
    <3>1. Carries(down[c][i], down[c][i].name, connectedUser[c])
      BY <1>1, <1>4, <1>6, <2>15 DEF MailAt
    <3> QED
      BY <1>1, <1>3, <3>1 DEF Carries, Longer
  <2>16. MailAt(c)'
    BY <2>14, <2>15 DEF MailAt, Carries
  <2> QED
    BY <1>6, <2>12, <2>16
<1> QED
  BY <1>5, <1>6

\* What is read is filed under the friend who sent it to the user.
LEMMA ReadMail ==
  ASSUME Typed, LoginInv, MailInv, NEW c \in Client, Quietly(ReadyRead(c)),
         Head(down[c]).type \notin Results
  PROVE  MailInv'
<1> DEFINE s == serpent[c]
           p == Head(down[c])
           k == current_codebook(s)
           r == [friend_id |-> getFriendId(s, p.name), original |-> FALSE,
                 message |-> decrypt(p.body, k)]
           g == [friend_name |-> p.name, user |-> s.logged_in_user]
<1>1. /\ serpent'[c] = handlePacket(s, p) /\ p \in Plain
      /\ down'[c] = Tail(down[c]) /\ UNCHANGED <<up, connectedUser, posted, spent>>
      /\ \A d \in Client \ {c} : Quiet(d)
  BY ReadPlainIs
<1>2. Longer(posted, posted')
  BY <1>1 DEF Longer
<1>3. SUFFICES ASSUME spent.edits = 0, NEW d \in Client, MailAt(d), FiledAt(d)
               PROVE  MailAt(d)' /\ FiledAt(d)'
  BY <1>1 DEF MailInv
<1>4. CASE d # c
  BY <1>1, <1>2, <1>3, <1>4, QuietMail
<1>5. CASE d = c
  <2>1. Sound(s) /\ LoginAt(c) /\ link[c] = "open" /\ down[c] # <<>> /\ down[c] \in Seq(Down)
    BY DEF Typed, LoginInv, Quietly, ReadyRead
  <2>2. /\ Keeps(s, serpent'[c])
        /\ serpent'[c].messages = IF p.type = "MESSAGE" /\ hasFriend(s, p.name)
                                  THEN Append(s.messages, r) ELSE s.messages
    BY <1>1, <2>1, HandlePacketIs
  <2>3. \A i \in DOMAIN down'[c] : \E j \in DOMAIN down[c] : down[c][j] = down'[c][i]
    <3>1. \A i \in DOMAIN Tail(down[c]) :
            i + 1 \in DOMAIN down[c] /\ Tail(down[c])[i] = down[c][i + 1]
      BY <2>1, TailIs
    <3> QED
      BY <1>1, <3>1
  <2>4. MailAt(c)'
    BY <1>1, <1>3, <1>5, <2>3 DEF MailAt, Carries
  <2>5. p = down[c][1] /\ 1 \in DOMAIN down[c]
    BY <2>1, TailIs
  <2>6. CASE p.type = "MESSAGE" /\ hasFriend(s, p.name)
    <3>1. PICK m \in DOMAIN posted :
            /\ posted[m].from = p.name /\ posted[m].to = connectedUser[c]
            /\ p.body = [text |-> m, book |-> posted[m].book]
      BY <1>3, <1>5, <2>5, <2>6 DEF MailAt, Carries
    <3>2. p.name \in User /\ p.body \in Encrypted /\ k \in Keyword
      BY <1>1, <2>1 DEF Plain, Sound
    <3>3. p.body.text = m /\ p.body.book = posted[m].book
      BY <3>1
    <3>4. decrypt(p.body, k) = m \/ (decrypt(p.body, k) = Garbled /\ Keyword # {posted[m].book})
      BY <3>2, <3>3 DEF decrypt
    <3>5. s.logged_in_user \in {connectedUser[c], NoName}
      BY <1>3, <2>1 DEF LoginAt, After
    <3>6. getFriendId(s, p.name) \in DOMAIN s.friends /\ s.friends[getFriendId(s, p.name)] = g
      BY <2>1, <2>6, <3>2, FriendIdIs
    <3>7. r.friend_id = getFriendId(s, p.name) /\ r.message = decrypt(p.body, k) /\ r.original = FALSE
      OBVIOUS
    <3>8. r \in MessageRows
      <4>1. s.friends \in Seq(FriendRows)
        BY <2>1, SoundFields
      <4>2. getFriendId(s, p.name) \in Nat \ {0}
        BY <3>6, <4>1, LenProperties
      <4>3. decrypt(p.body, k) \in Nat
        BY <3>2 DEF decrypt, Encrypted, Garbled
      <4> QED
        BY <4>2, <4>3 DEF MessageRows
    <3>9. g.user = s.logged_in_user /\ g.friend_name = p.name
      OBVIOUS
    <3>10. /\ s.friends = serpent[c].friends /\ s.messages = serpent[c].messages
           /\ Keeps(serpent[c], serpent'[c])
      BY <2>2
    <3>11. serpent'[c].messages = Append(s.messages, r)
      BY <2>2, <2>6
    <3> HIDE DEF r, g, k, p, s
    <3>12. PICK b, h : b = r /\ h = g
      OBVIOUS
    <3>13. Filed(b, h)
      <4>1. h.user \in {posted[m].to, NoName} /\ posted[m].from = h.friend_name
        BY <3>1, <3>5, <3>9, <3>12
      <4>2. b.message = m \/ (b.message = Garbled /\ Keyword # {posted[m].book})
        BY <3>4, <3>7, <3>12
      <4>3. b.original = FALSE
        BY <3>7, <3>12
      <4> QED
        BY <4>1, <4>2, <4>3 DEF Filed
    <3>14. Filed(b, h)'
      BY <1>1, <3>13 DEF Filed
    <3>15. FiledAt(c)'
      BY <1>2, <1>3, <1>5, <3>6, <3>7, <3>8, <3>10, <3>11, <3>12, <3>14, RowMore
    <3> QED
      BY <1>5, <2>4, <3>15
  <2>7. CASE ~(p.type = "MESSAGE" /\ hasFriend(s, p.name))
    <3>1. serpent'[c].messages = serpent[c].messages /\ Keeps(serpent[c], serpent'[c])
      BY <2>2, <2>7
    <3>2. Quiet(c)
      BY <1>1, <2>3, <3>1 DEF Quiet
    <3> QED
      BY <1>1, <1>2, <1>3, <1>5, <3>2, QuietMail
  <2> QED
    BY <2>6, <2>7
<1> QED
  BY <1>4, <1>5

\* Every step keeps messages right.
LEMMA NextMail ==
  ASSUME Typed, LoginInv, MailInv, [Next]_vars
  PROVE  MailInv'
<1>1. ASSUME UNCHANGED <<serverVars, posted>>, UNCHANGED history
               \/ \E what \in {"acts", "launches", "breaks"} : Spends(what),
             \A d \in Client : Quiet(d)
      PROVE  MailInv'
  <2>1. Counted
    BY <1>1, CountedIs DEF history, Typed
  <2> QED
    BY <1>1, <2>1, QuietStep DEF Counted, serverVars
<1>2. ASSUME UNCHANGED vars PROVE MailInv'
  <2>1. UNCHANGED <<serpent, up, down, posted, connectedUser, spent>>
    BY <1>2 DEF vars, clientVars, serverVars, history
  <2>2. ASSUME NEW d \in Client PROVE Quiet(d)
    <3>1. Hears(d, Calm)
      BY <2>1 DEF Hears, Typed
    <3> QED
      BY <2>1, <3>1, HearsQuiet
  <2> QED
    BY <2>1, <2>2, QuietStep
<1>3. ASSUME NEW c \in Client, Serve(c) PROVE MailInv'
  <2>1. LoginAt(c)
    BY DEF LoginInv
  <2>2. ASSUME CreateAccount(c) \/ LoginRequest(c) PROVE MailInv'
    BY <2>2, CreateAccountIs, LoginRequestIs, LoginServedMail
  <2>4. ASSUME InsertUser(c) \/ Register(c) PROVE MailInv'
    BY <2>4, CreatesIs, CreatesMail
  <2>3. ASSUME FriendRequestSend(c) \/ Accept(c) \/ Reject(c) \/ Hide(c) PROVE MailInv'
    <3>1. RequestServed(c)
      BY <2>1, <2>3, FriendRequestSendIs, AcceptIs, RejectIs, HideIs
    <3>2. Head(up[c]).type # "MESSAGE"
      BY <2>3 DEF FriendRequestSend, Accept, Reject, Hide, Receives
    <3>3. ASSUME NEW d \in Client PROVE Quiet(d)
      <4>1. Hears(d, Calm) /\ serpent' = serpent
        BY <3>1, <3>2 DEF RequestServed, Served
      <4>2. up'[d] = up[d] \/ (up[d] # <<>> /\ up'[d] = Tail(up[d]))
        BY <3>1 DEF RequestServed, Served
      <4> QED
        BY <4>1, <4>2, HearsQuiet
    <3> QED
      BY <3>1, <3>3, QuietStep DEF RequestServed, Served, history
  <2> QED
    BY <1>3, <2>2, <2>3, <2>4, ForwardMessageMail, RespondMail, DisconnectedMail DEF Serve
<1>4. ASSUME NEW c \in Client,
             \/ Start(c) \/ Quietly(Connected(c)) \/ Refuse(c) \/ Break(c)
             \/ Quietly(CloseWindow(c))
      PROVE  MailInv'
  <2>1. \A d \in Client : Quiet(d)
    BY <1>4, ComingAndGoing
  <2> QED
    BY <1>1, <1>4, <2>1 DEF Start, Refuse, Break, Comes, Quietly, history
<1>5. ASSUME NEW c \in Client, NEW u \in User, Quietly(login(c, u)) PROVE MailInv'
  BY <1>1, <1>5, LoginStep DEF Quietly, history
<1>6. ASSUME NEW c \in Client, NEW u \in User, Edit(c, u) PROVE MailInv'
  BY <1>6, EditStep DEF MailInv
<1>7. ASSUME NEW c \in Client, NEW u \in User, Ask(c, u) \/ Decide(c, u) PROVE MailInv'
  <2>1. \A d \in Client : Quiet(d)
    BY <1>7, RequestStep
  <2> QED
    BY <1>1, <1>7, <2>1 DEF Ask, Decide, Acts
<1>8. ASSUME NEW c \in Client, Quietly(ReadyRead(c)) PROVE MailInv'
  <2>1. CASE Head(down[c]).type \in Results
    BY <1>1, <1>8, <2>1, ReadResultIs DEF Quietly, history
  <2>2. CASE Head(down[c]).type \notin Results
    BY <1>8, <2>2, ReadMail
  <2> QED
    BY <2>1, <2>2
<1>9. ASSUME NEW c \in Client,
             \/ \E n \in User : Quietly(SelectFriend(c, n))
             \/ \E b \in BookName : Quietly(SelectCodebook(c, b))
             \/ \E b \in BookName, k \in Keyword : MakeCodebook(c, b, k)
             \/ Quietly(DismissMessageBox(c))
             \/ Quietly(swapLoginPurpose(c))
      PROVE  MailInv'
  <2>1. \A d \in Client : Quiet(d)
    BY <1>9, LocalStep
  <2> QED
    BY <1>1, <1>9, <2>1 DEF Quietly, MakeCodebook, Acts, history
<1> QED
  BY <1>2, <1>3, <1>4, <1>5, <1>6, <1>7, <1>8, <1>9, WriteMail, StepsAre

\* On machines without messages of old, and as long as nobody has changed the
\* form after sending it, every message is filed under the two who wrote it and
\* with what was written.
THEOREM FiledRightAlways ==
  ASSUME \A c \in Client : Archive[c].messages = <<>>
  PROVE  Spec => [](spent.edits = 0 => FiledRight)
<1>1. Init => Typed /\ LoginInv /\ MailInv
  <2>1. ASSUME Init PROVE MailInv
    <3>1. ASSUME NEW c \in Client PROVE MailAt(c) /\ FiledAt(c)
      <4>1. up[c] = <<>> /\ down[c] = <<>> /\ serpent[c] = Off(Archive[c])
        BY <2>1 DEF Init
      <4>2. \A x : Off(x).messages = x.messages
        BY DEF Off
      <4>3. Archive[c].messages = <<>>
        OBVIOUS
      <4>4. serpent[c].messages = <<>>
        BY <4>1, <4>2, <4>3
      <4> QED
        BY <4>1, <4>4 DEF MailAt, FiledAt
    <3> QED
      BY <3>1 DEF MailInv
  <2> QED
    BY <2>1, InitTyped
<1>2. Typed /\ LoginInv /\ MailInv /\ [Next]_vars => Typed' /\ LoginInv' /\ MailInv'
  BY NextTyped, NextMail
<1>3. MailInv => (spent.edits = 0 => FiledRight)
  BY DEF MailInv, FiledAt, Filed, FiledRight
<1> QED
  BY <1>1, <1>2, <1>3, PTL DEF Spec

-----------------------------------------------------------------------------
(* What the widgets name *)

\* From s to t entries, and rows under the handle, are added for N at most.
Adds(s, t, N) ==
  /\ \A b \in t.boxes : b.name \in N \/ \E d \in s.boxes : d.name = b.name
  /\ \A i \in DOMAIN t.friends \ DOMAIN s.friends :
       t.friends[i].friend_name \in N /\ t.friends[i].user = s.logged_in_user

\* Nobody is added, and the requests box stays.
SameWidgets(s, t) ==
  t.boxes = s.boxes /\ t.friends = s.friends /\ t.requestWidgets = s.requestWidgets

\* What is added step by step is added.
LEMMA AddsTwice ==
  ASSUME NEW s, NEW t, NEW u, NEW N, SameLogin(s, t), Keeps(t, u), Sound(t), Sound(u),
         Adds(s, t, N), Adds(t, u, N)
  PROVE  Adds(s, u, N)
<1>1. \A i \in DOMAIN t.friends : i \in DOMAIN u.friends /\ u.friends[i] = t.friends[i]
  BY SoundFields, LenProperties DEF Keeps
<1> QED
  BY <1>1 DEF Adds, SameLogin

\* An entry is for the name it was asked for.
LEMMA AddNewFriendAdds ==
  ASSUME NEW s, Sound(s), NEW id, NEW n, NEW st
  PROVE  LET t == addNewFriend(s, id, n, st)
         IN /\ Adds(s, t, {n}) /\ t.requestWidgets = s.requestWidgets /\ t.friends = s.friends
<1> DEFINE b == [id |-> id, name |-> n, status |-> st]
           t == [s EXCEPT !.boxes = s.boxes \cup {b}]
<1>1. b.name = n
  OBVIOUS
<1> HIDE DEF b
<1>2. /\ t.boxes = s.boxes \cup {b} /\ t.friends = s.friends
      /\ t.requestWidgets = s.requestWidgets
  BY DEF Sound, Programs
<1>3. addNewFriend(s, id, n, st) = IF \E x \in s.boxes : x.id = id \/ x.name = n THEN s ELSE t
  BY DEF addNewFriend, b
<1> HIDE DEF t
<1> QED
  BY <1>1, <1>2, <1>3 DEF Adds

\* So is a row, and it is under the handle.
LEMMA InsertFriendAdds ==
  ASSUME NEW s, Sound(s), NEW n \in User
  PROVE  LET t == insertFriend(s, n)
         IN Adds(s, t, {n}) /\ t.requestWidgets = s.requestWidgets
<1> DEFINE r == [friend_name |-> n, user |-> s.logged_in_user]
           t == FriendRowInserted(s, n)
           e == addNewFriend(t, Len(t.friends), n, "OFFLINE")
<1>1. r.friend_name = n /\ r.user = s.logged_in_user /\ r \in FriendRows
  BY SoundFields DEF FriendRows, Handle
<1>2. /\ t.boxes = s.boxes /\ t.friends = Append(s.friends, r)
      /\ t.requestWidgets = s.requestWidgets /\ t.logged_in_user = s.logged_in_user
  BY DEF Sound, Programs, FriendRowInserted
<1> HIDE DEF r
<1>3. /\ DOMAIN s.friends = 1..Len(s.friends) /\ Len(s.friends) \in Nat
      /\ DOMAIN Append(s.friends, r) = 1..(Len(s.friends) + 1)
      /\ Append(s.friends, r)[Len(s.friends) + 1] = r
  BY <1>1, SoundFields, AppendProperties, LenProperties
<1>4. \A i \in DOMAIN t.friends \ DOMAIN s.friends : t.friends[i] = r
  BY <1>2, <1>3
<1>5. t \in Programs(s.page)
  <2>1. Append(s.friends, r) \in Seq(FriendRows)
    BY <1>1, SoundFields, AppendProperties
  <2> QED
    BY <2>1 DEF Sound, Programs, FriendRowInserted, r
<1> HIDE DEF t
<1>6. Sound(t)
  <2>1. /\ t.page = s.page /\ t.messages = s.messages
        /\ t.books = s.books /\ t.current = s.current
    BY DEF Sound, Programs, FriendRowInserted, t
  <2>2. DOMAIN s.friends \subseteq DOMAIN t.friends
    BY <1>2, <1>3
  <2> QED
    BY <1>2, <1>5, <2>1, <2>2 DEF Sound, current_codebook
<1>7. Adds(t, e, {n}) /\ e.requestWidgets = t.requestWidgets /\ e.friends = t.friends
  BY <1>6, AddNewFriendAdds
<1> HIDE DEF e
<1>8. Adds(s, e, {n})
  BY <1>1, <1>2, <1>4, <1>7 DEF Adds
<1>9. Adds(s, s, {n})
  BY DEF Adds
<1> QED
  BY <1>2, <1>7, <1>8, <1>9 DEF insertFriend, e, t

\* A status is about one name.
LEMMA UpdateFriendStatusAdds ==
  ASSUME NEW s, Sound(s), NEW n \in User, NEW st \in {"ONLINE", "OFFLINE"}
  PROVE  LET t == updateFriendStatus(s, n, st)
         IN Adds(s, t, {n}) /\ t.requestWidgets = s.requestWidgets
<1> DEFINE with(b) == IF b.name = n THEN [b EXCEPT !.status = st] ELSE b
           bs == {with(b) : b \in s.boxes}
           q == [s EXCEPT !.boxes = bs]
           t == addNewFriend(s, Cardinality(s.boxes), n, st)
           e == insertFriend(t, n)
<1>1. \A b \in s.boxes : with(b).name = b.name
  BY SoundFields DEF Boxes
<1> HIDE DEF with
<1>2. q.boxes = bs /\ q.friends = s.friends /\ q.requestWidgets = s.requestWidgets
  BY DEF Sound, Programs
<1>3. Adds(s, q, {n})
  <2> HIDE DEF q
  <2> QED
    BY <1>1, <1>2 DEF Adds
<1>4. Silent(s, t)
  <2>1. Cardinality(s.boxes) \in Nat
    BY FS_CardinalityType DEF Sound
  <2> QED
    BY <2>1, AddNewFriendSilent
<1>5. Adds(s, t, {n}) /\ t.requestWidgets = s.requestWidgets
  BY AddNewFriendAdds
<1> HIDE DEF t
<1>6. Silent(t, e) /\ Adds(t, e, {n}) /\ e.requestWidgets = t.requestWidgets
  BY <1>4, InsertFriendSilent, InsertFriendAdds DEF Silent
<1> HIDE DEF e
<1>7. Adds(s, e, {n})
  BY <1>4, <1>5, <1>6, AddsTwice DEF Silent
<1>8. updateFriendStatus(s, n, st) = IF \E b \in s.boxes : b.name = n THEN q ELSE e
  BY DEF updateFriendStatus, with, e, t
<1> HIDE DEF q
<1> QED
  BY <1>2, <1>3, <1>5, <1>6, <1>7, <1>8

\* The list is of the names it was given.
LEMMA ProcessFriendListAdds ==
  ASSUME NEW s, Sound(s), NEW names
  PROVE  LET t == processFriendList(s, names)
         IN /\ Adds(s, t, names) /\ t.requestWidgets = s.requestWidgets /\ t.friends = s.friends
<1> DEFINE place(i) == Cardinality({j \in 1..(i - 1) : Names[j] \in names})
           isNew(i) == \A b \in s.boxes : b.id # place(i) /\ b.name # Names[i]
           I == {k \in DOMAIN Names : Names[k] \in names /\ isNew(k)}
           box(i) == [id |-> place(i), name |-> Names[i], status |-> "OFFLINE"]
           added == {box(i) : i \in I}
           t == [s EXCEPT !.boxes = s.boxes \cup added]
<1>1. \A i \in I : box(i).name \in names
  OBVIOUS
<1> HIDE DEF box, I
<1>2. \A b \in added : b.name \in names
  BY <1>1
<1> HIDE DEF added
<1>3. /\ t.boxes = s.boxes \cup added /\ t.friends = s.friends
      /\ t.requestWidgets = s.requestWidgets
  BY DEF Sound, Programs
<1>4. processFriendList(s, names) = t
  BY DEF processFriendList, added, box, I
<1> HIDE DEF t
<1> QED
  BY <1>2, <1>3, <1>4 DEF Adds

\* Pages, codebooks and message boxes leave the widgets of people alone.
LEMMA SlotsSameWidgets ==
  ASSUME NEW s, Sound(s)
  PROVE  /\ \A m, o, n : SameWidgets(s, insertMessage(s, m, o, n))
         /\ \A n : SameWidgets(s, queryFriendMessages(s, n))
         /\ \A b, k : SameWidgets(s, addNewCodebook(s, b, k))
         /\ \A b : SameWidgets(s, [s EXCEPT !.current = b])
         /\ \A m : SameWidgets(s, [s EXCEPT !.modal = m])
<1>1. ASSUME NEW m, NEW o, NEW n PROVE SameWidgets(s, insertMessage(s, m, o, n))
  <2> DEFINE t == MessageRowInserted(s, n, m, o)
  <2>1. SameWidgets(s, t) /\ t.page = s.page
    BY DEF Sound, Programs, MessageRowInserted, SameWidgets
  <2>2. SameWidgets(s, Shown(t, m, o))
    BY DEF Sound, Programs, MessageRowInserted, SameWidgets, Shown
  <2> HIDE DEF t
  <2>3. SameWidgets(s, s)
    BY DEF SameWidgets
  <2> QED
    BY <2>1, <2>2, <2>3 DEF insertMessage, t
<1>2. ASSUME NEW n PROVE SameWidgets(s, queryFriendMessages(s, n))
  BY DEF Sound, Programs, queryFriendMessages, processMessages, SameWidgets
<1>3. ASSUME NEW b, NEW k PROVE SameWidgets(s, addNewCodebook(s, b, k))
  BY DEF Sound, Programs, addNewCodebook, SameWidgets
<1>4. ASSUME NEW b PROVE SameWidgets(s, [s EXCEPT !.current = b])
  BY DEF Sound, Programs, SameWidgets
<1>5. ASSUME NEW m PROVE SameWidgets(s, [s EXCEPT !.modal = m])
  BY DEF Sound, Programs, SameWidgets
<1> QED
  BY <1>1, <1>2, <1>3, <1>4, <1>5

\* The requests box leaves the friends alone.
LEMMA AddRequestIs ==
  ASSUME NEW s, Sound(s), NEW n \in User, NEW k
  PROVE  LET t == addRequest(s, n, k)
             w == s.requestWidgets
         IN /\ t.boxes = s.boxes /\ t.friends = s.friends
            /\ t.requestWidgets = [w EXCEPT ![n] = IF w[n] = "none" THEN k ELSE w[n]]
  BY DEF Sound, Programs, addRequest

\* So does taking an entry out of it.
LEMMA RemoveRequestIs ==
  ASSUME NEW s, Sound(s), NEW n \in User
  PROVE  LET t == removeRequest(s, n)
         IN /\ t.boxes = s.boxes /\ t.friends = s.friends
            /\ t.requestWidgets = [s.requestWidgets EXCEPT ![n] = "none"]
  BY DEF Sound, Programs, removeRequest

\* What a packet about a person makes of an entry of the requests box.
Widget(w, p) ==
  CASE p.type = "FORWARD" /\ w = "none" -> "buttons"
    [] p.type = "PENDING" /\ w = "none" -> "pending"
    [] p.type \in {"ACCEPT", "REJECT"} -> "none"
    [] OTHER -> w

\* The friends a packet names.
Named(p) == IF p.type \in {"ONLINE", "OFFLINE", "ACCEPT"} THEN {p.name} ELSE {}

\* A packet adds the friend it names, and its entry in the requests box changes.
LEMMA HandlePacketNames ==
  ASSUME NEW s, Sound(s), NEW p \in Plain
  PROVE  LET t == handlePacket(s, p)
             w == s.requestWidgets
         IN Adds(s, t, Named(p)) /\ t.requestWidgets = [w EXCEPT ![p.name] = Widget(w[p.name], p)]
<1> DEFINE t == handlePacket(s, p)
           w == s.requestWidgets
           n == p.name
<1>1. n \in User /\ p.body \in Encrypted /\ p.type \in FromServer \ Results
  BY DEF Plain
<1>2. w = [w EXCEPT ![n] = w[n]]
  BY <1>1, SoundFields
<1>3. ASSUME NEW x, x.boxes = s.boxes, x.friends = s.friends PROVE \A N : Adds(s, x, N)
  BY <1>3 DEF Adds
<1>4. CASE p.type \in {"ONLINE", "OFFLINE"}
  <2>1. t = updateFriendStatus(s, n, p.type)
    BY <1>4 DEF handlePacket
  <2>2. Adds(s, t, {n}) /\ t.requestWidgets = w
    BY <1>1, <1>4, <2>1, UpdateFriendStatusAdds
  <2>3. Named(p) = {n} /\ Widget(w[n], p) = w[n]
    BY <1>4 DEF Named, Widget
  <2> QED
    BY <1>2, <2>2, <2>3
<1>5. CASE p.type = "FORWARD"
  <2>1. t = addRequest(s, n, "buttons")
    BY <1>5 DEF handlePacket
  <2>2. /\ t.boxes = s.boxes /\ t.friends = s.friends
        /\ t.requestWidgets = [w EXCEPT ![n] = IF w[n] = "none" THEN "buttons" ELSE w[n]]
    BY <1>1, <2>1, AddRequestIs
  <2>3. Widget(w[n], p) = IF w[n] = "none" THEN "buttons" ELSE w[n]
    BY <1>5 DEF Widget
  <2> HIDE DEF t
  <2> QED
    BY <1>3, <2>2, <2>3 DEF t
<1>6. CASE p.type = "PENDING"
  <2>1. t = addRequest(s, n, "pending")
    BY <1>6 DEF handlePacket, processFriendResponse
  <2>2. /\ t.boxes = s.boxes /\ t.friends = s.friends
        /\ t.requestWidgets = [w EXCEPT ![n] = IF w[n] = "none" THEN "pending" ELSE w[n]]
    BY <1>1, <2>1, AddRequestIs
  <2>3. Widget(w[n], p) = IF w[n] = "none" THEN "pending" ELSE w[n]
    BY <1>6 DEF Widget
  <2> HIDE DEF t
  <2> QED
    BY <1>3, <2>2, <2>3 DEF t
<1>7. CASE p.type = "REJECT"
  <2>1. t = removeRequest(s, n)
    BY <1>7 DEF handlePacket, processFriendResponse
  <2>2. /\ t.boxes = s.boxes /\ t.friends = s.friends
        /\ t.requestWidgets = [w EXCEPT ![n] = "none"]
    BY <1>1, <2>1, RemoveRequestIs
  <2>3. Widget(w[n], p) = "none"
    BY <1>7 DEF Widget
  <2> HIDE DEF t
  <2> QED
    BY <1>3, <2>2, <2>3 DEF t
<1>8. CASE p.type = "ACCEPT"
  <2> DEFINE x == insertFriend(s, n)
  <2>1. t = removeRequest(x, n)
    BY <1>8 DEF handlePacket, processFriendResponse
  <2>2. Sound(x) /\ Adds(s, x, {n}) /\ x.requestWidgets = w
    BY <1>1, InsertFriendSilent, InsertFriendAdds DEF Silent
  <2> HIDE DEF x
  <2>3. /\ t.boxes = x.boxes /\ t.friends = x.friends
        /\ t.requestWidgets = [w EXCEPT ![n] = "none"]
    BY <1>1, <2>1, <2>2, RemoveRequestIs
  <2>4. Widget(w[n], p) = "none" /\ Named(p) = {n}
    BY <1>8 DEF Widget, Named
  <2> HIDE DEF t
  <2>5. Adds(s, t, {n})
    BY <2>2, <2>3 DEF Adds
  <2> QED
    BY <2>3, <2>4, <2>5 DEF t
<1>9. CASE p.type \in {"DOES_NOT_EXIST", "MESSAGE"}
  <2> DEFINE m == decrypt(p.body, current_codebook(s))
  <2>1. \/ t = [s EXCEPT !.modal = TRUE]
        \/ t = insertMessage(s, m, FALSE, n)
    BY <1>9 DEF handlePacket, processFriendResponse, decryptAndReceiveMessage
  <2>2. Widget(w[n], p) = w[n]
    BY <1>9 DEF Widget
  <2> HIDE DEF m, t
  <2>3. CASE t = [s EXCEPT !.modal = TRUE]
    <3>1. SameWidgets(s, t)
      BY <2>3, SlotsSameWidgets
    <3> QED
      BY <1>2, <1>3, <2>2, <3>1 DEF SameWidgets, t
  <2>4. CASE t = insertMessage(s, m, FALSE, n)
    <3>1. SameWidgets(s, t)
      BY <2>4, SlotsSameWidgets
    <3> QED
      BY <1>2, <1>3, <2>2, <3>1 DEF SameWidgets, t
  <2> QED
    BY <2>1, <2>3, <2>4
<1> QED
  BY <1>1, <1>4, <1>5, <1>6, <1>7, <1>8, <1>9 DEF FromServer, Results

\* A login shows the friends that the tables have under the user's name, and
\* one that fails shows nobody.
LEMMA LoginResultNames ==
  ASSUME NEW s, Sound(s), NEW result \in BOOLEAN
  PROVE  LET t == handleLoginResult(s, result)
         IN /\ t.friends = s.friends /\ t.requestWidgets = s.requestWidgets
            /\ \A b \in t.boxes :
                 \/ \E d \in s.boxes : d.name = b.name
                 \/ result /\ \E i \in DOMAIN s.friends :
                                s.friends[i] = [friend_name |-> b.name, user |-> s.username]
<1> DEFINE q == [s EXCEPT !.waiting = FALSE, !.username = NoName]
           p == [[q EXCEPT !.screen = "main"] EXCEPT !.logged_in_user = s.username]
<1>1. SameWidgets(s, q)
  BY DEF Sound, Programs, SameWidgets
<1>2. /\ p \in Programs(s.page) /\ Resembles(s, p) /\ SameWidgets(s, p)
      /\ p.logged_in_user = s.username
  BY DEF Sound, Programs, Resembles, Handle, SameWidgets
<1> DEFINE names == queryFriends(p)
           t == processFriendList(p, names)
<1>3. handleLoginResult(s, result) = IF result THEN t ELSE q
  BY DEF handleLoginResult, onLogin
<1> HIDE DEF p, q
<1>4. Sound(p)
  BY <1>2, ResemblingSound
<1>5. \A n \in names : \E i \in DOMAIN s.friends :
        s.friends[i] = [friend_name |-> n, user |-> s.username]
  BY <1>2 DEF queryFriends, hasFriend, FriendIds, SameWidgets
<1> HIDE DEF names
<1>6. Adds(p, t, names) /\ t.requestWidgets = p.requestWidgets /\ t.friends = p.friends
  BY <1>4, ProcessFriendListAdds
<1> HIDE DEF t
<1> QED
  BY <1>1, <1>2, <1>3, <1>5, <1>6 DEF SameWidgets, Adds

-----------------------------------------------------------------------------
(* Requests and friends, on their way between clients and server *)

\* What a packet to the client of u says of u and whom it names is so, by the
\* requests A and the friends F.
DueTo(p, u, A, F) ==
  /\ p.type = "FORWARD" => <<p.name, u>> \in A
  /\ p.type \in {"PENDING", "ACCEPT", "REJECT"} => <<u, p.name>> \in A
  /\ p.type \in {"ONLINE", "OFFLINE", "ACCEPT"} => <<u, p.name>> \in F

\* A packet from u asks, or answers somebody who has asked.
Means(p, u, A) ==
  /\ p.type = "ASK" => <<u, p.name>> \in A
  /\ p.type \in {"ACCEPT", "REJECT"} => <<p.name, u>> \in A

\* The entries w of the requests box of u are of requests.
Invited(w, u, A) ==
  \A n \in User : /\ w[n] = "buttons" => <<n, u>> \in A
                  /\ w[n] = "pending" => <<u, n>> \in A

\* Nobody is shown.
Blank(s) == s.boxes = {} /\ s.requestWidgets = [n \in User |-> "none"]

\* Whatever is on its way or shown at c is about requests that were made.
AskedAt(c) ==
  LET u == connectedUser[c] IN
  /\ \A i \in DOMAIN up[c] : Means(up[c][i], u, asked)
  /\ \A i \in DOMAIN down[c] : DueTo(down[c][i], u, asked, friends)
  /\ DueTo(answer[c], u, asked, friends)
  /\ serpent[c].screen = "off" \/ (serpent[c].screen = "login" /\ link[c] # "open")
       => Blank(serpent[c])
  /\ link[c] = "open" => Invited(serpent[c].requestWidgets, u, asked)

AskedInv ==
  /\ asked \subseteq User \X User
  /\ \A p \in friends : <<p[2], p[1]>> \in friends
  /\ \A s, u \in User : requests[<<s, u>>] # "none" => <<s, u>> \in asked /\ u \in accounts
  /\ \A c \in Client : AskedAt(c)

\* q has a packet of one of the types about n.
Has(q, types, n) == \E i \in DOMAIN q : q[i].type \in types /\ q[i].name = n

\* A request that waits for the user of c, and was not missed, has its entry
\* there, or is on its way, or the answer to it is.
WaitingFor(c, s) ==
  \/ serpent[c].requestWidgets[s] = "buttons"
  \/ Has(down[c], {"FORWARD"}, s)
  \/ Has(up[c], {"ACCEPT", "REJECT", "HIDE"}, s)
WaitingAt(c) ==
  LET u == connectedUser[c] IN
  link[c] = "open" /\ u \in User =>
    \A s \in User :
      requests[<<s, u>>] = "shown" /\ <<u, s>> \notin asked /\ <<s, u>> \notin missed =>
        WaitingFor(c, s)

WaitingInv == \A c \in Client : WaitingAt(c)

\* While the thread of c is creating an account, every request for it is missed.
MissedAt(c) ==
  LET u == answer[c].name IN
  answer[c].type \in ToDo =>
    \A s \in User : requests[<<s, u>>] = "shown" => <<s, u>> \in missed

MissedInv == \A c \in Client : MissedAt(c)

\* n is a friend of u, or u has accepted n on c.
BefriendedAt(c, u, n) ==
  <<u, n>> \in friends \/ (u = connectedUser[c] /\ Has(up[c], {"ACCEPT"}, n))

\* Entries, and rows of users, are of such friends.
BoxesAt(c) ==
  LET s == serpent[c] IN
  /\ link[c] = "open" => \A b \in s.boxes : BefriendedAt(c, connectedUser[c], b.name)
  /\ \A i \in DOMAIN s.friends :
       s.friends[i].user # NoName =>
         BefriendedAt(c, s.friends[i].user, s.friends[i].friend_name)

\* The rows of users in the tables of the start are of their friends.
FriendsOnFile ==
  \A c \in Client : \A i \in DOMAIN Archive[c].friends :
    LET r == Archive[c].friends[i]
    IN r.user # NoName => <<r.user, r.friend_name>> \in Befriended

\* From such tables, as long as no connection broke and no form was edited after
\* it was sent.
Unbroken == FriendsOnFile /\ spent.breaks + spent.edits = 0
BoxesInv == Unbroken => \A c \in Client : BoxesAt(c)

PeopleInv == AskedInv /\ WaitingInv /\ BoxesInv /\ MissedInv

\* Nothing that was asked, befriended or missed is undone.
Grows == asked \subseteq asked' /\ friends \subseteq friends' /\ missed \subseteq missed'

\* What was said remains so, and what was said of nobody, which is nothing, is
\* so of everybody.
LEMMA SaidRemains ==
  ASSUME Typed, asked \subseteq User \X User, Grows, NEW v, NEW u, v \in {u, NoName}, NEW p
  PROVE  /\ DueTo(p, v, asked, friends) => DueTo(p, u, asked', friends')
         /\ Means(p, v, asked) => Means(p, u, asked')
         /\ Invited(p, v, asked) => Invited(p, u, asked')
<1>1. /\ \A n : <<n, NoName>> \notin asked /\ <<NoName, n>> \notin asked
      /\ \A n : <<NoName, n>> \notin friends
  BY NamesAssumption DEF Typed
<1> QED
  BY <1>1 DEF DueTo, Means, Invited, Grows

\* What is taken from a sequence is not looked for any more.
LEMMA TailHas ==
  ASSUME NEW S, NEW q \in Seq(S), q # <<>>, NEW types, NEW n, Has(q, types, n)
  PROVE  Has(Tail(q), types, n) \/ (Head(q).type \in types /\ Head(q).name = n)
<1>1. PICK i \in DOMAIN q : q[i].type \in types /\ q[i].name = n
  BY DEF Has
<1>2. CASE i = 1
  BY <1>1, <1>2, TailIs
<1>3. CASE i # 1
  <2>1. i - 1 \in DOMAIN Tail(q) /\ Tail(q)[i - 1] = q[(i - 1) + 1] /\ i \in Nat
    BY <1>3, TailIs
  <2> QED
    BY <1>1, <2>1 DEF Has
<1> QED
  BY <1>2, <1>3

\* The thread of d takes a packet, or none.
Takes(d) == up'[d] = up[d] \/ (up[d] # <<>> /\ up'[d] = Tail(up[d]))

\* The client of d does nothing.
Stays(d) == serpent'[d] = serpent[d] /\ link'[d] = link[d]

\* The user of d is the same, or has just been logged in.
NewUser(d, u) == connectedUser'[d] = u /\ connectedUser[d] \in {u, NoName}

\* What the thread takes leaves a part of what was there.
LEMMA TakesIs ==
  ASSUME Typed, NEW d \in Client, Takes(d)
  PROVE  \A i \in DOMAIN up'[d] : \E j \in DOMAIN up[d] : up'[d][i] = up[d][j]
<1>1. CASE up'[d] = up[d]
  BY <1>1
<1>2. CASE up[d] # <<>> /\ up'[d] = Tail(up[d])
  <2>1. up[d] \in Seq(Up)
    BY DEF Typed
  <2>2. \A i \in DOMAIN Tail(up[d]) : i + 1 \in DOMAIN up[d] /\ Tail(up[d])[i] = up[d][i + 1]
    BY <1>2, <2>1, TailIs
  <2> QED
    BY <1>2, <2>2
<1> QED
  BY <1>1, <1>2 DEF Takes

\* Where the client does nothing, what is said goes on being so if it is so of
\* the packets that are sent and the answer that is owed.
LEMMA AskedRemains ==
  ASSUME Typed, asked \subseteq User \X User, Grows, NEW d \in Client, AskedAt(d),
         Stays(d), Takes(d), NEW u, NewUser(d, u), NEW S, Hears(d, S),
         \A p \in S : DueTo(p, u, asked', friends'),
         DueTo(answer'[d], u, asked', friends') \/ answer'[d] = answer[d]
  PROVE  AskedAt(d)'
<1> DEFINE v == connectedUser[d]
<1>1. \A p : /\ DueTo(p, v, asked, friends) => DueTo(p, u, asked', friends')
             /\ Means(p, v, asked) => Means(p, u, asked')
             /\ Invited(p, v, asked) => Invited(p, u, asked')
  BY SaidRemains DEF NewUser
<1>2. /\ \A i \in DOMAIN up[d] : Means(up[d][i], v, asked)
      /\ \A i \in DOMAIN down[d] : DueTo(down[d][i], v, asked, friends)
      /\ DueTo(answer[d], v, asked, friends)
      /\ serpent[d].screen = "off" \/ (serpent[d].screen = "login" /\ link[d] # "open")
           => Blank(serpent[d])
      /\ link[d] = "open" => Invited(serpent[d].requestWidgets, v, asked)
  BY DEF AskedAt
<1> HIDE DEF v
<1>3. \A i \in DOMAIN up'[d] : Means(up'[d][i], u, asked')
  BY <1>1, <1>2, TakesIs
<1>4. \A i \in DOMAIN down'[d] : DueTo(down'[d][i], u, asked', friends')
  BY <1>1, <1>2 DEF Hears
<1>5. DueTo(answer'[d], u, asked', friends')
  BY <1>1, <1>2
<1>6. Blank(serpent[d]) => Blank(serpent'[d])
  BY DEF Stays
<1> QED
  BY <1>1, <1>2, <1>3, <1>4, <1>5, <1>6 DEF AskedAt, Stays, NewUser, Blank

\* A request that waits goes on waiting, or its packet is sent.
LEMMA WaitingRemains ==
  ASSUME Typed, Grows, NEW d \in Client, WaitingAt(d), Stays(d), Takes(d),
         NEW u, connectedUser'[d] = u, NEW S, Hears(d, S),
         u \in User => \A s \in User : requests'[<<s, u>>] = "shown" =>
           \/ /\ u = connectedUser[d] /\ requests[<<s, u>>] = "shown"
              /\ up'[d] = up[d] \/ Head(up[d]).name # s
                   \/ Head(up[d]).type \notin {"ACCEPT", "REJECT", "HIDE"}
           \/ link[d] = "open" => Has(down'[d], {"FORWARD"}, s)
  PROVE  WaitingAt(d)'
<1> SUFFICES ASSUME link[d] = "open", u \in User, NEW s \in User,
                    requests'[<<s, u>>] = "shown", <<u, s>> \notin asked', <<s, u>> \notin missed'
             PROVE  \/ serpent[d].requestWidgets[s] = "buttons"
                    \/ Has(down'[d], {"FORWARD"}, s)
                    \/ Has(up'[d], {"ACCEPT", "REJECT", "HIDE"}, s)
  BY DEF WaitingAt, WaitingFor, Stays, Has
<1>1. CASE Has(down'[d], {"FORWARD"}, s)
  BY <1>1
<1>2. CASE /\ u = connectedUser[d] /\ requests[<<s, u>>] = "shown"
           /\ up'[d] = up[d] \/ Head(up[d]).name # s
                \/ Head(up[d]).type \notin {"ACCEPT", "REJECT", "HIDE"}
  <2>1. WaitingFor(d, s)
    BY <1>2 DEF WaitingAt, Grows
  <2>2. Has(down[d], {"FORWARD"}, s) => Has(down'[d], {"FORWARD"}, s)
    BY DEF Has, Hears
  <2>3. up[d] \in Seq(Up)
    BY DEF Typed
  <2>4. ASSUME Has(up[d], {"ACCEPT", "REJECT", "HIDE"}, s)
        PROVE  Has(up'[d], {"ACCEPT", "REJECT", "HIDE"}, s)
    BY <1>2, <2>3, <2>4, TailHas DEF Takes
  <2> QED
    BY <2>1, <2>2, <2>4 DEF WaitingFor
<1> QED
  BY <1>1, <1>2

\* Friends remain, and who was accepted is a friend when the answer is taken.
LEMMA BefriendedRemains ==
  ASSUME Typed, Grows, NEW d \in Client, Takes(d), NEW w, NEW n, BefriendedAt(d, w, n),
         \/ Head(up[d]).type # "ACCEPT"
         \/ up'[d] = up[d]
         \/ <<connectedUser[d], Head(up[d]).name>> \in friends',
         connectedUser'[d] = connectedUser[d] \/ ~Has(up[d], {"ACCEPT"}, n)
  PROVE  BefriendedAt(d, w, n)'
<1>1. CASE <<w, n>> \in friends
  BY <1>1 DEF BefriendedAt, Grows
<1>2. CASE w = connectedUser[d] /\ Has(up[d], {"ACCEPT"}, n)
  <2>1. up[d] \in Seq(Up)
    BY DEF Typed
  <2>2. \/ Has(up'[d], {"ACCEPT"}, n)
        \/ up'[d] # up[d] /\ Head(up[d]).type = "ACCEPT" /\ Head(up[d]).name = n
    BY <1>2, <2>1, TailHas DEF Takes
  <2> QED
    BY <1>2, <2>2 DEF BefriendedAt, Has
<1> QED
  BY <1>1, <1>2 DEF BefriendedAt

\* Where the client does nothing, entries and rows remain those of friends.
LEMMA BoxesRemain ==
  ASSUME Typed, Grows, NEW d \in Client, BoxesAt(d), Stays(d), Takes(d),
         \/ Head(up[d]).type # "ACCEPT"
         \/ up'[d] = up[d]
         \/ <<connectedUser[d], Head(up[d]).name>> \in friends',
         \/ connectedUser'[d] = connectedUser[d]
         \/ connectedUser[d] = NoName /\ \A n : ~Has(up[d], {"ACCEPT"}, n)
  PROVE  BoxesAt(d)'
<1> DEFINE s == serpent[d]
           Was(w, n) == <<w, n>> \in friends \/ (w = connectedUser[d] /\ Has(up[d], {"ACCEPT"}, n))
           Is(w, n) == \/ <<w, n>> \in friends'
                       \/ w = connectedUser'[d] /\ Has(up'[d], {"ACCEPT"}, n)
<1>1. \A w, n : Was(w, n) => Is(w, n)
  <2> SUFFICES ASSUME NEW w, NEW n, Was(w, n) PROVE Is(w, n)
    OBVIOUS
  <2>1. BefriendedAt(d, w, n)'
    BY BefriendedRemains DEF BefriendedAt
  <2> QED
    BY <2>1 DEF BefriendedAt, Has
<1>2. \A n : <<NoName, n>> \notin friends
  BY NamesAssumption DEF Typed
<1>3. /\ \A i \in DOMAIN s.friends :
           s.friends[i].user # NoName => Was(s.friends[i].user, s.friends[i].friend_name)
      /\ link[d] = "open" => \A b \in s.boxes : Was(connectedUser[d], b.name)
  BY DEF BoxesAt, BefriendedAt
<1>4. link[d] = "open" => \A b \in s.boxes : Is(connectedUser'[d], b.name)
  BY <1>1, <1>2, <1>3
<1>5. /\ serpent'[d] = s /\ link'[d] = link[d]
      /\ \A i \in DOMAIN s.friends :
           s.friends[i].user # NoName => Is(s.friends[i].user, s.friends[i].friend_name)
  BY <1>1, <1>3 DEF Stays
<1> QED
  BY <1>4, <1>5 DEF BoxesAt, BefriendedAt, Has

\* What comes while an account is created is missed.
LEMMA MissedRemains ==
  ASSUME Typed, MissedInv, Misses, NEW d \in Client, answer'[d] = answer[d]
  PROVE  MissedAt(d)'
<1> SUFFICES ASSUME answer[d].type \in ToDo, NEW s \in User,
                    requests'[<<s, answer[d].name>>] = "shown"
             PROVE  <<s, answer[d].name>> \in missed'
  BY DEF MissedAt
<1>1. PICK u : u = answer[d].name
  OBVIOUS
<1>2. u \in User /\ Creating(u)
  BY <1>1, ToDoIs DEF Creating
<1>3. CASE requests[<<s, u>>] = "shown"
  BY <1>1, <1>3 DEF MissedInv, MissedAt, Misses
<1>4. CASE requests[<<s, u>>] # "shown"
  BY <1>1, <1>2, <1>4 DEF Misses
<1> QED
  BY <1>1, <1>3, <1>4

\* Where no request changes, none is missed but what was.
LEMMA MissedSame ==
  ASSUME MissedInv, UNCHANGED <<requests, missed>>,
         \A d \in Client : \/ answer'[d] = answer[d]
                           \/ answer'[d].type \notin ToDo
                           \/ answer[d].type \in ToDo /\ answer'[d].name = answer[d].name
  PROVE  MissedInv'
<1> SUFFICES ASSUME NEW d \in Client PROVE MissedAt(d)'
  BY DEF MissedInv
<1>1. MissedAt(d)
  BY DEF MissedInv
<1> QED
  BY <1>1 DEF MissedAt

\* A packet from a user is served: it is enough that what it makes of the tables
\* is as it was said, and that whoever has to hear of a request does.
LEMMA ServedPeople ==
  ASSUME Typed, LoginInv, PeopleInv, NEW c \in Client, Served(c), Grows,
         \A p \in friends' : <<p[2], p[1]>> \in friends',
         \A s, u \in User :
           requests'[<<s, u>>] # "none" => <<s, u>> \in asked /\ u \in accounts',
         \A d \in Client : \E S : /\ Hears(d, S)
                                  /\ \A p \in S : DueTo(p, connectedUser'[d], asked, friends'),
         DueTo(answer'[c], connectedUser'[c], asked, friends'),
         \/ connectedUser'[c] = connectedUser[c]
         \/ connectedUser[c] = NoName /\ Head(up[c]).type \in Logins,
         Head(up[c]).type = "ACCEPT" => <<connectedUser[c], Head(up[c]).name>> \in friends',
         answer'[c].type \in ToDo =>
           \A s \in User : requests'[<<s, answer'[c].name>>] # "shown",
         \A d \in Client, s \in User :
           connectedUser'[d] \in User /\ requests'[<<s, connectedUser'[d]>>] = "shown" =>
             \/ /\ connectedUser'[d] = connectedUser[d]
                /\ requests[<<s, connectedUser[d]>>] = "shown"
                /\ \/ d # c \/ Head(up[c]).name # s
                   \/ Head(up[c]).type \notin {"ACCEPT", "REJECT", "HIDE"}
             \/ link[d] = "open" => Has(down'[d], {"FORWARD"}, s)
  PROVE  PeopleInv'
<1>1. /\ asked' = asked /\ spent' = spent /\ asked \subseteq User \X User
      /\ \A d \in Client : Stays(d) /\ Takes(d) /\ NewUser(d, connectedUser'[d])
      /\ \A d \in Client \ {c} : up'[d] = up[d] /\ answer'[d] = answer[d]
                                 /\ connectedUser'[d] = connectedUser[d]
  BY DEF Served, history, Stays, Takes, NewUser, PeopleInv, AskedInv
<1>2. ASSUME NEW d \in Client PROVE AskedAt(d)' /\ WaitingAt(d)'
  <2>1. PICK S : Hears(d, S) /\ \A p \in S : DueTo(p, connectedUser'[d], asked, friends')
    OBVIOUS
  <2>2. PICK u : u = connectedUser'[d]
    OBVIOUS
  <2>3. AskedAt(d) /\ WaitingAt(d)
    BY DEF PeopleInv, AskedInv, WaitingInv
  <2>4. DueTo(answer'[d], u, asked', friends') \/ answer'[d] = answer[d]
    BY <1>1, <2>2
  <2>5. \A p \in S : DueTo(p, u, asked', friends')
    BY <1>1, <2>1, <2>2
  <2>6. AskedAt(d)'
    BY <1>1, <2>1, <2>2, <2>3, <2>4, <2>5, AskedRemains
  <2>7. u \in User => \A s \in User : requests'[<<s, u>>] = "shown" =>
          \/ /\ u = connectedUser[d] /\ requests[<<s, u>>] = "shown"
             /\ up'[d] = up[d] \/ Head(up[d]).name # s
                  \/ Head(up[d]).type \notin {"ACCEPT", "REJECT", "HIDE"}
          \/ link[d] = "open" => Has(down'[d], {"FORWARD"}, s)
    BY <1>1, <2>2
  <2>8. WaitingAt(d)'
    BY <1>1, <2>1, <2>2, <2>3, <2>7, WaitingRemains
  <2> QED
    BY <2>6, <2>8
<1>3. ASSUME Unbroken, NEW d \in Client PROVE BoxesAt(d)'
  <2>1. BoxesAt(d)
    BY <1>3 DEF PeopleInv, BoxesInv
  <2>2. ASSUME connectedUser'[c] # connectedUser[c]
        PROVE  \A n : ~Has(up[c], {"ACCEPT"}, n)
    <3>1. Upward(c) /\ Head(up[c]) = up[c][1] /\ 1 \in DOMAIN up[c]
      BY HeadUp DEF LoginInv, LoginAt, Served
    <3>2. Len(up[c]) = 1 /\ up[c][1].type \in Logins
      BY <2>2, <3>1 DEF Upward
    <3>3. DOMAIN up[c] = 1..1
      BY <3>2, LenProperties DEF Typed
    <3> QED
      BY <3>2, <3>3 DEF Has, Logins
  <2> QED
    BY <1>1, <2>1, <2>2, BoxesRemain
<1>4. Unbroken' => Unbroken
  BY <1>1 DEF Unbroken
<1>5. AskedInv'
  BY <1>1, <1>2 DEF AskedInv
<1>6. WaitingInv'
  BY <1>2 DEF WaitingInv
<1>7. BoxesInv'
  BY <1>3, <1>4 DEF BoxesInv
<1>8. MissedInv'
  <2>1. ASSUME NEW d \in Client \ {c} PROVE MissedAt(d)'
    BY <1>1, MissedRemains DEF PeopleInv, Served
  <2>2. MissedAt(c)'
    BY DEF MissedAt
  <2> QED
    BY <2>1, <2>2 DEF MissedInv
<1> QED
  BY <1>5, <1>6, <1>7, <1>8 DEF PeopleInv

-----------------------------------------------------------------------------
(* What the server says of requests and friends *)

\* There are finitely many users.
LEMMA UserFinite == IsFiniteSet(User)
<1>1. /\ DOMAIN Names = 1..Len(Names) /\ Len(Names) \in Nat
      /\ Names \in [1..Len(Names) -> User]
  BY NamesAssumption, LenProperties
<1>2. Names \in Surjection(1..Len(Names), User)
  BY <1>1 DEF Surjection, User, ToSet
<1>3. IsFiniteSet(1..Len(Names))
  BY <1>1, FS_Interval
<1> QED
  BY <1>2, <1>3, FS_Surjection

\* The answer to a query has each name there is, and no other.
LEMMA QueryFinds ==
  ASSUME NEW T \in SUBSET User, NEW q \in SetToSeqs(T)
  PROVE  /\ \A i \in DOMAIN q : q[i] \in T
         /\ \A n \in T : \E i \in DOMAIN q : q[i] = n
<1>1. IsFiniteSet(T)
  BY UserFinite, FS_Subset
<1> DEFINE k == Cardinality(T)
<1>2. k \in Nat
  BY <1>1, FS_CardinalityType
<1>3. q \in [1..k -> T] /\ \A i, j \in 1..k : i # j => q[i] # q[j]
  BY DEF SetToSeqs
<1>4. q \in Injection(1..k, T)
  BY <1>3 DEF Injection, IsInjective
<1>5. Cardinality(1..k) = k
  BY <1>2, FS_Interval
<1> HIDE DEF k
<1>6. k = Cardinality(T)
  BY DEF k
<1>7. q \in Surjection(1..k, T)
  BY <1>1, <1>4, <1>5, <1>6, FS_Injection
<1> QED
  BY <1>3, <1>7 DEF Surjection

\* What is told to a connection that is there will be read there.
LEMMA DeliveredFinds ==
  ASSUME Typed, NEW told, Delivered(told), NEW d \in Client, link[d] = "open",
         told[d] \in Seq(Plain), NEW i \in DOMAIN told[d]
  PROVE  \E j \in DOMAIN down'[d] : down'[d][j] = told[d][i]
<1> DEFINE a == down[d]
           b == told[d]
           m == Len(a)
           n == Len(b)
<1>1. a \in Seq(Down) /\ b \in Seq(Down)
  BY SeqMonotonic DEF Typed, Down
<1>2. down'[d] = a \o b
  BY DEF Delivered
<1>3. /\ m \in Nat /\ n \in Nat /\ DOMAIN b = 1..n
      /\ a \o b \in Seq(Down) /\ Len(a \o b) = m + n
      /\ \A j \in 1..(m + n) : (a \o b)[j] = IF j <= m THEN a[j] ELSE b[j - m]
  BY <1>1, ConcatProperties, LenProperties
<1>4. DOMAIN (a \o b) = 1..(m + n)
  BY <1>3, LenProperties
<1>5. i \in 1..n
  BY <1>3
<1> HIDE DEF a, b, m, n
<1>6. m + i \in 1..(m + n) /\ ~(m + i <= m) /\ (m + i) - m = i
  BY <1>3, <1>5
<1>7. m + i \in DOMAIN (a \o b) /\ (a \o b)[m + i] = b[i]
  BY <1>3, <1>4, <1>6
<1> QED
  BY <1>2, <1>7 DEF b

\* Where nothing is told nothing is heard.
LEMMA NobodyHears ==
  ASSUME Typed, Delivered(Nobody), NEW d \in Client
  PROVE  Hears(d, {})
<1>1. Nobody[d] \in Seq({}) /\ {} \in SUBSET Plain
  BY EmptySeq DEF Nobody
<1> QED
  BY <1>1, DeliveredHears

\* A name without an account has no requests to hear of.
LEMMA CreateAccountPeople ==
  ASSUME Typed, LoginInv, PeopleInv, NEW c \in Client, CreateAccount(c)
  PROVE  PeopleInv'
<1> DEFINE p == Head(up[c])
<1>1. LoginServed(c)
  BY CreateAccountIs
<1>2. Served(c) /\ p.type \in Logins
  BY <1>1 DEF LoginServed
<1>3. UNCHANGED <<accounts, friends, requests, connectedUser>> /\ Delivered(Nobody)
  BY DEF CreateAccount, Handles
<1>4. /\ asked' = asked /\ Grows
      /\ \A q \in friends' : <<q[2], q[1]>> \in friends'
      /\ \A s, u \in User :
           requests'[<<s, u>>] # "none" => <<s, u>> \in asked /\ u \in accounts'
  BY <1>2, <1>3 DEF Grows, PeopleInv, AskedInv, Served, history, Misses
<1>5. p.type \notin {"ACCEPT", "REJECT", "HIDE"} /\ p.name \in User
  BY <1>2, HeadUp DEF Logins, Served
<1>6. \A d \in Client : \E S : /\ Hears(d, S)
                               /\ \A q \in S : DueTo(q, connectedUser'[d], asked, friends')
  BY <1>3, NobodyHears
<1>7. /\ DueTo(answer'[c], connectedUser'[c], asked, friends')
      /\ connectedUser'[c] = connectedUser[c]
      /\ p.type = "ACCEPT" => <<connectedUser[c], p.name>> \in friends'
  BY <1>1, <1>3, <1>5 DEF LoginServed, Outcomes, Results, ToDo, DueTo
<1>8. answer'[c].type \in ToDo => \A s \in User : requests'[<<s, answer'[c].name>>] # "shown"
  BY <1>1, <1>3, <1>4, <1>5 DEF LoginServed
<1>9. \A d \in Client, s \in User :
         connectedUser'[d] \in User /\ requests'[<<s, connectedUser'[d]>>] = "shown" =>
           \/ /\ connectedUser'[d] = connectedUser[d]
              /\ requests[<<s, connectedUser[d]>>] = "shown"
              /\ \/ d # c \/ Head(up[c]).name # s
                 \/ Head(up[c]).type \notin {"ACCEPT", "REJECT", "HIDE"}
           \/ link[d] = "open" => Has(down'[d], {"FORWARD"}, s)
  BY <1>3, <1>5
<1> HIDE DEF p
<1> QED
  BY <1>2, <1>4, <1>6, <1>7, <1>8, <1>9, ServedPeople DEF p

\* The user of a new account is logged in, and has missed what came before.
LEMMA CreatesPeople ==
  ASSUME Typed, LoginInv, PeopleInv, NEW c \in Client, Creates(c)
  PROVE  PeopleInv'
<1>1. /\ answer[c].type \in ToDo /\ accounts \subseteq accounts'
      /\ UNCHANGED <<serpent, link, up, down, friends, requests, missed, asked, spent>>
      /\ \A d \in Client \ {c} : answer'[d] = answer[d] /\ connectedUser'[d] = connectedUser[d]
  BY DEF Creates, clientVars, history
<1>2. Grows /\ asked \subseteq User \X User
  BY <1>1 DEF Grows, PeopleInv, AskedInv
<1>3. up[c] = <<>> /\ connectedUser[c] = NoName
  BY <1>1 DEF LoginInv, LoginAt, Upward
<1>4. \/ /\ answer'[c].type \in ToDo /\ answer'[c].name = answer[c].name
         /\ connectedUser'[c] = NoName
      \/ answer'[c].type = "RESULT_YES" /\ connectedUser'[c] = answer[c].name
  BY <1>3 DEF Creates
<1>5. ASSUME NEW d \in Client PROVE AskedAt(d)' /\ WaitingAt(d)'
  <2>1. PICK u : u = connectedUser'[d]
    OBVIOUS
  <2>2. AskedAt(d) /\ WaitingAt(d) /\ Hears(d, {})
    BY <1>1 DEF PeopleInv, AskedInv, WaitingInv, Hears, Typed
  <2>3. Stays(d) /\ Takes(d) /\ NewUser(d, u)
    BY <1>1, <1>3, <2>1 DEF Stays, Takes, NewUser
  <2>4. DueTo(answer'[d], u, asked', friends') \/ answer'[d] = answer[d]
    BY <1>1, <1>4 DEF DueTo, ToDo
  <2>5. AskedAt(d)'
    BY <1>2, <2>2, <2>3, <2>4, AskedRemains
  <2>6. CASE u = connectedUser[d]
    <3>1. u \in User => \A s \in User : requests'[<<s, u>>] = "shown" =>
            u = connectedUser[d] /\ requests[<<s, u>>] = "shown" /\ up'[d] = up[d]
      BY <1>1, <2>6
    <3>2. WaitingAt(d)'
      BY <1>2, <2>1, <2>2, <2>3, <3>1, WaitingRemains
    <3> QED
      BY <2>5, <3>2
  <2>7. CASE u # connectedUser[d]
    <3>1. d = c /\ u = answer[c].name
      BY <1>1, <1>3, <1>4, <2>1, <2>7
    <3>2. \A s \in User : requests'[<<s, u>>] = "shown" => <<s, u>> \in missed'
      BY <1>1, <3>1 DEF PeopleInv, MissedInv, MissedAt
    <3>3. WaitingAt(d)'
      BY <2>1, <3>2 DEF WaitingAt
    <3> QED
      BY <2>5, <3>3
  <2> QED
    BY <2>6, <2>7
<1>6. ASSUME NEW d \in Client, Unbroken PROVE BoxesAt(d)'
  <2>1. BoxesAt(d)
    BY <1>6 DEF PeopleInv, BoxesInv
  <2>2. Stays(d) /\ Takes(d) /\ up'[d] = up[d]
    BY <1>1 DEF Stays, Takes
  <2>3. \/ connectedUser'[d] = connectedUser[d]
        \/ connectedUser[d] = NoName /\ \A n : ~Has(up[d], {"ACCEPT"}, n)
    BY <1>1, <1>3 DEF Has
  <2> QED
    BY <1>2, <2>1, <2>2, <2>3, BoxesRemain
<1>7. Unbroken' => Unbroken
  BY <1>1 DEF Unbroken
<1>8. AskedInv'
  BY <1>1, <1>5 DEF PeopleInv, AskedInv
<1>9. WaitingInv' /\ BoxesInv'
  BY <1>5, <1>6, <1>7 DEF WaitingInv, BoxesInv
<1>10. MissedInv'
  <2>1. \A d \in Client : \/ answer'[d] = answer[d]
                          \/ answer'[d].type \notin ToDo
                          \/ answer[d].type \in ToDo /\ answer'[d].name = answer[d].name
    BY <1>1, <1>4 DEF ToDo
  <2> QED
    BY <1>1, <2>1, MissedSame DEF PeopleInv
<1> QED
  BY <1>8, <1>9, <1>10 DEF PeopleInv

\* The part of a sequence that is in it.
LEMMA PartOf ==
  ASSUME NEW S, NEW a \in Seq(S), NEW b \in Seq(S)
  PROVE  /\ a \o b \in Seq(S)
         /\ \A i \in DOMAIN a : i \in DOMAIN (a \o b) /\ (a \o b)[i] = a[i]
<1>1. S \in SUBSET S
  OBVIOUS
<1> QED
  BY <1>1, Joined

\* What the client of d is told of a login is due there; if it is the client of
\* the user it has every request that waits.
LEMMA LoginHears ==
  ASSUME Typed, AskedInv, NEW c \in Client, LoginRequest(c), up[c] # <<>>,
         Head(up[c]).name \in accounts, NEW d \in Client
  PROVE  /\ \E S : Hears(d, S) /\ \A q \in S : DueTo(q, connectedUser'[d], asked, friends)
         /\ connectedUser'[c] = Head(up[c]).name
         /\ connectedUser'[d] = Head(up[c]).name /\ link[d] = "open" =>
              \A s \in User : requests[<<s, Head(up[c]).name>>] = "shown" =>
                Has(down'[d], {"FORWARD"}, s)
<1>1. PICK u : u = Head(up[c]).name
  OBVIOUS
<1>2. PICK who : who = [connectedUser EXCEPT ![c] = u]
  OBVIOUS
<1>3. u \in User
  BY <1>1, HeadUp
<1>4. PICK T1, T2, T3 : /\ T1 = {s \in User : requests[<<s, u>>] = "shown"}
                        /\ T2 = {t \in User : requests[<<u, t>>] # "none"}
                        /\ T3 = {f \in User : <<u, f>> \in friends}
  OBVIOUS
<1>5. PICK incoming \in SetToSeqs(T1) :
      \E outgoing \in SetToSeqs(T2) : \E fs \in SetToSeqs(T3) :
        connectedUser' = who /\ Delivered(LoginTold(who, u, incoming, outgoing, fs))
  BY <1>1, <1>2, <1>4 DEF LoginRequest, Handles
<1>6. PICK outgoing \in SetToSeqs(T2) :
      \E fs \in SetToSeqs(T3) :
        connectedUser' = who /\ Delivered(LoginTold(who, u, incoming, outgoing, fs))
  BY <1>5
<1>7. PICK fs \in SetToSeqs(T3) :
        connectedUser' = who /\ Delivered(LoginTold(who, u, incoming, outgoing, fs))
  BY <1>6
<1>8. PICK told : told = LoginTold(who, u, incoming, outgoing, fs)
  OBVIOUS
<1>9. /\ \A s \in User : requests[<<s, u>>] = "shown" => <<s, u>> \in asked
      /\ \A s \in User : requests[<<u, s>>] # "none" => <<u, s>> \in asked
      /\ \A s : <<u, s>> \in friends => <<s, u>> \in friends
  BY <1>3 DEF AskedInv
<1>10. /\ \A n \in User : /\ Packet("FORWARD", n) \in Plain /\ Packet("PENDING", n) \in Plain
                          /\ Packet("ONLINE", n) \in Plain /\ Status(who, n) \in Plain
       /\ \A n : Status(who, n).type \in {"ONLINE", "OFFLINE"} /\ Status(who, n).name = n
  <2>1. {"FORWARD", "PENDING", "ONLINE"} \subseteq FromServer \ (Results \cup {"MESSAGE"})
    BY DEF FromServer, Results
  <2> QED
    BY <2>1, PacketTypes DEF Calm, Status, Packet
<1>11. PICK M : M = {q \in Plain : DueTo(q, who[d], asked, friends)}
  OBVIOUS
<1>12. \A s \in T1 : who[d] = u => Packet("FORWARD", s) \in M
  BY <1>9, <1>10, <1>4, <1>11 DEF DueTo, Packet
<1>13. \A s \in T2 : who[d] = u => Packet("PENDING", s) \in M
  BY <1>9, <1>10, <1>4, <1>11 DEF DueTo, Packet
<1>14. \A s \in T3 : who[d] = u => Status(who, s) \in M
  BY <1>10, <1>4, <1>11 DEF DueTo
<1>15. <<u, who[d]>> \in friends => Packet("ONLINE", u) \in M
  BY <1>3, <1>9, <1>10, <1>11 DEF DueTo, Packet
<1>16. T1 \in SUBSET User /\ T2 \in SUBSET User /\ T3 \in SUBSET User
  BY <1>4
<1>17. /\ \A s \in User : requests[<<s, u>>] = "shown" => s \in T1
       /\ M \in SUBSET Plain /\ \A q \in M : DueTo(q, who[d], asked, friends)
  BY <1>4, <1>11
<1> DEFINE a == [i \in DOMAIN incoming |-> Packet("FORWARD", incoming[i])]
           b == [i \in DOMAIN outgoing |-> Packet("PENDING", outgoing[i])]
           e == [i \in DOMAIN fs |-> Status(who, fs[i])]
           o == <<Packet("ONLINE", u)>>
           x == IF who[d] = u THEN a \o b \o e ELSE <<>>
           y == IF <<u, who[d]>> \in friends THEN o ELSE <<>>
<1>18. told[d] = x \o y
  BY <1>8 DEF LoginTold, Then, To, ToFriends
<1>19. /\ DOMAIN incoming = 1..Len(incoming) /\ Len(incoming) \in Nat
       /\ DOMAIN outgoing = 1..Len(outgoing) /\ Len(outgoing) \in Nat
       /\ DOMAIN fs = 1..Len(fs) /\ Len(fs) \in Nat
  BY <1>16, QueryTypes
<1>20. /\ \A i \in DOMAIN incoming : incoming[i] \in T1
       /\ \A i \in DOMAIN outgoing : outgoing[i] \in T2
       /\ \A i \in DOMAIN fs : fs[i] \in T3
       /\ \A s \in T1 : \E i \in DOMAIN incoming : incoming[i] = s
  BY <1>16, QueryFinds
<1>21. y \in Seq(M)
  BY <1>15, OneOrTwo, EmptySeq
<1>22. ASSUME who[d] = u
       PROVE  /\ x \in Seq(M)
              /\ \A s \in T1 : \E i \in DOMAIN x : x[i] = Packet("FORWARD", s)
  <2>1. /\ a \in [1..Len(incoming) -> M] /\ b \in [1..Len(outgoing) -> M]
        /\ e \in [1..Len(fs) -> M]
    BY <1>12, <1>13, <1>14, <1>19, <1>20, <1>22
  <2>2. \A s \in T1 : \E i \in DOMAIN a : a[i] = Packet("FORWARD", s)
    <3>1. \A s \in T1 : \E i \in DOMAIN incoming : incoming[i] = s
      BY <1>20
    <3>2. \A i \in DOMAIN incoming : a[i] = Packet("FORWARD", incoming[i])
      OBVIOUS
    <3>3. DOMAIN a = DOMAIN incoming
      OBVIOUS
    <3> QED
      BY <3>1, <3>2, <3>3
  <2>3. x = (a \o b) \o e
    BY <1>22
  <2> HIDE DEF a, b, e, x
  <2>4. a \in Seq(M) /\ b \in Seq(M) /\ e \in Seq(M)
    BY <1>19, <2>1, IsSeq
  <2> DEFINE ab == a \o b
  <2>5. ab \in Seq(M) /\ \A i \in DOMAIN a : i \in DOMAIN ab /\ ab[i] = a[i]
    BY <2>4, PartOf
  <2>6. x = ab \o e
    BY <2>3
  <2> HIDE DEF ab
  <2>7. /\ ab \o e \in Seq(M)
        /\ \A i \in DOMAIN ab : i \in DOMAIN (ab \o e) /\ (ab \o e)[i] = ab[i]
    BY <2>4, <2>5, PartOf
  <2> QED
    BY <2>2, <2>5, <2>6, <2>7
<1>23. x \in Seq(M)
  <2>1. CASE who[d] = u
    BY <1>22, <2>1
  <2>2. CASE who[d] # u
    BY <2>2, EmptySeq
  <2> QED
    BY <2>1, <2>2
<1> HIDE DEF x, y
<1>24. x \o y \in Seq(M) /\ \A i \in DOMAIN x : i \in DOMAIN (x \o y) /\ (x \o y)[i] = x[i]
  BY <1>21, <1>23, PartOf
<1>25. /\ told[d] \in Seq(M) /\ told[d] \in Seq(Plain)
       /\ who[d] = u =>
            \A s \in T1 : \E i \in DOMAIN told[d] : told[d][i] = Packet("FORWARD", s)
  BY <1>17, <1>18, <1>22, <1>24, SeqMonotonic
<1>26. Hears(d, M)
  BY <1>7, <1>8, <1>17, <1>25, DeliveredHears
<1>27. ASSUME who[d] = u, link[d] = "open", NEW s \in User, requests[<<s, u>>] = "shown"
       PROVE  Has(down'[d], {"FORWARD"}, s)
  <2>1. PICK i \in DOMAIN told[d] : told[d][i] = Packet("FORWARD", s)
    BY <1>17, <1>25, <1>27
  <2>2. \E j \in DOMAIN down'[d] : down'[d][j] = told[d][i]
    BY <1>7, <1>8, <1>25, <1>27, DeliveredFinds
  <2> QED
    BY <2>1, <2>2 DEF Has, Packet
<1>28. connectedUser' = who /\ who[c] = u
  BY <1>2, <1>7 DEF Typed
<1> QED
  BY <1>1, <1>17, <1>26, <1>27, <1>28

\* A login hears of every request that waits.
LEMMA LoginRequestPeople ==
  ASSUME Typed, LoginInv, PeopleInv, NEW c \in Client, LoginRequest(c)
  PROVE  PeopleInv'
<1> DEFINE p == Head(up[c])
           u == p.name
           who == [connectedUser EXCEPT ![c] = u]
<1>1. LoginServed(c)
  BY LoginRequestIs
<1>2. Served(c) /\ p.type \in Logins /\ up[c] # <<>>
  BY <1>1 DEF LoginServed, Served
<1>3. connectedUser[c] = NoName /\ u \in User
  <2>1. Upward(c) /\ p = up[c][1] /\ 1 \in DOMAIN up[c] /\ u \in User
    BY <1>2, HeadUp DEF LoginInv, LoginAt
  <2> QED
    BY <1>2, <2>1 DEF Upward
<1>4. UNCHANGED <<accounts, friends, requests>>
  BY DEF LoginRequest
<1>5. /\ asked' = asked /\ Grows
      /\ \A q \in friends' : <<q[2], q[1]>> \in friends'
      /\ \A s, v \in User :
           requests'[<<s, v>>] # "none" => <<s, v>> \in asked /\ v \in accounts'
  BY <1>2, <1>4 DEF Grows, PeopleInv, AskedInv, Served, history, Misses
<1>6. /\ DueTo(answer'[c], connectedUser'[c], asked, friends')
      /\ answer'[c].type \in ToDo =>
           \A s \in User : requests'[<<s, answer'[c].name>>] # "shown"
  BY <1>1, <1>3, <1>4, <1>5 DEF LoginServed, Outcomes, ToDo, Results, DueTo
<1>7. \A d \in Client \ {c} : connectedUser'[d] = connectedUser[d]
  BY <1>2 DEF Served
<1>8. /\ \/ connectedUser'[c] = connectedUser[c]
         \/ connectedUser[c] = NoName /\ Head(up[c]).type \in Logins
      /\ Head(up[c]).type = "ACCEPT" => <<connectedUser[c], Head(up[c]).name>> \in friends'
  BY <1>2, <1>3 DEF Logins
<1>9. ASSUME \A d \in Client : \E S :
               Hears(d, S) /\ \A q \in S : DueTo(q, connectedUser'[d], asked, friends'),
             \A s \in User :
               connectedUser'[c] \in User /\ requests[<<s, connectedUser'[c]>>] = "shown"
                 /\ link[c] = "open" => Has(down'[c], {"FORWARD"}, s)
      PROVE  PeopleInv'
  <2>1. \A d \in Client, s \in User :
          connectedUser'[d] \in User /\ requests'[<<s, connectedUser'[d]>>] = "shown" =>
            \/ /\ connectedUser'[d] = connectedUser[d]
               /\ requests[<<s, connectedUser[d]>>] = "shown"
               /\ \/ d # c \/ Head(up[c]).name # s
                  \/ Head(up[c]).type \notin {"ACCEPT", "REJECT", "HIDE"}
            \/ link[d] = "open" => Has(down'[d], {"FORWARD"}, s)
    BY <1>4, <1>7, <1>9
  <2> HIDE DEF p, who
  <2> QED
    BY <1>2, <1>5, <1>6, <1>8, <1>9, <2>1, ServedPeople
<1>10. CASE u \notin accounts
  <2>1. Delivered(Nobody) /\ connectedUser'[c] = NoName
    BY <1>3, <1>10 DEF LoginRequest, Handles
  <2>2. \A d \in Client : \E S :
          Hears(d, S) /\ \A q \in S : DueTo(q, connectedUser'[d], asked, friends')
    BY <2>1, NobodyHears
  <2> QED
    BY <1>9, <2>1, <2>2, NamesAssumption
<1>11. CASE u \in accounts
  <2>1. \A d \in Client : \E S :
          Hears(d, S) /\ \A q \in S : DueTo(q, connectedUser'[d], asked, friends)
    BY <1>2, <1>11, LoginHears DEF PeopleInv
  <2>2. \A s \in User :
          connectedUser'[c] \in User /\ requests[<<s, connectedUser'[c]>>] = "shown"
            /\ link[c] = "open" => Has(down'[c], {"FORWARD"}, s)
    BY <1>2, <1>11, LoginHears DEF PeopleInv
  <2> QED
    BY <1>4, <1>9, <2>1, <2>2
<1> QED
  BY <1>10, <1>11

\* What a user sends after the login is served: what holds of its packet, and
\* what it is enough to show of what it makes of the tables and of what is told.
LEMMA RequestPeople ==
  ASSUME Typed, LoginInv, PeopleInv, NEW c \in Client, RequestServed(c), accounts' = accounts,
         friends \subseteq friends', \A p \in friends' : <<p[2], p[1]>> \in friends',
         NEW told, Delivered(told),
         \A d \in Client :
           told[d] \in Seq({q \in Plain : DueTo(q, connectedUser[d], asked, friends')}),
         \A s, u \in User : requests'[<<s, u>>] # "none" => <<s, u>> \in asked /\ u \in accounts,
         DueTo(answer'[c], connectedUser[c], asked, friends'),
         Head(up[c]).type = "ACCEPT" => <<connectedUser[c], Head(up[c]).name>> \in friends',
         \A d \in Client, s \in User :
           connectedUser[d] \in User /\ requests'[<<s, connectedUser[d]>>] = "shown" =>
             \/ /\ requests[<<s, connectedUser[d]>>] = "shown"
                /\ \/ d # c \/ Head(up[c]).name # s
                   \/ Head(up[c]).type \notin {"ACCEPT", "REJECT", "HIDE"}
             \/ \E i \in DOMAIN told[d] : told[d][i] = Packet("FORWARD", s)
  PROVE  PeopleInv'
<1>1. Served(c) /\ connectedUser' = connectedUser
  BY DEF RequestServed
<1>2. Grows
  BY <1>1 DEF Grows, Served, history, Misses
<1>3. ASSUME NEW d \in Client
      PROVE  /\ \E S : Hears(d, S) /\ \A q \in S : DueTo(q, connectedUser'[d], asked, friends')
             /\ told[d] \in Seq(Plain)
  <2>1. PICK S : S = {q \in Plain : DueTo(q, connectedUser[d], asked, friends')}
    OBVIOUS
  <2>2. /\ told[d] \in Seq(S) /\ S \in SUBSET Plain
        /\ \A q \in S : DueTo(q, connectedUser[d], asked, friends')
    BY <2>1
  <2>3. Hears(d, S) /\ told[d] \in Seq(Plain)
    BY <2>2, DeliveredHears, SeqMonotonic
  <2> QED
    BY <1>1, <2>2, <2>3
<1>4. ASSUME NEW d \in Client, NEW s \in User,
             connectedUser'[d] \in User, requests'[<<s, connectedUser'[d]>>] = "shown"
      PROVE  \/ /\ connectedUser'[d] = connectedUser[d]
                /\ requests[<<s, connectedUser[d]>>] = "shown"
                /\ \/ d # c \/ Head(up[c]).name # s
                   \/ Head(up[c]).type \notin {"ACCEPT", "REJECT", "HIDE"}
             \/ link[d] = "open" => Has(down'[d], {"FORWARD"}, s)
  <2>1. CASE \E i \in DOMAIN told[d] : told[d][i] = Packet("FORWARD", s)
    <3>1. PICK i \in DOMAIN told[d] : told[d][i] = Packet("FORWARD", s)
      BY <2>1
    <3>2. ASSUME link[d] = "open" PROVE \E j \in DOMAIN down'[d] : down'[d][j] = told[d][i]
      BY <1>3, <3>2, DeliveredFinds
    <3> QED
      BY <3>1, <3>2 DEF Has, Packet
  <2> QED
    BY <1>1, <1>4, <2>1
<1>5. \A s, u \in User :
        requests'[<<s, u>>] # "none" => <<s, u>> \in asked /\ u \in accounts'
  OBVIOUS
<1>6. /\ DueTo(answer'[c], connectedUser'[c], asked, friends')
      /\ connectedUser'[c] = connectedUser[c] /\ answer'[c].type \notin ToDo
  BY <1>1 DEF RequestServed, Outcomes
<1> QED
  BY <1>1, <1>2, <1>3, <1>4, <1>5, <1>6, ServedPeople

\* What holds of a packet of a user who is logged in.
LEMMA RequestMeans ==
  ASSUME Typed, LoginInv, PeopleInv, NEW c \in Client, up[c] # <<>>,
         Head(up[c]).type \notin Logins
  PROVE  /\ connectedUser[c] \in User /\ Head(up[c]).name \in User
         /\ Head(up[c]).body \in Encrypted
         /\ Means(Head(up[c]), connectedUser[c], asked)
         /\ \A p \in friends : <<p[2], p[1]>> \in friends
         /\ \A s, u \in User :
              requests[<<s, u>>] # "none" => <<s, u>> \in asked /\ u \in accounts
<1>1. /\ Head(up[c]) \in Up /\ Head(up[c]).name \in User
      /\ Head(up[c]) = up[c][1] /\ 1 \in DOMAIN up[c]
  BY HeadUp
<1>2. AskedAt(c) /\ LoginAt(c)
  BY DEF PeopleInv, AskedInv, LoginInv
<1>3. Means(Head(up[c]), connectedUser[c], asked)
  BY <1>1, <1>2 DEF AskedAt
<1>4. connectedUser[c] \in User
  BY <1>2, LoggedIn
<1>5. Head(up[c]).body \in Encrypted
  BY <1>1 DEF Up
<1> QED
  BY <1>1, <1>3, <1>4, <1>5 DEF PeopleInv, AskedInv

\* No answer says nothing.
LEMMA NoAnswerDue ==
  \A u, A, F : DueTo(NoAnswer, u, A, F)
  BY DEF DueTo, NoAnswer, Packet

\* Packets without a text that others are told.
LEMMA ToldPackets ==
  \A n \in User : \A t \in {"FORWARD", "PENDING", "ACCEPT", "REJECT", "ONLINE", "OFFLINE"} :
    Packet(t, n) \in Plain /\ Packet(t, n).type = t /\ Packet(t, n).name = n
<1>1. {"FORWARD", "PENDING", "ACCEPT", "REJECT", "ONLINE", "OFFLINE"}
        \subseteq FromServer \ (Results \cup {"MESSAGE"})
  BY DEF FromServer, Results
<1> QED
  BY <1>1, PacketTypes DEF Calm, Packet

\* A request is told to whom it is for, at each client.
LEMMA FriendRequestSendPeople ==
  ASSUME Typed, LoginInv, PeopleInv, NEW c \in Client, FriendRequestSend(c)
  PROVE  PeopleInv'
<1> DEFINE p == Head(up[c])
           u == connectedUser[c]
<1>1. /\ RequestServed(c) /\ p.type = "ASK" /\ up[c] # <<>>
      /\ UNCHANGED <<accounts, friends, connectedUser>>
  BY FriendRequestSendIs DEF LoginInv, FriendRequestSend, Receives
<1>2. "ASK" \notin Logins /\ "ASK" \notin {"ACCEPT", "REJECT", "HIDE"}
  BY DEF Logins
<1>3. /\ u \in User /\ p.name \in User /\ Means(p, u, asked)
      /\ \A q \in friends : <<q[2], q[1]>> \in friends
      /\ \A s, v \in User :
           requests[<<s, v>>] # "none" => <<s, v>> \in asked /\ v \in accounts
  BY <1>1, <1>2, RequestMeans
<1>4. <<u, p.name>> \in asked
  BY <1>1, <1>3 DEF Means
<1>5. CASE p.name \in accounts
  <2>1. PICK told : told = To(connectedUser, p.name, <<Packet("FORWARD", u)>>)
    OBVIOUS
  <2>2. /\ requests' = [requests EXCEPT ![<<u, p.name>>] = "shown"]
        /\ answer' = [answer EXCEPT ![c] = Packet("PENDING", p.name)] /\ Delivered(told)
    BY <1>5, <2>1 DEF FriendRequestSend, Handles
  <2>3. answer'[c] = Packet("PENDING", p.name)
    BY <2>2 DEF Typed
  <2>4. DueTo(answer'[c], u, asked, friends')
    BY <1>4, <2>3 DEF DueTo, Packet
  <2>5. \A s, v \in User :
          requests'[<<s, v>>] = IF s = u /\ v = p.name THEN "shown" ELSE requests[<<s, v>>]
    BY <1>3, <2>2 DEF Typed
  <2>6. \A s, v \in User : requests'[<<s, v>>] # "none" => <<s, v>> \in asked /\ v \in accounts
    BY <1>3, <1>4, <1>5, <2>5
  <2>7. ASSUME NEW d \in Client
        PROVE  told[d] \in Seq({q \in Plain : DueTo(q, connectedUser[d], asked, friends')})
    <3>1. PICK S : S = {q \in Plain : DueTo(q, connectedUser[d], asked, friends')}
      OBVIOUS
    <3>2. ASSUME connectedUser[d] = p.name PROVE Packet("FORWARD", u) \in S
      BY <1>3, <1>4, <3>1, <3>2, ToldPackets DEF DueTo
    <3>3. told[d] \in Seq(S)
      BY <2>1, <3>2, OneOrTwo, EmptySeq DEF To
    <3> QED
      BY <3>1, <3>3
  <2>8. ASSUME NEW d \in Client, NEW s \in User, connectedUser[d] \in User,
               requests'[<<s, connectedUser[d]>>] = "shown"
        PROVE  \/ requests[<<s, connectedUser[d]>>] = "shown"
               \/ \E i \in DOMAIN told[d] : told[d][i] = Packet("FORWARD", s)
    <3>1. CASE s = u /\ connectedUser[d] = p.name
      <4>1. told[d] = <<Packet("FORWARD", u)>>
        BY <2>1, <3>1 DEF To
      <4>2. 1 \in DOMAIN told[d] /\ told[d][1] = Packet("FORWARD", s)
        BY <3>1, <4>1
      <4> QED
        BY <4>2
    <3> QED
      BY <2>5, <2>8, <3>1
  <2>9. \A d \in Client, s \in User :
          connectedUser[d] \in User /\ requests'[<<s, connectedUser[d]>>] = "shown" =>
            \/ /\ requests[<<s, connectedUser[d]>>] = "shown"
               /\ \/ d # c \/ Head(up[c]).name # s
                  \/ Head(up[c]).type \notin {"ACCEPT", "REJECT", "HIDE"}
            \/ \E i \in DOMAIN told[d] : told[d][i] = Packet("FORWARD", s)
    BY <1>1, <1>2, <2>8
  <2>10. /\ accounts' = accounts /\ friends \subseteq friends'
         /\ \A q \in friends' : <<q[2], q[1]>> \in friends'
         /\ p.type # "ACCEPT"
    BY <1>1, <1>3
  <2> HIDE DEF p
  <2> QED
    BY <1>1, <2>2, <2>4, <2>6, <2>7, <2>9, <2>10, RequestPeople DEF p
<1>6. CASE p.name \notin accounts
  <2>1. PICK told : told = Nobody
    OBVIOUS
  <2>2. /\ answer' = [answer EXCEPT ![c] = Packet("DOES_NOT_EXIST", p.name)]
        /\ Delivered(told) /\ requests' = requests
    BY <1>6, <2>1 DEF FriendRequestSend, Handles
  <2>3. answer'[c] = Packet("DOES_NOT_EXIST", p.name)
    BY <2>2 DEF Typed
  <2>4. DueTo(answer'[c], u, asked, friends')
    BY <2>3 DEF DueTo, Packet
  <2>5. \A d \in Client :
          told[d] \in Seq({q \in Plain : DueTo(q, connectedUser[d], asked, friends')})
    BY <2>1, EmptySeq DEF Nobody
  <2>6. \A d \in Client, s \in User :
          connectedUser[d] \in User /\ requests'[<<s, connectedUser[d]>>] = "shown" =>
            \/ /\ requests[<<s, connectedUser[d]>>] = "shown"
               /\ \/ d # c \/ Head(up[c]).name # s
                  \/ Head(up[c]).type \notin {"ACCEPT", "REJECT", "HIDE"}
            \/ \E i \in DOMAIN told[d] : told[d][i] = Packet("FORWARD", s)
    BY <1>1, <1>2, <2>2
  <2>7. /\ accounts' = accounts /\ friends \subseteq friends'
        /\ \A q \in friends' : <<q[2], q[1]>> \in friends'
        /\ \A s, v \in User : requests'[<<s, v>>] # "none" => <<s, v>> \in asked /\ v \in accounts
        /\ p.type # "ACCEPT"
    BY <1>1, <1>3, <2>2
  <2> HIDE DEF p
  <2> QED
    BY <1>1, <2>2, <2>4, <2>5, <2>6, <2>7, RequestPeople DEF p
<1> QED
  BY <1>5, <1>6

\* An answer takes a request away, or hides it.
LEMMA RequestAnswered ==
  ASSUME Typed, PeopleInv, NEW c \in Client, NEW n \in User, connectedUser[c] \in User,
         n = Head(up[c]).name, NEW k \in {"none", "hidden"},
         requests' = [requests EXCEPT ![<<n, connectedUser[c]>>] = k],
         k # "none" => requests[<<n, connectedUser[c]>>] # "none"
  PROVE  /\ \A s, u \in User :
              requests'[<<s, u>>] # "none" => <<s, u>> \in asked /\ u \in accounts
         /\ \A d \in Client, s \in User :
              connectedUser[d] \in User /\ requests'[<<s, connectedUser[d]>>] = "shown" =>
                /\ requests[<<s, connectedUser[d]>>] = "shown"
                /\ d # c \/ Head(up[c]).name # s
<1>1. \A s, v \in User :
        requests'[<<s, v>>] = IF s = n /\ v = connectedUser[c] THEN k ELSE requests[<<s, v>>]
  BY DEF Typed
<1>2. \A s, u \in User :
        requests[<<s, u>>] # "none" => <<s, u>> \in asked /\ u \in accounts
  BY DEF PeopleInv, AskedInv
<1> QED
  BY <1>1, <1>2

\* A friend is told to both, at each client.
LEMMA AcceptPeople ==
  ASSUME Typed, LoginInv, PeopleInv, NEW c \in Client, Accept(c)
  PROVE  PeopleInv'
<1> DEFINE p == Head(up[c])
           u == connectedUser[c]
<1>1. /\ RequestServed(c) /\ p.type = "ACCEPT" /\ up[c] # <<>>
      /\ UNCHANGED <<accounts, connectedUser>>
      /\ requests' = [requests EXCEPT ![<<p.name, u>>] = "none"]
      /\ friends' = friends \cup {<<p.name, u>>, <<u, p.name>>}
      /\ answer' = [answer EXCEPT ![c] = NoAnswer]
  BY AcceptIs DEF LoginInv, Accept, Handles, Receives
<1>2. /\ u \in User /\ p.name \in User /\ Means(p, u, asked)
      /\ \A q \in friends : <<q[2], q[1]>> \in friends
  BY <1>1, RequestMeans DEF Logins
<1>3. <<p.name, u>> \in asked
  BY <1>1, <1>2 DEF Means
<1>4. PICK here : here = To(connectedUser, u, <<Status(connectedUser, p.name)>>)
  OBVIOUS
<1>5. PICK there : there = To(connectedUser, p.name, <<Packet("ACCEPT", u), Packet("ONLINE", u)>>)
  OBVIOUS
<1>6. PICK told : told = Then(here, there)
  OBVIOUS
<1>7. Delivered(told)
  BY <1>4, <1>5, <1>6 DEF Accept, Handles
<1>8. ASSUME NEW d \in Client
      PROVE  told[d] \in Seq({q \in Plain : DueTo(q, connectedUser[d], asked, friends')})
  <2>1. PICK S : S = {q \in Plain : DueTo(q, connectedUser[d], asked, friends')}
    OBVIOUS
  <2>2. Status(connectedUser, p.name).type \in {"ONLINE", "OFFLINE"}
        /\ Status(connectedUser, p.name).name = p.name /\ Status(connectedUser, p.name) \in Plain
    BY <1>2, PacketTypes DEF Status, Packet, Calm
  <2>3. ASSUME connectedUser[d] = u PROVE Status(connectedUser, p.name) \in S
    BY <1>1, <2>1, <2>2, <2>3 DEF DueTo
  <2>4. ASSUME connectedUser[d] = p.name
        PROVE  Packet("ACCEPT", u) \in S /\ Packet("ONLINE", u) \in S
    BY <1>1, <1>2, <1>3, <2>1, <2>4, ToldPackets DEF DueTo
  <2>5. here[d] \in Seq(S) /\ there[d] \in Seq(S)
    BY <1>4, <1>5, <2>3, <2>4, OneOrTwo, EmptySeq DEF To
  <2>6. told[d] = here[d] \o there[d]
    BY <1>6 DEF Then
  <2>7. told[d] \in Seq(S)
    BY <2>5, <2>6, PartOf
  <2> QED
    BY <2>1, <2>7
<1>9. DueTo(answer'[c], u, asked, friends')
  BY <1>1, NoAnswerDue DEF Typed
<1>10. /\ friends \subseteq friends' /\ \A q \in friends' : <<q[2], q[1]>> \in friends'
       /\ <<u, p.name>> \in friends'
  BY <1>1, <1>2
<1>11. /\ \A s, v \in User :
            requests'[<<s, v>>] # "none" => <<s, v>> \in asked /\ v \in accounts
       /\ \A d \in Client, s \in User :
            connectedUser[d] \in User /\ requests'[<<s, connectedUser[d]>>] = "shown" =>
              /\ requests[<<s, connectedUser[d]>>] = "shown"
              /\ d # c \/ Head(up[c]).name # s
  BY <1>1, <1>2, RequestAnswered
<1> HIDE DEF p
<1> QED
  BY <1>1, <1>7, <1>8, <1>9, <1>10, <1>11, RequestPeople DEF p

\* A refusal is told to whom it refuses.
LEMMA RejectPeople ==
  ASSUME Typed, LoginInv, PeopleInv, NEW c \in Client, Reject(c)
  PROVE  PeopleInv'
<1> DEFINE p == Head(up[c])
           u == connectedUser[c]
<1>1. /\ RequestServed(c) /\ p.type = "REJECT" /\ up[c] # <<>>
      /\ UNCHANGED <<accounts, friends, connectedUser>>
      /\ requests' = [requests EXCEPT ![<<p.name, u>>] = "none"]
      /\ answer' = [answer EXCEPT ![c] = NoAnswer]
  BY RejectIs DEF LoginInv, Reject, Handles, Receives
<1>2. /\ u \in User /\ p.name \in User /\ Means(p, u, asked)
      /\ \A q \in friends : <<q[2], q[1]>> \in friends
  BY <1>1, RequestMeans DEF Logins
<1>3. <<p.name, u>> \in asked
  BY <1>1, <1>2 DEF Means
<1>4. PICK told : told = To(connectedUser, p.name, <<Packet("REJECT", u)>>)
  OBVIOUS
<1>5. Delivered(told)
  BY <1>4 DEF Reject, Handles
<1>6. ASSUME NEW d \in Client
      PROVE  told[d] \in Seq({q \in Plain : DueTo(q, connectedUser[d], asked, friends')})
  <2>1. PICK S : S = {q \in Plain : DueTo(q, connectedUser[d], asked, friends')}
    OBVIOUS
  <2>2. ASSUME connectedUser[d] = p.name PROVE Packet("REJECT", u) \in S
    BY <1>2, <1>3, <2>1, <2>2, ToldPackets DEF DueTo
  <2>3. told[d] \in Seq(S)
    BY <1>4, <2>2, OneOrTwo, EmptySeq DEF To
  <2> QED
    BY <2>1, <2>3
<1>7. DueTo(answer'[c], u, asked, friends')
  BY <1>1, NoAnswerDue DEF Typed
<1>8. /\ \A s, v \in User :
           requests'[<<s, v>>] # "none" => <<s, v>> \in asked /\ v \in accounts
      /\ \A d \in Client, s \in User :
           connectedUser[d] \in User /\ requests'[<<s, connectedUser[d]>>] = "shown" =>
             /\ requests[<<s, connectedUser[d]>>] = "shown"
             /\ d # c \/ Head(up[c]).name # s
  BY <1>1, <1>2, RequestAnswered
<1>9. /\ friends \subseteq friends' /\ \A q \in friends' : <<q[2], q[1]>> \in friends'
      /\ p.type # "ACCEPT"
  BY <1>1, <1>2
<1> HIDE DEF p
<1> QED
  BY <1>1, <1>5, <1>6, <1>7, <1>8, <1>9, RequestPeople DEF p

\* Nobody is told that a request is hidden.
LEMMA HidePeople ==
  ASSUME Typed, LoginInv, PeopleInv, NEW c \in Client, Hide(c)
  PROVE  PeopleInv'
<1> DEFINE p == Head(up[c])
           u == connectedUser[c]
<1>1. /\ RequestServed(c) /\ p.type = "HIDE" /\ up[c] # <<>>
      /\ UNCHANGED <<accounts, friends, connectedUser>>
      /\ requests' = [requests EXCEPT ![<<p.name, u>>] = IF @ = "none" THEN @ ELSE "hidden"]
      /\ answer' = [answer EXCEPT ![c] = NoAnswer]
  BY HideIs DEF LoginInv, Hide, Handles, Receives
<1>2. /\ u \in User /\ p.name \in User
      /\ \A q \in friends : <<q[2], q[1]>> \in friends
  BY <1>1, RequestMeans DEF Logins
<1>3. PICK told : told = Nobody
  OBVIOUS
<1>4. Delivered(told)
  BY <1>3 DEF Hide, Handles
<1>5. \A d \in Client :
        told[d] \in Seq({q \in Plain : DueTo(q, connectedUser[d], asked, friends')})
  BY <1>3, EmptySeq DEF Nobody
<1>6. DueTo(answer'[c], u, asked, friends')
  BY <1>1, NoAnswerDue DEF Typed
<1>7. /\ \A s, v \in User :
           requests'[<<s, v>>] # "none" => <<s, v>> \in asked /\ v \in accounts
      /\ \A d \in Client, s \in User :
           connectedUser[d] \in User /\ requests'[<<s, connectedUser[d]>>] = "shown" =>
             /\ requests[<<s, connectedUser[d]>>] = "shown"
             /\ d # c \/ Head(up[c]).name # s
  <2>1. CASE requests[<<p.name, u>>] = "none"
    <3>1. requests' = [requests EXCEPT ![<<p.name, u>>] = "none"]
      BY <1>1, <2>1
    <3> QED
      BY <1>2, <3>1, RequestAnswered
  <2>2. CASE requests[<<p.name, u>>] # "none"
    <3>1. requests' = [requests EXCEPT ![<<p.name, u>>] = "hidden"]
      BY <1>1, <2>2
    <3> QED
      BY <1>2, <2>2, <3>1, RequestAnswered
  <2> QED
    BY <2>1, <2>2
<1>8. /\ friends \subseteq friends' /\ \A q \in friends' : <<q[2], q[1]>> \in friends'
      /\ p.type # "ACCEPT"
  BY <1>1, <1>2
<1> HIDE DEF p
<1> QED
  BY <1>1, <1>4, <1>5, <1>6, <1>7, <1>8, RequestPeople DEF p

\* A message says nothing of requests and friends.
LEMMA ForwardMessagePeople ==
  ASSUME Typed, LoginInv, PeopleInv, NEW c \in Client, ForwardMessage(c)
  PROVE  PeopleInv'
<1> DEFINE p == Head(up[c])
           u == connectedUser[c]
<1>1. /\ RequestServed(c) /\ p.type = "MESSAGE" /\ up[c] # <<>>
      /\ UNCHANGED <<accounts, friends, requests, connectedUser>>
      /\ answer' = [answer EXCEPT ![c] = NoAnswer]
  BY ForwardMessageIs DEF LoginInv, ForwardMessage, Handles, Receives
<1>2. /\ u \in User /\ p.body \in Encrypted
      /\ \A q \in friends : <<q[2], q[1]>> \in friends
      /\ \A s, v \in User :
           requests[<<s, v>>] # "none" => <<s, v>> \in asked /\ v \in accounts
  BY <1>1, RequestMeans DEF Logins
<1>3. PICK told : told = To(connectedUser, p.name, <<MessagePacket(u, p.body)>>)
  OBVIOUS
<1>4. Delivered(told)
  BY <1>3 DEF ForwardMessage, Handles
<1>5. ASSUME NEW d \in Client
      PROVE  told[d] \in Seq({q \in Plain : DueTo(q, connectedUser[d], asked, friends')})
  <2>1. PICK S : S = {q \in Plain : DueTo(q, connectedUser[d], asked, friends')}
    OBVIOUS
  <2>2. MessagePacket(u, p.body) \in Plain /\ MessagePacket(u, p.body).type = "MESSAGE"
    BY <1>2, PacketTypes DEF MessagePacket
  <2>3. MessagePacket(u, p.body) \in S
    BY <2>1, <2>2 DEF DueTo
  <2>4. told[d] \in Seq(S)
    BY <1>3, <2>3, OneOrTwo, EmptySeq DEF To
  <2> QED
    BY <2>1, <2>4
<1>6. DueTo(answer'[c], u, asked, friends')
  BY <1>1, NoAnswerDue DEF Typed
<1>7. /\ friends \subseteq friends' /\ \A q \in friends' : <<q[2], q[1]>> \in friends'
      /\ p.type \notin {"ACCEPT", "REJECT", "HIDE"}
  BY <1>1, <1>2
<1>8. \A s, v \in User :
        requests'[<<s, v>>] # "none" => <<s, v>> \in asked /\ v \in accounts
  BY <1>1, <1>2
<1>9. \A d \in Client, s \in User :
        connectedUser[d] \in User /\ requests'[<<s, connectedUser[d]>>] = "shown" =>
          requests[<<s, connectedUser[d]>>] = "shown"
  BY <1>1
<1> HIDE DEF p
<1> QED
  BY <1>1, <1>4, <1>5, <1>6, <1>7, <1>8, <1>9, RequestPeople DEF p

\* An answer is sent as it was owed.
LEMMA RespondPeople ==
  ASSUME Typed, LoginInv, PeopleInv, NEW c \in Client, Respond(c)
  PROVE  PeopleInv'
<1>1. /\ answer' = [answer EXCEPT ![c] = NoAnswer]
      /\ UNCHANGED <<serpent, link, up, accounts, friends, requests, connectedUser, missed>>
      /\ asked' = asked /\ spent' = spent
  BY DEF Respond, history
<1>2. Grows /\ asked \subseteq User \X User
  BY <1>1 DEF Grows, PeopleInv, AskedInv
<1>3. ASSUME NEW d \in Client
      PROVE  AskedAt(d)' /\ WaitingAt(d)'
  <2>1. PICK u, S : u = connectedUser[d] /\ S = IF d = c THEN {answer[c]} ELSE {}
    OBVIOUS
  <2>2. Hears(d, S)
    BY <2>1, RespondIs
  <2>3. AskedAt(d) /\ WaitingAt(d)
    BY DEF PeopleInv, AskedInv, WaitingInv
  <2>4. \A p \in S : DueTo(p, u, asked', friends')
    BY <1>1, <2>1, <2>3 DEF AskedAt
  <2>5. DueTo(answer'[d], u, asked', friends') \/ answer'[d] = answer[d]
    BY <1>1, NoAnswerDue DEF Typed
  <2>6. Stays(d) /\ Takes(d) /\ NewUser(d, u) /\ connectedUser'[d] = u
    BY <1>1, <2>1 DEF Stays, Takes, NewUser
  <2>7. AskedAt(d)'
    BY <1>2, <2>2, <2>3, <2>4, <2>5, <2>6, AskedRemains
  <2>8. u \in User => \A s \in User : requests'[<<s, u>>] = "shown" =>
          u = connectedUser[d] /\ requests[<<s, u>>] = "shown" /\ up'[d] = up[d]
    BY <1>1, <2>1
  <2>9. WaitingAt(d)'
    BY <1>2, <2>2, <2>3, <2>6, <2>8, WaitingRemains
  <2> QED
    BY <2>7, <2>9
<1>4. ASSUME NEW d \in Client, Unbroken PROVE BoxesAt(d)'
  <2>1. BoxesAt(d)
    BY <1>4 DEF PeopleInv, BoxesInv
  <2>2. Stays(d) /\ Takes(d) /\ up'[d] = up[d] /\ connectedUser'[d] = connectedUser[d]
    BY <1>1 DEF Stays, Takes
  <2> QED
    BY <1>2, <2>1, <2>2, BoxesRemain
<1>5. Unbroken' => Unbroken
  BY <1>1 DEF Unbroken
<1>6. AskedInv'
  BY <1>1, <1>3 DEF PeopleInv, AskedInv
<1>7. WaitingInv' /\ BoxesInv'
  BY <1>3, <1>4, <1>5 DEF WaitingInv, BoxesInv
<1>8. MissedInv'
  <2>1. \A d \in Client : answer'[d] = answer[d] \/ answer'[d].type \notin ToDo
    BY <1>1, NoAnswerIs DEF Typed, Outcomes
  <2> QED
    BY <1>1, <2>1, MissedSame DEF PeopleInv
<1> QED
  BY <1>6, <1>7, <1>8 DEF PeopleInv

\* The friends of who leaves are told, and nothing is left to say of who left.
LEMMA DisconnectedPeople ==
  ASSUME Typed, LoginInv, PeopleInv, NEW c \in Client, Disconnected(c)
  PROVE  PeopleInv'
<1>1. PICK v : v = connectedUser[c]
  OBVIOUS
<1>2. PICK told : told = ToFriends(connectedUser, v, <<Packet("OFFLINE", v)>>)
  OBVIOUS
<1>3. /\ link[c] = "ended" /\ up[c] = <<>> /\ answer[c] = NoAnswer
      /\ link' = [link EXCEPT ![c] = "closed"]
      /\ connectedUser' = [connectedUser EXCEPT ![c] = NoName]
      /\ Delivered(told)
      /\ UNCHANGED <<serpent, up, accounts, friends, requests, answer, missed>>
      /\ asked' = asked /\ spent' = spent
  BY <1>1, <1>2 DEF Disconnected, history
<1>4. Grows /\ asked \subseteq User \X User /\ \A p \in friends : <<p[2], p[1]>> \in friends
  BY <1>3 DEF Grows, PeopleInv, AskedInv
<1>5. link'[c] = "closed" /\ connectedUser'[c] = NoName
      /\ \A d \in Client \ {c} : link'[d] = link[d] /\ connectedUser'[d] = connectedUser[d]
  BY <1>3 DEF Typed
<1>6. ASSUME NEW d \in Client \ {c}
      PROVE  AskedAt(d)' /\ WaitingAt(d)'
  <2>1. PICK u, S : u = connectedUser[d] /\ S = {p \in Plain : DueTo(p, u, asked, friends)}
    OBVIOUS
  <2>2. <<v, u>> \in friends => Packet("OFFLINE", v) \in S
    <3>1. ASSUME <<v, u>> \in friends PROVE v \in User /\ <<u, v>> \in friends
      BY <1>4, <3>1 DEF Typed
    <3> QED
      BY <2>1, <3>1, ToldPackets DEF DueTo
  <2>3. told[d] \in Seq(S) /\ S \in SUBSET Plain
    BY <1>2, <2>1, <2>2, OneOrTwo, EmptySeq DEF ToFriends
  <2>4. Hears(d, S)
    BY <1>3, <2>3, DeliveredHears
  <2>5. AskedAt(d) /\ WaitingAt(d)
    BY DEF PeopleInv, AskedInv, WaitingInv
  <2>6. \A p \in S : DueTo(p, u, asked', friends')
    BY <1>3, <2>1
  <2>7. Stays(d) /\ Takes(d) /\ NewUser(d, u) /\ connectedUser'[d] = u /\ answer'[d] = answer[d]
    BY <1>3, <1>5, <2>1 DEF Stays, Takes, NewUser
  <2>8. AskedAt(d)'
    BY <1>4, <2>4, <2>5, <2>6, <2>7, AskedRemains
  <2>9. u \in User => \A s \in User : requests'[<<s, u>>] = "shown" =>
          u = connectedUser[d] /\ requests[<<s, u>>] = "shown" /\ up'[d] = up[d]
    BY <1>3, <2>1
  <2>10. WaitingAt(d)'
    BY <1>4, <2>4, <2>5, <2>7, <2>9, WaitingRemains
  <2> QED
    BY <2>8, <2>10
<1>7. AskedAt(c)' /\ WaitingAt(c)'
  <2>1. down[c] = <<>>
    BY <1>3 DEF LoginInv, LoginAt
  <2>2. down'[c] = <<>> /\ DOMAIN down'[c] = {} /\ DOMAIN up'[c] = {}
    BY <1>3, <2>1, DisconnectedIs, EmptySeq DEF Hears
  <2>3. AskedAt(c)
    BY DEF PeopleInv, AskedInv
  <2>4. DueTo(answer'[c], connectedUser'[c], asked', friends')
    BY <1>3, NoAnswerDue
  <2>5. serpent[c].screen = "off" \/ serpent[c].screen = "login" => Blank(serpent[c])
    BY <1>3, <2>3 DEF AskedAt
  <2> QED
    BY <1>3, <1>5, <2>2, <2>4, <2>5 DEF AskedAt, WaitingAt, Blank
<1>8. ASSUME NEW d \in Client, Unbroken PROVE BoxesAt(d)'
  <2>1. BoxesAt(d)
    BY <1>8 DEF PeopleInv, BoxesInv
  <2>2. CASE d # c
    <3>1. Stays(d) /\ Takes(d) /\ up'[d] = up[d] /\ connectedUser'[d] = connectedUser[d]
      BY <1>3, <1>5, <2>2 DEF Stays, Takes
    <3> QED
      BY <1>4, <2>1, <3>1, BoxesRemain
  <2>3. CASE d = c
    <3>1. \A w, n : BefriendedAt(c, w, n) => <<w, n>> \in friends
      BY <1>3 DEF BefriendedAt, Has
    <3> QED
      BY <1>3, <1>5, <2>1, <2>3, <3>1 DEF BoxesAt, BefriendedAt
  <2> QED
    BY <2>2, <2>3
<1>9. Unbroken' => Unbroken
  BY <1>3 DEF Unbroken
<1>10. AskedInv'
  BY <1>3, <1>4, <1>6, <1>7 DEF PeopleInv, AskedInv
<1>11. WaitingInv' /\ BoxesInv'
  BY <1>6, <1>7, <1>8, <1>9 DEF WaitingInv, BoxesInv
<1>12. MissedInv'
  BY <1>3, MissedSame DEF PeopleInv
<1> QED
  BY <1>10, <1>11, <1>12 DEF PeopleInv

\* Whatever the server does.
LEMMA ServePeople ==
  ASSUME Typed, LoginInv, PeopleInv, NEW c \in Client, Serve(c)
  PROVE  PeopleInv'
  BY CreateAccountPeople, CreatesIs, CreatesPeople, LoginRequestPeople, FriendRequestSendPeople, AcceptPeople,
     RejectPeople, HidePeople, ForwardMessagePeople, RespondPeople, DisconnectedPeople DEF Serve

-----------------------------------------------------------------------------
(* What the clients make of requests and friends *)

\* A step of the client of c or of its user, and of no other.
Elsewhere(c) ==
  /\ UNCHANGED serverVars
  /\ asked \subseteq asked' /\ asked' \subseteq User \X User
  /\ \A d \in Client \ {c} :
       /\ serpent'[d] = serpent[d] /\ link'[d] = link[d]
       /\ up'[d] = up[d] /\ down'[d] = down[d]
  /\ Unbroken' => Unbroken

\* Breaks and edits are not uncounted.
LEMMA SpendsIs ==
  ASSUME Typed, NEW what \in {"acts", "edits", "launches", "breaks"}, Spends(what)
  PROVE  /\ Unbroken' => Unbroken
         /\ what \in {"edits", "breaks"} => ~Unbroken'
<1>1. spent \in [{"acts", "edits", "launches", "breaks"} -> Nat]
  BY DEF Typed
<1>2. spent' = [spent EXCEPT ![what] = spent[what] + 1]
  BY DEF Spends
<1>3. /\ spent["breaks"] \in Nat /\ spent["edits"] \in Nat
      /\ spent'["breaks"] = IF what = "breaks" THEN spent["breaks"] + 1 ELSE spent["breaks"]
      /\ spent'["edits"] = IF what = "edits" THEN spent["edits"] + 1 ELSE spent["edits"]
  BY <1>1, <1>2
<1>4. /\ spent.breaks = spent["breaks"] /\ spent.edits = spent["edits"]
      /\ spent'.breaks = spent'["breaks"] /\ spent'.edits = spent'["edits"]
  OBVIOUS
<1> QED
  BY <1>3, <1>4 DEF Unbroken

\* It is enough that what is said at c is as it was said.
LEMMA ClientPeople ==
  ASSUME Typed, PeopleInv, NEW c \in Client, Elsewhere(c),
         AskedAt(c)', WaitingAt(c)', Unbroken' => BoxesAt(c)'
  PROVE  PeopleInv'
<1>1. /\ UNCHANGED <<accounts, friends, requests, connectedUser, answer, missed>>
      /\ asked \subseteq asked' /\ asked' \subseteq User \X User
  BY DEF Elsewhere, serverVars
<1>2. Grows /\ asked \subseteq User \X User
  BY <1>1 DEF Grows
<1>3. ASSUME NEW d \in Client \ {c}
      PROVE  AskedAt(d)' /\ WaitingAt(d)' /\ (Unbroken' => BoxesAt(d)')
  <2>1. PICK u : u = connectedUser[d]
    OBVIOUS
  <2>2. /\ Stays(d) /\ Takes(d) /\ NewUser(d, u) /\ up'[d] = up[d]
        /\ connectedUser'[d] = u /\ answer'[d] = answer[d]
    BY <1>1, <2>1 DEF Elsewhere, Stays, Takes, NewUser
  <2>3. Hears(d, {})
    BY DEF Elsewhere, Hears, Typed
  <2>4. AskedAt(d) /\ WaitingAt(d)
    BY DEF PeopleInv, AskedInv, WaitingInv
  <2>5. AskedAt(d)'
    BY <1>2, <2>2, <2>3, <2>4, AskedRemains
  <2>6. u \in User => \A s \in User : requests'[<<s, u>>] = "shown" =>
          u = connectedUser[d] /\ requests[<<s, u>>] = "shown" /\ up'[d] = up[d]
    BY <1>1, <2>1, <2>2
  <2>7. WaitingAt(d)'
    BY <1>2, <2>2, <2>3, <2>4, <2>6, WaitingRemains
  <2>8. ASSUME Unbroken' PROVE BoxesAt(d)'
    <3>1. BoxesAt(d)
      BY <2>8 DEF Elsewhere, PeopleInv, BoxesInv
    <3> QED
      BY <1>2, <2>1, <2>2, <3>1, BoxesRemain
  <2> QED
    BY <2>5, <2>7, <2>8
<1>4. AskedInv'
  BY <1>1, <1>3 DEF PeopleInv, AskedInv
<1>5. WaitingInv' /\ BoxesInv'
  BY <1>3 DEF WaitingInv, BoxesInv
<1>6. MissedInv'
  BY <1>1, MissedSame DEF PeopleInv
<1> QED
  BY <1>4, <1>5, <1>6 DEF PeopleInv

\* The client of c sends nothing, or a packet that means what it says.
SendsMore(c) ==
  \/ up'[c] = up[c]
  \/ \E p \in Up : up'[c] = Append(up[c], p) /\ Means(p, connectedUser[c], asked')

\* What a sequence had it has when it is longer.
LEMMA MoreHas ==
  ASSUME Typed, asked \subseteq User \X User, NEW c \in Client, SendsMore(c),
         asked \subseteq asked', AskedAt(c)
  PROVE  /\ \A types, n : Has(up[c], types, n) => Has(up'[c], types, n)
         /\ \A i \in DOMAIN up'[c] : Means(up'[c][i], connectedUser[c], asked')
<1> DEFINE u == connectedUser[c]
<1>1. \A i \in DOMAIN up[c] : Means(up[c][i], u, asked')
  BY DEF AskedAt, Means
<1>2. CASE up'[c] = up[c]
  BY <1>1, <1>2 DEF Has
<1>3. CASE \E p \in Up : up'[c] = Append(up[c], p) /\ Means(p, u, asked')
  <2>1. PICK p \in Up : up'[c] = Append(up[c], p) /\ Means(p, u, asked')
    BY <1>3
  <2> DEFINE q == up[c]
             n == Len(q)
  <2>2. q \in Seq(Up) /\ DOMAIN q = 1..n /\ n \in Nat
    BY LenProperties DEF Typed
  <2> HIDE DEF q, n
  <2>3. /\ Append(q, p) \in Seq(Up) /\ Len(Append(q, p)) = Len(q) + 1
        /\ \A i \in 1..Len(q) : Append(q, p)[i] = q[i]
        /\ Append(q, p)[Len(q) + 1] = p
    BY <2>2, AppendProperties
  <2>4. /\ DOMAIN Append(q, p) = 1..(n + 1) /\ Append(q, p)[n + 1] = p
        /\ \A i \in 1..n : Append(q, p)[i] = q[i]
    BY <2>3, LenProperties DEF n
  <2>5. up'[c] = Append(q, p) /\ q = up[c]
    BY <2>1 DEF q
  <2>6. \A i \in DOMAIN q : i \in DOMAIN up'[c] /\ up'[c][i] = q[i]
    BY <2>2, <2>4, <2>5
  <2>7. \A i \in DOMAIN up'[c] : up'[c][i] = p \/ (i \in DOMAIN q /\ up'[c][i] = q[i])
    BY <2>2, <2>4, <2>5
  <2> HIDE DEF u
  <2>8. \A i \in DOMAIN up'[c] : Means(up'[c][i], u, asked')
    BY <1>1, <2>1, <2>5, <2>7
  <2> QED
    BY <2>5, <2>6, <2>8 DEF Has, u
<1> QED
  BY <1>2, <1>3 DEF SendsMore

\* A step that shows nobody else and answers nobody.
LEMMA IdlePeople ==
  ASSUME Typed, PeopleInv, NEW c \in Client, Elsewhere(c),
         SameWidgets(serpent[c], serpent'[c]), serpent'[c].screen = serpent[c].screen,
         link'[c] = link[c], down'[c] = down[c], SendsMore(c)
  PROVE  PeopleInv'
<1>1. /\ UNCHANGED <<accounts, friends, requests, connectedUser, answer, missed>>
      /\ asked \subseteq asked' /\ asked' \subseteq User \X User
  BY DEF Elsewhere, serverVars
<1>2. AskedAt(c) /\ WaitingAt(c) /\ asked \subseteq User \X User
  BY <1>1 DEF PeopleInv, AskedInv, WaitingInv
<1>3. /\ \A types, n : Has(up[c], types, n) => Has(up'[c], types, n)
      /\ \A i \in DOMAIN up'[c] : Means(up'[c][i], connectedUser[c], asked')
  BY <1>1, <1>2, MoreHas
<1>4. /\ serpent'[c].boxes = serpent[c].boxes /\ serpent'[c].friends = serpent[c].friends
      /\ serpent'[c].requestWidgets = serpent[c].requestWidgets
  BY DEF SameWidgets
<1>5. AskedAt(c)'
  <2>1. /\ \A i \in DOMAIN down[c] : DueTo(down[c][i], connectedUser[c], asked', friends)
        /\ DueTo(answer[c], connectedUser[c], asked', friends)
        /\ link[c] = "open" =>
             Invited(serpent[c].requestWidgets, connectedUser[c], asked')
    BY <1>1, <1>2 DEF AskedAt, DueTo, Invited
  <2>2. serpent[c].screen = "off" \/ (serpent[c].screen = "login" /\ link[c] # "open")
          => Blank(serpent[c])
    BY <1>2 DEF AskedAt
  <2> QED
    BY <1>1, <1>3, <1>4, <2>1, <2>2 DEF AskedAt, Blank
<1>6. WaitingAt(c)'
  <2>1. \A s : WaitingFor(c, s) => WaitingFor(c, s)'
    <3> SUFFICES ASSUME NEW s, WaitingFor(c, s) PROVE WaitingFor(c, s)'
      OBVIOUS
    <3>1. Has(up[c], {"ACCEPT", "REJECT", "HIDE"}, s)
            => Has(up'[c], {"ACCEPT", "REJECT", "HIDE"}, s)
      BY <1>3
    <3> QED
      BY <1>4, <3>1 DEF WaitingFor, Has
  <2> QED
    BY <1>1, <1>2, <2>1 DEF WaitingAt
<1>7. ASSUME Unbroken' PROVE BoxesAt(c)'
  <2>1. BoxesAt(c)
    BY <1>7 DEF Elsewhere, PeopleInv, BoxesInv
  <2>2. \A w, n : BefriendedAt(c, w, n) => BefriendedAt(c, w, n)'
    <3> SUFFICES ASSUME NEW w, NEW n, BefriendedAt(c, w, n) PROVE BefriendedAt(c, w, n)'
      OBVIOUS
    <3>1. Has(up[c], {"ACCEPT"}, n) => Has(up'[c], {"ACCEPT"}, n)
      BY <1>3
    <3> QED
      BY <1>1, <3>1 DEF BefriendedAt, Has
  <2> QED
    BY <1>1, <1>4, <2>1, <2>2 DEF BoxesAt
<1> QED
  BY <1>5, <1>6, <1>7, ClientPeople

\* A step is of c only, when the bounds it spends are counted.
LEMMA ElsewhereIs ==
  ASSUME Typed, PeopleInv, NEW c \in Client, UNCHANGED serverVars, NEW t, Becomes(c, t),
         \A d \in Client \ {c} : link'[d] = link[d] /\ up'[d] = up[d] /\ down'[d] = down[d],
         UNCHANGED history \/ \E what \in {"acts", "edits", "launches", "breaks"} : Spends(what),
         asked' = asked \/ \E n \in User : connectedUser[c] \in User
                                           /\ asked' = asked \cup {<<connectedUser[c], n>>}
  PROVE  /\ Elsewhere(c) /\ serpent'[c] = t
         /\ UNCHANGED <<accounts, friends, requests, connectedUser, answer, missed>>
         /\ asked \subseteq asked' /\ asked' \subseteq User \X User
<1>1. serpent'[c] = t /\ \A d \in Client \ {c} : serpent'[d] = serpent[d]
  BY DEF Typed, Becomes
<1>2. asked \subseteq asked' /\ asked' \subseteq User \X User
  BY DEF PeopleInv, AskedInv
<1>3. Unbroken' => Unbroken
  BY SpendsIs DEF Unbroken, history
<1> QED
  BY <1>1, <1>2, <1>3 DEF Elsewhere, serverVars

\* What is sent to the server is sent last.
LEMMA SendsIs ==
  ASSUME Typed, NEW c \in Client, NEW p \in Up, Sends(c, p),
         Means(p, connectedUser[c], asked')
  PROVE  /\ SendsMore(c) /\ UNCHANGED <<link, down>>
         /\ \A d \in Client \ {c} : link'[d] = link[d] /\ up'[d] = up[d] /\ down'[d] = down[d]
  BY DEF Typed, Sends, SendsMore

\* What is no request and no answer to one means nothing.
LEMMA MeansNothing ==
  ASSUME NEW p, p.type \notin {"ASK", "ACCEPT", "REJECT"}
  PROVE  \A u, A : Means(p, u, A)
  BY DEF Means

\* Steps that show nobody else: choices, a codebook, a form, a message, a request.
LEMMA IdleStepPeople ==
  ASSUME Typed, LoginInv, PeopleInv, NEW c \in Client,
         \/ \E n \in User : Quietly(SelectFriend(c, n))
         \/ \E b \in BookName : Quietly(SelectCodebook(c, b))
         \/ \E b \in BookName, k \in Keyword : MakeCodebook(c, b, k)
         \/ Quietly(DismissMessageBox(c))
         \/ Quietly(swapLoginPurpose(c))
         \/ \E u \in User : Edit(c, u)
         \/ \E u \in User : Quietly(login(c, u))
         \/ Write(c)
         \/ \E n \in User : Ask(c, n)
  PROVE  PeopleInv'
<1> DEFINE s == serpent[c]
<1>1. Sound(s)
  BY DEF Typed
<1>2. ASSUME UNCHANGED <<link, up, down>>, UNCHANGED serverVars, asked' = asked,
             UNCHANGED history \/ Spends("acts") \/ Spends("edits"),
             NEW t, Becomes(c, t), SameWidgets(s, t), t.screen = s.screen
      PROVE  PeopleInv'
  <2> HIDE DEF s
  <2>1. Elsewhere(c) /\ serpent'[c] = t
    BY <1>2, ElsewhereIs
  <2> QED
    BY <1>2, <2>1, IdlePeople DEF SendsMore, s
<1>3. CASE \E n \in User : Quietly(SelectFriend(c, n))
  <2>1. PICK n \in User : Quietly(SelectFriend(c, n))
    BY <1>3
  <2> DEFINE t == queryFriendMessages(s, n)
  <2>2. SameWidgets(s, t) /\ Silent(s, t)
    BY <1>1, SlotsSameWidgets, QuerySilent
  <2>3. Becomes(c, t) /\ UNCHANGED <<link, up, down, serverVars, history>>
    BY <2>1 DEF Quietly, SelectFriend
  <2> HIDE DEF t, s
  <2> QED
    BY <1>2, <2>2, <2>3 DEF Silent, SameLogin, history
<1>4. CASE \E b \in BookName : Quietly(SelectCodebook(c, b))
  <2>1. PICK b \in BookName : Quietly(SelectCodebook(c, b))
    BY <1>4
  <2> DEFINE t == [s EXCEPT !.current = b]
  <2>2. SameWidgets(s, t) /\ t.screen = s.screen
    BY <1>1, SlotsSameWidgets DEF Sound, Programs
  <2>3. Becomes(c, t) /\ UNCHANGED <<link, up, down, serverVars, history>>
    BY <2>1 DEF Quietly, SelectCodebook
  <2> HIDE DEF t, s
  <2> QED
    BY <1>2, <2>2, <2>3 DEF history
<1>5. CASE \E b \in BookName, k \in Keyword : MakeCodebook(c, b, k)
  <2>1. PICK b \in BookName, k \in Keyword : MakeCodebook(c, b, k)
    BY <1>5
  <2> DEFINE t == addNewCodebook(s, b, k)
  <2>2. SameWidgets(s, t) /\ Silent(s, t)
    BY <1>1, SlotsSameWidgets, BooksSilent
  <2>3. Becomes(c, t) /\ UNCHANGED <<link, up, down, serverVars, asked>> /\ Spends("acts")
    BY <2>1 DEF MakeCodebook, Acts, CreateCodebook
  <2> HIDE DEF t, s
  <2> QED
    BY <1>2, <2>2, <2>3 DEF Silent, SameLogin
<1>6. CASE Quietly(DismissMessageBox(c))
  <2> DEFINE t == [s EXCEPT !.modal = FALSE]
  <2>1. SameWidgets(s, t) /\ t.screen = s.screen
    BY <1>1, SlotsSameWidgets DEF Sound, Programs
  <2>2. Becomes(c, t) /\ UNCHANGED <<link, up, down, serverVars, history>>
    BY <1>6 DEF Quietly, DismissMessageBox
  <2> HIDE DEF t, s
  <2> QED
    BY <1>2, <2>1, <2>2 DEF history
<1>7. CASE Quietly(swapLoginPurpose(c))
  <2> DEFINE t == [s EXCEPT !.creating_account = ~s.creating_account]
  <2>1. SameWidgets(s, t) /\ t.screen = s.screen
    BY <1>1 DEF Sound, Programs, SameWidgets
  <2>2. Becomes(c, t) /\ UNCHANGED <<link, up, down, serverVars, history>>
    BY <1>7 DEF Quietly, swapLoginPurpose
  <2> HIDE DEF t, s
  <2> QED
    BY <1>2, <2>1, <2>2 DEF history
<1>8. CASE \E u \in User : Edit(c, u)
  <2>1. PICK u \in User : Edit(c, u)
    BY <1>8
  <2> DEFINE t == [s EXCEPT !.username = u]
  <2>2. SameWidgets(s, t) /\ t.screen = s.screen
    BY <1>1 DEF Sound, Programs, SameWidgets
  <2>3. Becomes(c, t) /\ UNCHANGED <<link, up, down, serverVars, asked>> /\ Spends("edits")
    BY <2>1 DEF Edit, EditUsername
  <2> HIDE DEF t, s
  <2> QED
    BY <1>2, <2>2, <2>3
<1>9. CASE \E u \in User : Quietly(login(c, u))
  <2>1. PICK u \in User : Quietly(login(c, u))
    BY <1>9
  <2> DEFINE t == [s EXCEPT !.username = u, !.waiting = TRUE]
             p == Packet(IF s.creating_account THEN "CREATE_ACCOUNT" ELSE "LOGIN_REQUEST", u)
  <2>2. SameWidgets(s, t) /\ t.screen = s.screen
    BY <1>1 DEF Sound, Programs, SameWidgets
  <2>3. /\ Becomes(c, t) /\ Sends(c, p) /\ UNCHANGED <<serverVars, history, asked>>
    BY <2>1 DEF Quietly, login, history
  <2>4. p \in Up /\ p.type \notin {"ASK", "ACCEPT", "REJECT"}
    <3>1. {"CREATE_ACCOUNT", "LOGIN_REQUEST"} \subseteq ToServer
      BY DEF ToServer
    <3> QED
      BY <3>1, PacketTypes DEF Packet
  <2> HIDE DEF t, p, s
  <2>5. /\ SendsMore(c) /\ UNCHANGED <<link, down>>
        /\ \A d \in Client \ {c} : link'[d] = link[d] /\ up'[d] = up[d] /\ down'[d] = down[d]
    BY <2>3, <2>4, MeansNothing, SendsIs
  <2>6. Elsewhere(c) /\ serpent'[c] = t
    BY <2>3, <2>5, ElsewhereIs
  <2> QED
    BY <2>2, <2>5, <2>6, IdlePeople DEF s
<1>10. CASE Write(c)
  <2> DEFINE n == s.queried_friend
             m == Len(posted) + 1
             k == current_codebook(s)
             p == MessagePacket(n, [text |-> m, book |-> k])
             t == insertMessage(s, m, TRUE, n)
  <2>1. p \in Up /\ n \in User
    BY <1>10, WriteIs
  <2>2. /\ Becomes(c, t) /\ Sends(c, p) /\ UNCHANGED <<serverVars, asked>> /\ Spends("acts")
    BY <1>10 DEF Write, Acts, SendButton, encrypt
  <2>3. p.type \notin {"ASK", "ACCEPT", "REJECT"} /\ m \in Nat
    BY LenProperties DEF MessagePacket, Typed
  <2> HIDE DEF p, m, n
  <2>4. SameWidgets(s, t) /\ SameLogin(s, t)
    BY <1>1, <2>1, <2>3, SlotsSameWidgets, InsertMessageIs
  <2> HIDE DEF t, s
  <2>5. /\ SendsMore(c) /\ UNCHANGED <<link, down>>
        /\ \A d \in Client \ {c} : link'[d] = link[d] /\ up'[d] = up[d] /\ down'[d] = down[d]
    BY <2>1, <2>2, <2>3, MeansNothing, SendsIs
  <2>6. Elsewhere(c) /\ serpent'[c] = t
    BY <2>2, <2>5, ElsewhereIs
  <2> QED
    BY <2>4, <2>5, <2>6, IdlePeople DEF s, SameLogin
<1>11. CASE \E n \in User : Ask(c, n)
  <2>1. PICK n \in User : Ask(c, n)
    BY <1>11
  <2> DEFINE p == Packet("ASK", n)
             u == connectedUser[c]
  <2>2. /\ Sends(c, p) /\ UNCHANGED <<serpent, serverVars>> /\ Spends("acts")
        /\ asked' = asked \cup {<<u, n>>} /\ s.screen = "main"
    BY <2>1 DEF Ask, Acts, createFriendRequest, At
  <2>3. u \in User
    BY <2>2 DEF LoginInv, LoginAt, After
  <2>4. p \in Up /\ Means(p, u, asked')
    <3>1. "ASK" \in ToServer
      BY DEF ToServer
    <3> QED
      BY <2>2, <3>1, PacketTypes DEF Means, Packet
  <2>5. Becomes(c, s) /\ SameWidgets(s, s)
    BY <2>2 DEF Becomes, Typed, SameWidgets
  <2> HIDE DEF p, s
  <2>6. /\ SendsMore(c) /\ UNCHANGED <<link, down>>
        /\ \A d \in Client \ {c} : link'[d] = link[d] /\ up'[d] = up[d] /\ down'[d] = down[d]
    BY <2>2, <2>4, SendsIs
  <2>7. Elsewhere(c) /\ serpent'[c] = s
    BY <2>1, <2>2, <2>3, <2>5, <2>6, ElsewhereIs
  <2> QED
    BY <2>5, <2>6, <2>7, IdlePeople DEF s
<1> QED
  BY <1>3, <1>4, <1>5, <1>6, <1>7, <1>8, <1>9, <1>10, <1>11

\* Who sends last what is sent has it there.
LEMMA SentHas ==
  ASSUME Typed, NEW c \in Client, NEW p \in Up, link[c] = "open", Sends(c, p), NEW types,
         p.type \in types
  PROVE  Has(up'[c], types, p.name)
<1> DEFINE q == up[c]
           n == Len(q)
<1>1. q \in Seq(Up) /\ n \in Nat
  BY LenProperties DEF Typed
<1>2. up'[c] = Append(q, p)
  BY DEF Sends, Typed
<1> HIDE DEF q
<1>3. /\ Append(q, p) \in Seq(Up) /\ Len(Append(q, p)) = n + 1
      /\ Append(q, p)[n + 1] = p
  BY <1>1, AppendProperties
<1> HIDE DEF n
<1>4. n + 1 \in DOMAIN Append(q, p)
  BY <1>1, <1>3, LenProperties
<1> QED
  BY <1>2, <1>3, <1>4 DEF Has

\* What a client adds is of friends, or of those its user has just accepted.
LEMMA BoxesGrow ==
  ASSUME NEW c \in Client, NEW t, serpent'[c] = t, BoxesAt(c), link[c] = "open",
         connectedUser'[c] = connectedUser[c], friends' = friends,
         \A m : Has(up[c], {"ACCEPT"}, m) => Has(up'[c], {"ACCEPT"}, m),
         NEW N, \A m \in N : <<connectedUser[c], m>> \in friends \/ Has(up'[c], {"ACCEPT"}, m),
         \A b \in t.boxes : b.name \in N \/ \E d \in serpent[c].boxes : d.name = b.name,
         \A i \in DOMAIN t.friends \ DOMAIN serpent[c].friends :
           t.friends[i].friend_name \in N /\ t.friends[i].user \in {connectedUser[c], NoName},
         \A i \in DOMAIN serpent[c].friends : t.friends[i] = serpent[c].friends[i]
  PROVE  BoxesAt(c)'
<1> DEFINE s == serpent[c]
           u == connectedUser[c]
           Was(w, m) == <<w, m>> \in friends \/ (w = u /\ Has(up[c], {"ACCEPT"}, m))
           Is(w, m) == <<w, m>> \in friends' \/ (w = connectedUser'[c] /\ Has(up'[c], {"ACCEPT"}, m))
<1>1. \A w, m : Was(w, m) => Is(w, m)
  OBVIOUS
<1>2. \A m \in N : Is(u, m)
  OBVIOUS
<1>3. /\ \A b \in s.boxes : Was(u, b.name)
      /\ \A i \in DOMAIN s.friends :
           s.friends[i].user # NoName => Was(s.friends[i].user, s.friends[i].friend_name)
  BY DEF BoxesAt, BefriendedAt
<1>4. \A b \in t.boxes : Is(u, b.name)
  BY <1>1, <1>2, <1>3
<1>5. \A i \in DOMAIN t.friends :
        t.friends[i].user # NoName => Is(t.friends[i].user, t.friends[i].friend_name)
  <2> SUFFICES ASSUME NEW i \in DOMAIN t.friends, t.friends[i].user # NoName
               PROVE  Is(t.friends[i].user, t.friends[i].friend_name)
    OBVIOUS
  <2>1. CASE i \in DOMAIN s.friends
    BY <1>1, <1>3, <2>1
  <2>2. CASE i \notin DOMAIN s.friends
    BY <1>2, <2>2
  <2> QED
    BY <2>1, <2>2
<1>6. \A b \in serpent'[c].boxes : Is(connectedUser'[c], b.name)
  BY <1>4
<1>7. \A i \in DOMAIN serpent'[c].friends :
        serpent'[c].friends[i].user # NoName =>
          Is(serpent'[c].friends[i].user, serpent'[c].friends[i].friend_name)
  BY <1>5
<1> QED
  BY <1>6, <1>7 DEF BoxesAt, BefriendedAt, Has

\* An answer takes its entry away, and who is accepted is shown before the
\* server knows.
LEMMA DecidePeople ==
  ASSUME Typed, LoginInv, PeopleInv, NEW c \in Client, NEW n \in User, Decide(c, n)
  PROVE  PeopleInv'
<1> DEFINE s == serpent[c]
           u == connectedUser[c]
           w == s.requestWidgets
<1>1. PICK r \in {"ACCEPT", "REJECT", "HIDE"} : Answer(c, n, r)
  BY DEF Decide, Acts
<1>2. PICK q : q = IF r = "ACCEPT" THEN insertFriend(s, n) ELSE s
  OBVIOUS
<1>3. PICK t : t = removeRequest(q, n)
  OBVIOUS
<1>4. PICK p : p = Packet(r, n)
  OBVIOUS
<1>5. /\ s.screen = "main" /\ w[n] = "buttons" /\ Sends(c, p) /\ Becomes(c, t)
      /\ UNCHANGED <<serverVars, asked>> /\ Spends("acts")
  BY <1>1, <1>2, <1>3, <1>4 DEF Decide, Acts, Answer, At
<1>6. Sound(s) /\ Silent(s, s)
  BY SoundFields DEF Typed, Silent, Keeps, SameLogin
<1>7. /\ link[c] = "open" /\ u \in User
      /\ spent.edits = 0 => s.logged_in_user = u
  BY <1>5 DEF LoginInv, LoginAt, After
<1>8. p \in Up /\ p.type = r /\ p.name = n
  <2>1. {"ACCEPT", "REJECT", "HIDE"} \subseteq ToServer
    BY DEF ToServer
  <2> QED
    BY <1>4, <2>1, PacketTypes DEF Packet
<1>9. AskedAt(c) /\ WaitingAt(c) /\ asked \subseteq User \X User
  BY DEF PeopleInv, AskedInv, WaitingInv
<1>10. Invited(w, u, asked)
  BY <1>7, <1>9 DEF AskedAt
<1>11. Means(p, u, asked')
  BY <1>5, <1>8, <1>10 DEF Means, Invited
<1> HIDE DEF u
<1>12. /\ SendsMore(c) /\ UNCHANGED <<link, down>>
       /\ \A d \in Client \ {c} : link'[d] = link[d] /\ up'[d] = up[d] /\ down'[d] = down[d]
  BY <1>5, <1>8, <1>11, SendsIs DEF u
<1>13. /\ Elsewhere(c) /\ serpent'[c] = t
       /\ UNCHANGED <<accounts, friends, requests, connectedUser, answer, missed>>
       /\ asked \subseteq asked'
  BY <1>5, <1>12, ElsewhereIs
<1>14. /\ \A types, m : Has(up[c], types, m) => Has(up'[c], types, m)
       /\ \A i \in DOMAIN up'[c] : Means(up'[c][i], u, asked')
  BY <1>9, <1>12, <1>13, MoreHas DEF u
<1>15. /\ Silent(s, q) /\ q.requestWidgets = w
       /\ Adds(s, q, IF r = "ACCEPT" THEN {n} ELSE {})
  <2>1. Adds(s, s, {})
    BY DEF Adds
  <2> QED
    BY <1>2, <1>6, <2>1, InsertFriendSilent, InsertFriendAdds
<1>16. /\ t.boxes = q.boxes /\ t.friends = q.friends
       /\ t.requestWidgets = [q.requestWidgets EXCEPT ![n] = "none"] /\ SameLogin(q, t)
  BY <1>3, <1>15, RemoveRequestIs, RequestsSilent DEF Silent
<1>17. /\ \A m \in User : t.requestWidgets[m] = IF m = n THEN "none" ELSE w[m]
       /\ t.screen = "main"
  BY <1>5, <1>6, <1>15, <1>16, SoundFields DEF Silent, SameLogin
<1>18. AskedAt(c)'
  <2>1. Invited(t.requestWidgets, u, asked)
    BY <1>10, <1>17 DEF Invited
  <2>2. /\ \A i \in DOMAIN down[c] : DueTo(down[c][i], u, asked, friends)
        /\ DueTo(answer[c], u, asked, friends)
    BY <1>9 DEF AskedAt, u
  <2> QED
    BY <1>5, <1>12, <1>13, <1>14, <1>17, <2>1, <2>2 DEF AskedAt, u
<1>19. WaitingAt(c)'
  <2>1. ASSUME NEW m \in User, WaitingFor(c, m) PROVE WaitingFor(c, m)'
    <3>1. CASE m = n
      <4>1. Has(up'[c], {"ACCEPT", "REJECT", "HIDE"}, m)
        BY <1>5, <1>7, <1>8, <3>1, SentHas
      <4> QED
        BY <4>1 DEF WaitingFor, Has
    <3>2. CASE m # n
      <4>1. Has(up[c], {"ACCEPT", "REJECT", "HIDE"}, m)
              => Has(up'[c], {"ACCEPT", "REJECT", "HIDE"}, m)
        BY <1>14
      <4>2. serpent'[c].requestWidgets[m] = serpent[c].requestWidgets[m] /\ down'[c] = down[c]
        BY <1>12, <1>13, <1>17, <3>2
      <4> QED
        BY <2>1, <4>1, <4>2 DEF WaitingFor, Has
    <3> QED
      BY <3>1, <3>2
  <2> QED
    BY <1>5, <1>9, <1>12, <1>13, <2>1 DEF WaitingAt
<1>20. ASSUME Unbroken' PROVE BoxesAt(c)'
  <2>1. BoxesAt(c) /\ Unbroken
    BY <1>13, <1>20 DEF Elsewhere, PeopleInv, BoxesInv
  <2>2. spent.edits = 0
    <3>1. spent.edits \in Nat /\ spent.breaks \in Nat
      BY DEF Typed
    <3> QED
      BY <2>1, <3>1 DEF Unbroken
  <2>3. PICK N : N = IF r = "ACCEPT" THEN {n} ELSE {}
    OBVIOUS
  <2>4. \A m \in N : Has(up'[c], {"ACCEPT"}, m)
    BY <1>5, <1>7, <1>8, <2>3, SentHas
  <2>5. /\ \A b \in t.boxes : b.name \in N \/ \E d \in s.boxes : d.name = b.name
        /\ \A i \in DOMAIN t.friends \ DOMAIN s.friends :
             t.friends[i].friend_name \in N /\ t.friends[i].user = u
        /\ \A i \in DOMAIN s.friends : t.friends[i] = s.friends[i]
    BY <1>7, <1>15, <1>16, <2>2, <2>3 DEF Adds, Silent, Keeps
  <2>6. \A m : Has(up[c], {"ACCEPT"}, m) => Has(up'[c], {"ACCEPT"}, m)
    BY <1>14
  <2> QED
    BY <1>7, <1>13, <2>1, <2>4, <2>5, <2>6, BoxesGrow DEF u
<1> QED
  BY <1>13, <1>18, <1>19, <1>20, ClientPeople

\* A client that has no connection shows nobody, except behind its error screen.
LEMMA AwayPeople ==
  ASSUME Typed, PeopleInv, NEW c \in Client, Elsewhere(c), asked' = asked,
         link'[c] # "open", down'[c] \in {down[c], <<>>},
         up'[c] = up[c] \/ (up'[c] = <<>> /\ ~Unbroken'),
         serpent'[c].friends = serpent[c].friends,
         serpent'[c].screen \in {"off", "login"} => Blank(serpent'[c])
  PROVE  PeopleInv'
<1>1. UNCHANGED <<accounts, friends, requests, connectedUser, answer, missed>>
  BY DEF Elsewhere, serverVars
<1>2. AskedAt(c)
  BY DEF PeopleInv, AskedInv
<1>3. DOMAIN <<>> = {}
  BY EmptySeq
<1>4. AskedAt(c)'
  <2>1. /\ \A i \in DOMAIN up'[c] : Means(up'[c][i], connectedUser[c], asked)
        /\ \A i \in DOMAIN down'[c] : DueTo(down'[c][i], connectedUser[c], asked, friends)
        /\ DueTo(answer[c], connectedUser[c], asked, friends)
    BY <1>2, <1>3 DEF AskedAt
  <2> QED
    BY <1>1, <2>1 DEF AskedAt, Blank
<1>5. WaitingAt(c)'
  BY DEF WaitingAt
<1>6. ASSUME Unbroken' PROVE BoxesAt(c)'
  <2>1. BoxesAt(c) /\ up'[c] = up[c]
    BY <1>6 DEF Elsewhere, PeopleInv, BoxesInv
  <2> QED
    BY <1>1, <2>1 DEF BoxesAt, BefriendedAt, Has
<1> QED
  BY <1>4, <1>5, <1>6, ClientPeople

\* Clients start, connect, fail to, lose their connections and close: whoever is
\* shown is shown no more, or all that may be was.
LEMMA ComingPeople ==
  ASSUME Typed, LoginInv, PeopleInv, NEW c \in Client,
         Start(c) \/ Quietly(Connected(c)) \/ Refuse(c) \/ Break(c) \/ Quietly(CloseWindow(c))
  PROVE  PeopleInv'
<1> DEFINE s == serpent[c]
<1>1. Sound(s) /\ LoginAt(c) /\ AskedAt(c)
  BY DEF Typed, LoginInv, PeopleInv, AskedInv
<1>2. ASSUME NEW x \in {"off", "login", "error"}
      PROVE  LET t == [s EXCEPT !.screen = x]
             IN SameWidgets(s, t) /\ t.screen = x
  BY <1>1 DEF Sound, Programs, SameWidgets
<1>3. DOMAIN <<>> = {}
  BY EmptySeq
<1>4. CASE Start(c)
  <2> DEFINE t == [s EXCEPT !.screen = "login"]
  <2>1. /\ s.screen = "off" /\ Becomes(c, t) /\ UNCHANGED <<link, up, down, serverVars, asked>>
        /\ Spends("launches")
    BY <1>4 DEF Start, Comes, Launch
  <2>2. SameWidgets(s, t) /\ t.screen = "login"
    BY <1>2
  <2> HIDE DEF t
  <2>3. Elsewhere(c) /\ serpent'[c] = t
    BY <2>1, ElsewhereIs
  <2>4. link[c] # "open" /\ Blank(s)
    BY <1>1, <2>1 DEF LoginAt, AskedAt
  <2> QED
    BY <2>1, <2>2, <2>3, <2>4, AwayPeople DEF SameWidgets, Blank
<1>5. CASE Quietly(Connected(c))
  <2>1. /\ s.screen = "login" /\ link[c] = "closed" /\ link' = [link EXCEPT ![c] = "open"]
        /\ UNCHANGED <<serpent, up, down, serverVars, history, asked>>
    BY <1>5 DEF Quietly, Connected, history
  <2>2. Becomes(c, s)
    BY <2>1 DEF Becomes, Typed
  <2>3. \A d \in Client \ {c} : link'[d] = link[d]
    BY <2>1 DEF Typed
  <2>4. Elsewhere(c) /\ serpent'[c] = s
        /\ UNCHANGED <<accounts, friends, requests, connectedUser, answer, missed>>
    BY <2>1, <2>2, <2>3, ElsewhereIs
  <2>5. connectedUser[c] = NoName /\ Blank(s)
    BY <1>1, <2>1 DEF LoginAt, AskedAt
  <2>6. AskedAt(c)'
    <3>1. Invited(s.requestWidgets, connectedUser[c], asked)
      BY <2>5 DEF Blank, Invited
    <3> QED
      BY <1>1, <2>1, <2>4, <2>5, <3>1 DEF AskedAt, Blank
  <2>7. WaitingAt(c)'
    BY <2>4, <2>5, NamesAssumption DEF WaitingAt
  <2>8. ASSUME Unbroken' PROVE BoxesAt(c)'
    <3>1. BoxesAt(c)
      BY <2>4, <2>8 DEF Elsewhere, PeopleInv, BoxesInv
    <3> QED
      BY <2>1, <2>4, <2>5, <3>1 DEF BoxesAt, BefriendedAt, Blank
  <2> QED
    BY <2>4, <2>6, <2>7, <2>8, ClientPeople
<1>6. CASE Refuse(c)
  <2> DEFINE t == [s EXCEPT !.screen = "error"]
  <2>1. /\ link[c] = "closed" /\ Becomes(c, t) /\ UNCHANGED <<link, up, down, serverVars, asked>>
        /\ Spends("breaks")
    BY <1>6 DEF Refuse, Comes, ConnectionRefused, showError
  <2>2. SameWidgets(s, t) /\ t.screen = "error"
    BY <1>2
  <2> HIDE DEF t
  <2>3. Elsewhere(c) /\ serpent'[c] = t
    BY <2>1, ElsewhereIs
  <2> QED
    BY <2>1, <2>2, <2>3, AwayPeople DEF SameWidgets
<1>7. CASE Break(c)
  <2> DEFINE t == [s EXCEPT !.screen = "error"]
  <2>1. /\ Becomes(c, t) /\ link' = [link EXCEPT ![c] = "ended"]
        /\ up' = [up EXCEPT ![c] = <<>>] /\ down' = [down EXCEPT ![c] = <<>>]
        /\ UNCHANGED <<serverVars, asked>> /\ Spends("breaks")
    BY <1>7 DEF Break, Comes, ErrorOccurred, showError
  <2>2. SameWidgets(s, t) /\ t.screen = "error"
    BY <1>2
  <2> HIDE DEF t
  <2>3. /\ link'[c] = "ended" /\ up'[c] = <<>> /\ down'[c] = <<>>
        /\ \A d \in Client \ {c} : link'[d] = link[d] /\ up'[d] = up[d] /\ down'[d] = down[d]
    BY <2>1 DEF Typed
  <2>4. Elsewhere(c) /\ serpent'[c] = t
    BY <2>1, <2>3, ElsewhereIs
  <2>5. ~Unbroken'
    BY <2>1, SpendsIs
  <2> QED
    BY <2>1, <2>2, <2>3, <2>4, <2>5, AwayPeople DEF SameWidgets
<1>8. CASE Quietly(CloseWindow(c))
  <2> DEFINE t == Off(s)
  <2>1. /\ Becomes(c, t) /\ link' = [link EXCEPT ![c] = IF @ = "open" THEN "ended" ELSE @]
        /\ down' = [down EXCEPT ![c] = <<>>] /\ UNCHANGED <<up, serverVars, history, asked>>
    BY <1>8 DEF Quietly, CloseWindow, history
  <2>2. t.friends = s.friends /\ Blank(t)
    BY DEF Off, Blank
  <2> HIDE DEF t
  <2>3. /\ link'[c] # "open" /\ down'[c] = <<>>
        /\ \A d \in Client \ {c} : link'[d] = link[d] /\ up'[d] = up[d] /\ down'[d] = down[d]
    BY <2>1 DEF Typed
  <2>4. Elsewhere(c) /\ serpent'[c] = t
    BY <2>1, <2>3, ElsewhereIs
  <2> QED
    BY <2>1, <2>2, <2>3, <2>4, AwayPeople
<1> QED
  BY <1>4, <1>5, <1>6, <1>7, <1>8

\* A packet about a person is read: it says what is so.
LEMMA ReadPlainPeople ==
  ASSUME Typed, LoginInv, PeopleInv, NEW c \in Client, Quietly(ReadyRead(c)),
         Head(down[c]).type \notin Results
  PROVE  PeopleInv'
<1> DEFINE s == serpent[c]
           u == connectedUser[c]
           w == s.requestWidgets
<1>1. PICK q : q = down[c]
  OBVIOUS
<1>2. PICK p : p = Head(q)
  OBVIOUS
<1>3. PICK t : t = handlePacket(s, p)
  OBVIOUS
<1>4. /\ link[c] = "open" /\ q # <<>> /\ Becomes(c, t)
      /\ down' = [down EXCEPT ![c] = Tail(q)]
      /\ UNCHANGED <<link, up, serverVars, history, asked>>
  BY <1>1, <1>2, <1>3 DEF Quietly, ReadyRead, history
<1>5. q \in Seq(Down) /\ Sound(s) /\ LoginAt(c) /\ p \in Plain
  BY <1>1, <1>2, ReadPlainIs DEF Typed, LoginInv
<1>6. /\ p = q[1] /\ 1 \in DOMAIN q
      /\ \A i \in DOMAIN Tail(q) : i + 1 \in DOMAIN q /\ Tail(q)[i] = q[i + 1]
  BY <1>2, <1>4, <1>5, TailIs
<1>7. /\ down'[c] = Tail(q) /\ \A d \in Client \ {c} : down'[d] = down[d]
  BY <1>4 DEF Typed
<1>8. /\ Elsewhere(c) /\ serpent'[c] = t
      /\ UNCHANGED <<accounts, friends, requests, connectedUser, answer, missed>>
  BY <1>4, <1>7, ElsewhereIs
<1>9. /\ Adds(s, t, Named(p)) /\ Keeps(s, t) /\ SameLogin(s, t)
      /\ t.requestWidgets = [w EXCEPT ![p.name] = Widget(w[p.name], p)]
  BY <1>3, <1>5, HandlePacketNames, HandlePacketIs
<1>10. p.name \in User /\ w \in [User -> {"none", "buttons", "pending"}]
  BY <1>5, SoundFields DEF Plain, Sound, Programs
<1>11. /\ t.requestWidgets[p.name] = Widget(w[p.name], p)
       /\ \A m \in User \ {p.name} : t.requestWidgets[m] = w[m]
  BY <1>9, <1>10
<1>12. /\ AskedAt(c) /\ WaitingAt(c) /\ Invited(w, u, asked) /\ DueTo(p, u, asked, friends)
  BY <1>1, <1>4, <1>6 DEF PeopleInv, AskedInv, WaitingInv, AskedAt
<1> HIDE DEF s, u
<1>13. AskedAt(c)'
  <2>1. Invited(t.requestWidgets, u, asked)
    <3>1. /\ Widget(w[p.name], p) = "buttons" => <<p.name, u>> \in asked
          /\ Widget(w[p.name], p) = "pending" => <<u, p.name>> \in asked
      BY <1>10, <1>12 DEF Widget, Invited, DueTo
    <3> QED
      BY <1>11, <1>12, <3>1 DEF Invited
  <2>2. \A i \in DOMAIN Tail(q) : DueTo(Tail(q)[i], u, asked, friends)
    BY <1>1, <1>6, <1>12 DEF AskedAt, u
  <2>3. t.screen # "off"
    BY <1>4, <1>5, <1>9 DEF LoginAt, SameLogin, s
  <2> QED
    BY <1>4, <1>7, <1>8, <1>12, <2>1, <2>2, <2>3 DEF AskedAt, u
<1>14. WaitingAt(c)'
  <2>1. ASSUME NEW m \in User, WaitingFor(c, m), <<u, m>> \notin asked
        PROVE  WaitingFor(c, m)'
    <3>1. CASE Has(up[c], {"ACCEPT", "REJECT", "HIDE"}, m)
      BY <1>4, <3>1 DEF WaitingFor, Has
    <3>2. CASE m # p.name
      <4>1. Has(q, {"FORWARD"}, m) => Has(Tail(q), {"FORWARD"}, m)
        BY <1>2, <1>4, <1>5, <3>2, TailHas
      <4> QED
        BY <1>1, <1>4, <1>7, <1>8, <1>11, <2>1, <3>2, <4>1 DEF WaitingFor, Has, s
    <3>3. CASE m = p.name /\ w[m] = "buttons"
      <4>1. Widget(w[m], p) = "buttons"
        BY <1>12, <2>1, <3>3 DEF Widget, DueTo
      <4> QED
        BY <1>8, <1>11, <3>3, <4>1 DEF WaitingFor
    <3>4. CASE m = p.name /\ w[m] # "buttons" /\ Has(q, {"FORWARD"}, m)
      <4>1. w[m] = "none"
        BY <1>10, <1>12, <2>1, <3>4 DEF Invited
      <4>2. CASE p.type = "FORWARD"
        <5>1. Widget(w[m], p) = "buttons"
          BY <4>1, <4>2 DEF Widget
        <5> QED
          BY <1>8, <1>11, <3>4, <5>1 DEF WaitingFor
      <4>3. CASE p.type # "FORWARD"
        <5>1. Has(Tail(q), {"FORWARD"}, m)
          BY <1>2, <1>4, <1>5, <3>4, <4>3, TailHas
        <5> QED
          BY <1>7, <5>1 DEF WaitingFor, Has
      <4> QED
        BY <4>2, <4>3
    <3> QED
      BY <1>1, <2>1, <3>1, <3>2, <3>3, <3>4 DEF WaitingFor, s
  <2> QED
    BY <1>4, <1>8, <1>12, <2>1 DEF WaitingAt, u
<1>15. ASSUME Unbroken' PROVE BoxesAt(c)'
  <2>1. BoxesAt(c) /\ Unbroken
    BY <1>8, <1>15 DEF Elsewhere, PeopleInv, BoxesInv
  <2>2. spent.edits = 0
    <3>1. spent.edits \in Nat /\ spent.breaks \in Nat
      BY DEF Typed
    <3> QED
      BY <2>1, <3>1 DEF Unbroken
  <2>3. s.logged_in_user \in {u, NoName}
    BY <1>4, <1>5, <2>2 DEF LoginAt, After, s, u
  <2>4. PICK N : N = Named(p)
    OBVIOUS
  <2>5. \A m \in N : <<u, m>> \in friends
    BY <1>12, <2>4 DEF Named, DueTo
  <2>6. /\ \A b \in t.boxes : b.name \in N \/ \E d \in s.boxes : d.name = b.name
        /\ \A i \in DOMAIN t.friends \ DOMAIN s.friends :
             t.friends[i].friend_name \in N /\ t.friends[i].user \in {u, NoName}
        /\ \A i \in DOMAIN s.friends : t.friends[i] = s.friends[i]
    BY <1>9, <2>3, <2>4 DEF Adds, Keeps
  <2>7. \A m : Has(up[c], {"ACCEPT"}, m) => Has(up'[c], {"ACCEPT"}, m)
    BY <1>4 DEF Has
  <2> QED
    BY <1>4, <1>8, <2>1, <2>5, <2>6, <2>7, BoxesGrow DEF s, u
<1> QED
  BY <1>8, <1>13, <1>14, <1>15, ClientPeople

\* The result of a login is read: with it come the friends of the tables.
LEMMA ReadResultPeople ==
  ASSUME Typed, LoginInv, PeopleInv, NEW c \in Client, Quietly(ReadyRead(c)),
         Head(down[c]).type \in Results
  PROVE  PeopleInv'
<1> DEFINE s == serpent[c]
           u == connectedUser[c]
<1>1. PICK q : q = down[c]
  OBVIOUS
<1>2. PICK p : p = Head(q)
  OBVIOUS
<1>3. PICK yes \in BOOLEAN : yes = (p.type = "RESULT_YES")
  OBVIOUS
<1>4. PICK t : t = handleLoginResult(s, yes)
  OBVIOUS
<1>5. /\ link[c] = "open" /\ q # <<>> /\ Becomes(c, t)
      /\ down' = [down EXCEPT ![c] = Tail(q)]
      /\ UNCHANGED <<link, up, serverVars, history, asked>>
  BY <1>1, <1>2, <1>3, <1>4 DEF Quietly, ReadyRead, history, handlePacket, Results
<1>6. q \in Seq(Down) /\ Sound(s) /\ LoginAt(c) /\ p.type \in Results
  BY <1>1, <1>2 DEF Typed, LoginInv
<1>7. /\ p = q[1] /\ 1 \in DOMAIN q
      /\ \A i \in DOMAIN Tail(q) : i + 1 \in DOMAIN q /\ Tail(q)[i] = q[i + 1]
  BY <1>2, <1>5, <1>6, TailIs
<1>8. /\ down'[c] = Tail(q) /\ \A d \in Client \ {c} : down'[d] = down[d]
  BY <1>5 DEF Typed
<1>9. /\ Elsewhere(c) /\ serpent'[c] = t
      /\ UNCHANGED <<accounts, friends, requests, connectedUser, answer, missed>>
  BY <1>5, <1>8, ElsewhereIs
<1>10. /\ t.friends = s.friends /\ t.requestWidgets = s.requestWidgets
       /\ \A b \in t.boxes :
            \/ \E d \in s.boxes : d.name = b.name
            \/ yes /\ \E i \in DOMAIN s.friends :
                        s.friends[i] = [friend_name |-> b.name, user |-> s.username]
  BY <1>4, <1>6, LoginResultNames
<1>11. t.screen # "off"
  BY <1>4, <1>5, <1>6, LoginResultIs DEF LoginAt
<1>12. AskedAt(c) /\ WaitingAt(c) /\ Invited(s.requestWidgets, u, asked)
  BY <1>5 DEF PeopleInv, AskedInv, WaitingInv, AskedAt
<1>13. Told(c)
  BY <1>1, <1>5, <1>6, <1>7 DEF LoginAt, Before, Asking, Decided, After, NoResult
<1> HIDE DEF s, u
<1>14. AskedAt(c)'
  <2>1. \A i \in DOMAIN Tail(q) : DueTo(Tail(q)[i], u, asked, friends)
    BY <1>1, <1>7, <1>12 DEF AskedAt, u
  <2> QED
    BY <1>5, <1>8, <1>9, <1>10, <1>11, <1>12, <2>1 DEF AskedAt, u
<1>15. WaitingAt(c)'
  <2>1. ASSUME NEW m \in User, WaitingFor(c, m) PROVE WaitingFor(c, m)'
    <3>1. Has(q, {"FORWARD"}, m) => Has(Tail(q), {"FORWARD"}, m)
      BY <1>2, <1>5, <1>6, TailHas DEF Results
    <3> QED
      BY <1>1, <1>5, <1>8, <1>9, <1>10, <2>1, <3>1 DEF WaitingFor, Has, s
  <2> QED
    BY <1>5, <1>9, <1>12, <2>1 DEF WaitingAt
<1>16. ASSUME Unbroken' PROVE BoxesAt(c)'
  <2>1. BoxesAt(c) /\ Unbroken
    BY <1>9, <1>16 DEF Elsewhere, PeopleInv, BoxesInv
  <2>2. spent.edits = 0
    <3>1. spent.edits \in Nat /\ spent.breaks \in Nat
      BY DEF Typed
    <3> QED
      BY <2>1, <3>1 DEF Unbroken
  <2>3. yes => u = s.username /\ u \in User
    <3>1. ResultIs(c, p)
      BY <1>1, <1>6, <1>7, <1>13 DEF Told
    <3> QED
      BY <1>3, <2>2, <3>1 DEF ResultIs, Unedited, s, u
  <2>4. PICK N : N = {m \in User : <<u, m>> \in friends}
    OBVIOUS
  <2>5. \A b \in t.boxes : b.name \in N \/ \E d \in s.boxes : d.name = b.name
    <3> SUFFICES ASSUME NEW b \in t.boxes, ~\E d \in s.boxes : d.name = b.name
                 PROVE  b.name \in N
      OBVIOUS
    <3>1. PICK i \in DOMAIN s.friends :
            yes /\ s.friends[i] = [friend_name |-> b.name, user |-> s.username]
      BY <1>10
    <3>2. s.friends[i].user = u /\ s.friends[i].friend_name = b.name /\ u # NoName
      BY <2>3, <3>1, NamesAssumption
    <3>3. BefriendedAt(c, u, b.name)
      BY <2>1, <3>2 DEF BoxesAt, s
    <3>4. ~Has(up[c], {"ACCEPT"}, b.name)
      BY <1>13, EmptySeq DEF Told, Has
    <3>5. <<u, b.name>> \in friends /\ friends \subseteq User \X User
      BY <3>3, <3>4 DEF BefriendedAt, Typed
    <3> QED
      BY <2>4, <3>5
  <2>6. /\ \A i \in DOMAIN t.friends \ DOMAIN s.friends :
             t.friends[i].friend_name \in N /\ t.friends[i].user \in {u, NoName}
        /\ \A i \in DOMAIN s.friends : t.friends[i] = s.friends[i]
    BY <1>10
  <2>7. \A m : Has(up[c], {"ACCEPT"}, m) => Has(up'[c], {"ACCEPT"}, m)
    BY <1>5 DEF Has
  <2>8. \A m \in N : <<u, m>> \in friends
    BY <2>4
  <2> QED
    BY <1>5, <1>9, <2>1, <2>5, <2>6, <2>7, <2>8, BoxesGrow DEF s, u
<1> QED
  BY <1>9, <1>14, <1>15, <1>16, ClientPeople

\* Every step keeps what is said of people.
LEMMA NextPeople ==
  ASSUME Typed, LoginInv, PeopleInv, [Next]_vars
  PROVE  PeopleInv'
<1>1. ASSUME UNCHANGED vars PROVE PeopleInv'
  <2>1. /\ UNCHANGED <<serpent, link, up, down, accounts, friends, requests>>
        /\ UNCHANGED <<connectedUser, answer, missed, asked, spent>>
    BY <1>1 DEF vars, clientVars, serverVars, history
  <2>2. AskedInv'
    BY <2>1 DEF PeopleInv, AskedInv, AskedAt
  <2>3. WaitingInv'
    BY <2>1 DEF PeopleInv, WaitingInv, WaitingAt, WaitingFor, Has
  <2>4. BoxesInv'
    BY <2>1 DEF PeopleInv, BoxesInv, BoxesAt, BefriendedAt, Has, Unbroken
  <2>5. MissedInv'
    BY <2>1, MissedSame DEF PeopleInv
  <2> QED
    BY <2>2, <2>3, <2>4, <2>5 DEF PeopleInv
<1>2. ASSUME NEW c \in Client, Quietly(ReadyRead(c)) PROVE PeopleInv'
  BY <1>2, ReadPlainPeople, ReadResultPeople
<1>3. ASSUME NEW c \in Client,
             \/ Start(c) \/ Quietly(Connected(c)) \/ Refuse(c) \/ Break(c)
             \/ Quietly(CloseWindow(c))
      PROVE  PeopleInv'
  BY <1>3, ComingPeople
<1>4. ASSUME NEW c \in Client, NEW u \in User, Ask(c, u) \/ Decide(c, u) PROVE PeopleInv'
  BY <1>4, IdleStepPeople, DecidePeople
<1>5. ASSUME NEW c \in Client, NEW u \in User, Quietly(login(c, u)) \/ Edit(c, u)
      PROVE  PeopleInv'
  BY <1>5, IdleStepPeople
<1>6. ASSUME NEW c \in Client,
             \/ Write(c)
             \/ \E n \in User : Quietly(SelectFriend(c, n))
             \/ \E b \in BookName : Quietly(SelectCodebook(c, b))
             \/ \E b \in BookName, k \in Keyword : MakeCodebook(c, b, k)
             \/ Quietly(DismissMessageBox(c))
             \/ Quietly(swapLoginPurpose(c))
      PROVE  PeopleInv'
  BY <1>6, IdleStepPeople
<1> QED
  BY <1>1, <1>2, <1>3, <1>4, <1>5, <1>6, ServePeople, StepsAre

\* At the start nobody has asked or is shown.
LEMMA InitPeople ==
  ASSUME Init
  PROVE  PeopleInv
<1>1. ASSUME NEW c \in Client
      PROVE  /\ link[c] = "closed" /\ up[c] = <<>> /\ down[c] = <<>>
             /\ connectedUser[c] = NoName /\ answer[c] = NoAnswer
             /\ Blank(serpent[c]) /\ serpent[c].friends = Archive[c].friends
  BY DEF Init, Off, Blank
<1>2. /\ friends = Befriended /\ asked = {} /\ requests = [p \in User \X User |-> "none"]
  BY DEF Init
<1>3. DOMAIN <<>> = {}
  BY EmptySeq
<1>4. AskedInv
  <2>1. ASSUME NEW c \in Client PROVE AskedAt(c)
    <3>1. \A n, A, F : DueTo(answer[c], n, A, F)
      BY <1>1, NoAnswerDue
    <3> QED
      BY <1>1, <1>3, <3>1 DEF AskedAt
  <2>2. \A p \in friends : <<p[2], p[1]>> \in friends
    BY <1>2, BefriendedAssumption
  <2>3. \A s, u \in User : requests[<<s, u>>] = "none"
    BY <1>2
  <2> QED
    BY <1>2, <2>1, <2>2, <2>3 DEF AskedInv
<1>5. WaitingInv
  BY <1>1 DEF WaitingInv, WaitingAt
<1>6. BoxesInv
  BY <1>1, <1>2 DEF BoxesInv, BoxesAt, BefriendedAt, Unbroken, FriendsOnFile
<1>7. MissedInv
  BY <1>1, NoAnswerIs DEF MissedInv, MissedAt, Outcomes
<1> QED
  BY <1>4, <1>5, <1>6, <1>7 DEF PeopleInv

\* Wherever a user is logged in and nothing is under way, the requests that wait
\* for the user can be answered there: none is lost between the tables, the
\* connections and the requests box, but for those stored while the thread of a
\* connection was creating the user's account.
THEOREM RequestsAreAnswerable == Spec => []RequestsAnswerable
<1>1. Init => Typed /\ LoginInv /\ PeopleInv
  BY InitTyped, InitPeople
<1>2. Typed /\ LoginInv /\ PeopleInv /\ [Next]_vars => Typed' /\ LoginInv' /\ PeopleInv'
  BY NextTyped, NextPeople
<1>3. PeopleInv => RequestsAnswerable
  <2> SUFFICES ASSUME WaitingInv, NEW c \in Client, NEW u \in User, AtRest(c, u),
                      NEW s \in User, requests[<<s, u>>] = "shown", <<u, s>> \notin asked,
                      <<s, u>> \notin missed
               PROVE  serpent[c].requestWidgets[s] = "buttons"
    BY DEF PeopleInv, RequestsAnswerable
  <2>1. /\ link[c] = "open" /\ connectedUser[c] = u
        /\ up[c] = <<>> /\ down[c] = <<>> /\ answer[c] = NoAnswer
    BY DEF AtRest
  <2>2. WaitingFor(c, s)
    BY <2>1 DEF WaitingInv, WaitingAt
  <2> QED
    BY <2>1, <2>2, EmptySeq DEF WaitingFor, Has
<1> QED
  BY <1>1, <1>2, <1>3, PTL DEF Spec

\* Where the tables of the start know friends only, a client at rest shows nobody
\* else: not as long as no connection breaks, which loses the answer that makes
\* a friend of the one shown, and no form is edited after it is sent.
THEOREM NobodyElseShown ==
  ASSUME FriendsOnFile
  PROVE  Spec => []ShownAreFriends
<1>1. Init => Typed /\ LoginInv /\ PeopleInv
  BY InitTyped, InitPeople
<1>2. Typed /\ LoginInv /\ PeopleInv /\ [Next]_vars => Typed' /\ LoginInv' /\ PeopleInv'
  BY NextTyped, NextPeople
<1>3. PeopleInv => ShownAreFriends
  <2> SUFFICES ASSUME BoxesInv, NEW c \in Client, NEW u \in User, AtRest(c, u),
                      NEW f \in User, Box(c, f), spent.breaks + spent.edits = 0
               PROVE  <<u, f>> \in friends
    BY DEF PeopleInv, ShownAreFriends
  <2>1. link[c] = "open" /\ connectedUser[c] = u /\ up[c] = <<>>
    BY DEF AtRest
  <2>2. BefriendedAt(c, u, f)
    BY <2>1 DEF BoxesInv, BoxesAt, Box, Unbroken
  <2> QED
    BY <2>1, <2>2, EmptySeq DEF BefriendedAt, Has
<1> QED
  BY <1>1, <1>2, <1>3, PTL DEF Spec

-----------------------------------------------------------------------------
(* The page *)

\* How many of the ids in T are not above i.
Rank(T, i) == Cardinality({j \in T : j <= i})

\* Ranks go up with the ids, from 1 to as many as there are.
LEMMA RankIs ==
  ASSUME NEW T \in SUBSET Nat, IsFiniteSet(T)
  PROVE  /\ Cardinality(T) \in Nat
         /\ \A i \in T : Rank(T, i) \in 1..Cardinality(T)
         /\ \A i, j \in T : i < j => Rank(T, i) < Rank(T, j)
<1>1. Cardinality(T) \in Nat
  BY FS_CardinalityType
<1>2. ASSUME NEW i \in Nat
      PROVE  /\ IsFiniteSet({j \in T : j <= i}) /\ Rank(T, i) \in Nat
             /\ Rank(T, i) <= Cardinality(T)
  BY FS_Subset, FS_CardinalityType DEF Rank
<1>3. ASSUME NEW i \in T PROVE Rank(T, i) # 0
  <2>1. {j \in T : j <= i} # {}
    OBVIOUS
  <2> QED
    BY <1>2, <2>1, FS_EmptySet DEF Rank
<1>4. ASSUME NEW i \in T, NEW j \in T, i < j PROVE Rank(T, i) < Rank(T, j)
  <2> DEFINE A == {x \in T : x <= i}
             B == {x \in T : x <= j}
  <2>1. IsFiniteSet(A) /\ IsFiniteSet(B) /\ Cardinality(A) \in Nat /\ Cardinality(B) \in Nat
    BY <1>2 DEF Rank
  <2>2. i \in Nat /\ j \in Nat /\ \A x \in T : x \in Nat
    OBVIOUS
  <2>4. \A x \in T : x <= i => x <= j
    BY <1>4, <2>2
  <2>5. j <= j /\ ~ (j <= i)
    BY <1>4, <2>2
  <2>6. A \subseteq B /\ j \in B /\ j \notin A
    BY <2>4, <2>5
  <2> HIDE DEF A, B
  <2>3. Cardinality(A) <= Cardinality(B) /\ (Cardinality(A) = Cardinality(B) => A = B)
    BY <2>1, <2>6, FS_Subset
  <2> QED
    BY <2>1, <2>3, <2>6 DEF Rank, A, B
<1>5. \A i \in T : i \in Nat
  OBVIOUS
<1>6. ASSUME NEW i \in T PROVE Rank(T, i) \in 1..Cardinality(T)
  <2>1. Rank(T, i) \in Nat /\ Rank(T, i) <= Cardinality(T) /\ Rank(T, i) # 0
    BY <1>2, <1>3, <1>5
  <2> QED
    BY <1>1, <2>1
<1> QED
  BY <1>1, <1>4, <1>6

\* The k-th id is an id, of rank k.
LEMMA NthIs ==
  ASSUME NEW T \in SUBSET Nat, IsFiniteSet(T), NEW k \in 1..Cardinality(T)
  PROVE  Nth(T, k) \in T /\ Rank(T, Nth(T, k)) = k
<1> DEFINE N == Cardinality(T)
           f == [i \in T |-> Rank(T, i)]
<1>1. N \in Nat /\ f \in [T -> 1..N]
  BY RankIs
<1>2. IsFiniteSet(1..N) /\ Cardinality(1..N) = N
  BY <1>1, FS_Interval
<1>3. f \in Injection(T, 1..N)
  <2>1. ASSUME NEW i \in T, NEW j \in T, Rank(T, i) = Rank(T, j) PROVE i = j
    <3>1. i \in Nat /\ j \in Nat /\ Rank(T, i) \in Nat /\ Rank(T, j) \in Nat
      BY RankIs
    <3>2. ~ (i < j) /\ ~ (j < i)
      BY <2>1, <3>1, RankIs
    <3> QED
      BY <3>1, <3>2
  <2> QED
    BY <1>1, <2>1 DEF Injection, IsInjective
<1>4. f \in Surjection(T, 1..N)
  BY <1>2, <1>3, FS_Injection
<1>5. PICK i \in T : f[i] = k
  BY <1>4 DEF Surjection
<1> DEFINE S == {x \in T : Rank(T, x) = k}
<1>6. S \in SUBSET Nat /\ S # {}
  BY <1>5
<1>7. Min(S) \in S
  BY <1>6, LeastIs
<1>8. Nth(T, k) = Min(S)
  BY DEF Nth, Rank
<1> QED
  BY <1>7, <1>8

\* An id above all others is the last, and moves none of them.
LEMMA NthAdded ==
  ASSUME NEW T \in SUBSET Nat, IsFiniteSet(T), NEW n \in Nat, \A i \in T : i < n
  PROVE  LET U == T \cup {n}
         IN /\ Cardinality(U) = Cardinality(T) + 1
            /\ Nth(U, Cardinality(T) + 1) = n
            /\ \A k \in 1..Cardinality(T) : Nth(U, k) = Nth(T, k)
<1> DEFINE U == T \cup {n}
           N == Cardinality(T)
<1>1. n \notin T /\ T \subseteq Nat
  OBVIOUS
<1>2. IsFiniteSet(U) /\ Cardinality(U) = N + 1 /\ N \in Nat
  BY <1>1, FS_AddElement, FS_CardinalityType
<1>3. ASSUME NEW i \in T PROVE Rank(U, i) = Rank(T, i)
  <2>1. {j \in U : j <= i} = {j \in T : j <= i}
    OBVIOUS
  <2> QED
    BY <2>1 DEF Rank
<1>4. Rank(U, n) = N + 1
  <2>1. \A j \in U : j \in Nat /\ j <= n
    OBVIOUS
  <2>2. {j \in U : j <= n} = U
    BY <2>1
  <2> QED
    BY <1>2, <2>2 DEF Rank
<1>5. \A i \in T : Rank(T, i) \in 1..N
  BY RankIs
<1> HIDE DEF N
<1>6. ASSUME NEW k \in 1..N PROVE Nth(U, k) = Nth(T, k)
  <2>1. k # N + 1
    BY <1>2, <1>6
  <2>2. \A i \in U : Rank(U, i) = k => i \in T
    BY <1>4, <2>1
  <2>3. {i \in U : Rank(U, i) = k} = {i \in T : Rank(T, i) = k}
    BY <1>3, <2>2
  <2> HIDE DEF U
  <2> QED
    BY <2>3 DEF Nth, Rank
<1>7. Nth(U, N + 1) = n
  <2>1. \A i \in T : Rank(U, i) # N + 1
    BY <1>2, <1>3, <1>5
  <2>4. {i \in U : Rank(U, i) = N + 1} = {n}
    BY <1>4, <2>1
  <2>2. {n} \in SUBSET Nat /\ {n} # {}
    OBVIOUS
  <2>3. Min({n}) = n
    BY <2>2, LeastIs
  <2> HIDE DEF U
  <2> QED
    BY <2>3, <2>4 DEF Nth, Rank
<1> QED
  BY <1>2, <1>6, <1>7 DEF N

\* A friend has the same row as long as rows are only added.
LEMMA FriendIdKept ==
  ASSUME NEW s, Sound(s), NEW t, Sound(t), Keeps(s, t), t.logged_in_user = s.logged_in_user,
         NEW n \in User, hasFriend(s, n)
  PROVE  hasFriend(t, n) /\ getFriendId(t, n) = getFriendId(s, n)
<1> DEFINE I == FriendIds(s, n)
           J == FriendIds(t, n)
<1>1. /\ DOMAIN s.friends = 1..Len(s.friends) /\ Len(s.friends) \in Nat
      /\ DOMAIN t.friends = 1..Len(t.friends) /\ Len(t.friends) \in Nat
  BY SoundFields, LenProperties
<1>2. I \in SUBSET Nat /\ J \in SUBSET Nat /\ I # {} /\ I \subseteq DOMAIN s.friends
  BY <1>1 DEF FriendIds, hasFriend
<1>3. I \subseteq J
  BY <1>1 DEF FriendIds, Keeps
<1>4. \A i \in J : i \in DOMAIN s.friends => i \in I
  BY DEF FriendIds, Keeps
<1>5. J # {} /\ hasFriend(t, n)
  BY <1>2, <1>3 DEF hasFriend
<1> HIDE DEF I, J
<1>6. /\ Min(I) \in I /\ \A i \in I : Min(I) <= i
      /\ Min(J) \in J /\ \A i \in J : Min(J) <= i
  BY <1>2, <1>5, LeastIs
<1>7. Min(J) \in I
  <2>1. Min(J) <= Min(I) /\ Min(J) \in Nat \ {0} /\ Min(I) \in 1..Len(s.friends)
    <3>1. Min(J) \in DOMAIN t.friends
      BY <1>6 DEF J, FriendIds
    <3>2. Min(I) \in DOMAIN s.friends /\ Min(I) \in J
      BY <1>2, <1>3, <1>6
    <3>3. Min(J) <= Min(I)
      BY <1>6, <3>2
    <3>4. PICK a, b : a = Min(I) /\ b = Min(J)
      OBVIOUS
    <3>5. a \in 1..Len(s.friends) /\ b \in 1..Len(t.friends) /\ b <= a
      BY <1>1, <3>1, <3>2, <3>3, <3>4
    <3>6. b \in Nat \ {0}
      BY <1>1, <3>5
    <3> QED
      BY <3>4, <3>5, <3>6
  <2>2. Min(J) \in DOMAIN s.friends
    BY <1>1, <2>1
  <2> QED
    BY <1>4, <1>6, <2>2
<1>8. Min(J) = Min(I)
  <2>1. Min(I) \in Nat /\ Min(J) \in Nat /\ Min(I) <= Min(J) /\ Min(J) <= Min(I)
    BY <1>2, <1>3, <1>6, <1>7
  <2> QED
    BY <2>1
<1> QED
  BY <1>5, <1>8 DEF getFriendId, I, J

\* Friends with other names have other rows.
LEMMA FriendIdsApart ==
  ASSUME NEW s, Sound(s), NEW m \in User, NEW n \in User, hasFriend(s, m), hasFriend(s, n),
         getFriendId(s, m) = getFriendId(s, n)
  PROVE  m = n
<1>1. [friend_name |-> m, user |-> s.logged_in_user]
        = [friend_name |-> n, user |-> s.logged_in_user]
  BY FriendIdIs
<1> QED
  BY <1>1

\* The messages of a friend are finitely many of those there are.
LEMMA MessageIdsAre ==
  ASSUME NEW s, Sound(s), NEW n
  PROVE  /\ s.messages \in Seq(MessageRows) /\ Len(s.messages) \in Nat
         /\ DOMAIN s.messages = 1..Len(s.messages)
         /\ MessageIds(s, n) \in SUBSET Nat /\ IsFiniteSet(MessageIds(s, n))
         /\ MessageIds(s, n) \subseteq DOMAIN s.messages
<1>1. /\ s.messages \in Seq(MessageRows) /\ Len(s.messages) \in Nat
      /\ DOMAIN s.messages = 1..Len(s.messages)
  BY SoundFields, LenProperties
<1>2. MessageIds(s, n) \subseteq DOMAIN s.messages
  BY DEF MessageIds
<1>3. IsFiniteSet(1..Len(s.messages))
  BY <1>1, FS_Interval
<1>4. IsFiniteSet(MessageIds(s, n))
  BY <1>1, <1>2, <1>3, FS_Subset
<1> QED
  BY <1>1, <1>2, <1>4

\* A conversation is made of rows.
LEMMA ConversationIs ==
  ASSUME NEW s, Sound(s), NEW n
  PROVE  /\ Conversation(s, n) \in Seq(MessageRows)
         /\ Len(Conversation(s, n)) = Cardinality(MessageIds(s, n))
         /\ Len(Conversation(s, n)) \in Nat
         /\ DOMAIN Conversation(s, n) = 1..Len(Conversation(s, n))
<1> DEFINE T == MessageIds(s, n)
           N == Cardinality(T)
<1>1. /\ s.messages \in [DOMAIN s.messages -> MessageRows]
      /\ T \in SUBSET Nat /\ IsFiniteSet(T) /\ T \subseteq DOMAIN s.messages
  BY MessageIdsAre, LenProperties
<1>2. N \in Nat
  BY <1>1, FS_CardinalityType
<1>3. \A k \in 1..N : Nth(T, k) \in T
  BY <1>1, NthIs
<1>4. Conversation(s, n) = [k \in 1..N |-> s.messages[Nth(T, k)]]
  BY DEF Conversation
<1> HIDE DEF T, N
<1>5. [k \in 1..N |-> s.messages[Nth(T, k)]] \in [1..N -> MessageRows]
  BY <1>1, <1>3
<1> QED
  BY <1>2, <1>4, <1>5, IsSeq, LenProperties DEF N, T

\* With the same messages under the same row the conversation is the same.
LEMMA ConversationSame ==
  ASSUME NEW s, NEW t, NEW n, t.messages = s.messages, getFriendId(t, n) = getFriendId(s, n)
  PROVE  Conversation(t, n) = Conversation(s, n)
<1>1. MessageIds(t, n) = MessageIds(s, n)
  BY DEF MessageIds
<1> QED
  BY <1>1 DEF Conversation

\* A row that is added is the last of its conversation and in no other.
LEMMA ConversationAdded ==
  ASSUME NEW s, Sound(s), NEW t, Sound(t), NEW n, getFriendId(t, n) = getFriendId(s, n),
         NEW r \in MessageRows, t.messages = Append(s.messages, r)
  PROVE  Conversation(t, n) = IF r.friend_id = getFriendId(s, n)
                              THEN Append(Conversation(s, n), r) ELSE Conversation(s, n)
<1> DEFINE g == getFriendId(s, n)
           L == Len(s.messages)
           T == MessageIds(s, n)
           U == MessageIds(t, n)
           N == Cardinality(T)
<1>1. /\ s.messages \in Seq(MessageRows) /\ L \in Nat /\ DOMAIN s.messages = 1..L
      /\ T \in SUBSET Nat /\ IsFiniteSet(T) /\ T \subseteq 1..L
  BY MessageIdsAre
<1>2. /\ DOMAIN t.messages = 1..(L + 1) /\ t.messages[L + 1] = r
      /\ \A i \in 1..L : t.messages[i] = s.messages[i]
  BY <1>1, AppendProperties, LenProperties
<1>3. N \in Nat
  BY <1>1, FS_CardinalityType
<1>4. \A k \in 1..N : Nth(T, k) \in T
  BY <1>1, NthIs
<1>5. U = {i \in 1..(L + 1) : t.messages[i].friend_id = g}
  BY <1>2 DEF MessageIds
<1>6. T = {i \in 1..L : s.messages[i].friend_id = g}
  BY <1>1 DEF MessageIds
<1>7. /\ Conversation(s, n) = [k \in 1..N |-> s.messages[Nth(T, k)]]
      /\ Conversation(t, n) = [k \in 1..Cardinality(U) |-> t.messages[Nth(U, k)]]
  BY DEF Conversation
<1>8. /\ Conversation(s, n) \in Seq(MessageRows) /\ Len(Conversation(s, n)) = N
      /\ DOMAIN Conversation(s, n) = 1..N
  BY ConversationIs
<1> HIDE DEF g, L, T, U, N
<1>9. CASE r.friend_id # g
  <2>1. U = T
    BY <1>1, <1>2, <1>5, <1>6, <1>9
  <2>2. \A k \in 1..N : t.messages[Nth(T, k)] = s.messages[Nth(T, k)]
    BY <1>1, <1>2, <1>4
  <2> QED
    BY <1>7, <1>9, <2>1, <2>2 DEF N, g
<1>10. CASE r.friend_id = g
  <2>1. U = T \cup {L + 1} /\ L + 1 \in Nat
    BY <1>1, <1>2, <1>5, <1>6, <1>10
  <2>2. \A i \in T : i < L + 1
    BY <1>1
  <2>3. /\ Cardinality(U) = N + 1 /\ Nth(U, N + 1) = L + 1
        /\ \A k \in 1..N : Nth(U, k) = Nth(T, k)
    BY <1>1, <2>1, <2>2, NthAdded DEF N
  <2> DEFINE C == Conversation(s, n)
  <2>4. /\ DOMAIN Append(C, r) = 1..(N + 1) /\ Append(C, r)[N + 1] = r
        /\ \A k \in 1..N : Append(C, r)[k] = C[k]
        /\ Append(C, r) \in Seq(MessageRows)
    BY <1>8, AppendProperties, LenProperties
  <2>5. ASSUME NEW k \in 1..(N + 1) PROVE t.messages[Nth(U, k)] = Append(C, r)[k]
    <3>1. CASE k = N + 1
      BY <1>2, <2>3, <2>4, <3>1
    <3>2. CASE k # N + 1
      <4>1. k \in 1..N
        BY <1>3, <3>2
      <4>2. t.messages[Nth(U, k)] = s.messages[Nth(T, k)]
        BY <1>1, <1>2, <1>4, <2>3, <4>1
      <4>3. C[k] = s.messages[Nth(T, k)]
        BY <1>7, <4>1
      <4> QED
        BY <2>4, <4>1, <4>2, <4>3
    <3> QED
      BY <3>1, <3>2
  <2>6. Append(C, r) = [k \in 1..(N + 1) |-> Append(C, r)[k]]
    BY <2>4, LenProperties
  <2>7. Conversation(t, n) = [k \in 1..(N + 1) |-> Append(C, r)[k]]
    BY <1>7, <2>3, <2>5
  <2> QED
    BY <1>10, <2>6, <2>7 DEF g
<1> QED
  BY <1>9, <1>10

\* What a page has of the rows rs.
OfRows(rs) == [i \in DOMAIN rs |-> [message |-> rs[i].message, original |-> rs[i].original]]

\* The page of s is the conversation with the friend chosen, if there is one: a
\* friend of the user, chosen after the login.
PageOf(s) ==
  /\ s.screen \in {"off", "login"} => s.queried_friend = NoName
  /\ s.queried_friend # NoName =>
       /\ hasFriend(s, s.queried_friend)
       /\ Len(Conversation(s, s.queried_friend)) <= PageSize =>
            s.page = OfRows(Conversation(s, s.queried_friend))

PageInv == \A c \in Client : PageOf(serpent[c])

\* A user chosen is a user.
LEMMA ChosenIs ==
  ASSUME NEW s, Sound(s), s.queried_friend # NoName
  PROVE  s.queried_friend \in User
  BY SoundFields DEF Handle

\* What adds friends and leaves messages and page alone keeps the page.
LEMMA PageKept ==
  ASSUME NEW s, Sound(s), PageOf(s), NEW t, Sound(t), Keeps(s, t),
         t.logged_in_user = s.logged_in_user, t.messages = s.messages,
         t.page = s.page, t.queried_friend = s.queried_friend,
         t.screen \in {"off", "login"} => s.screen \in {"off", "login"}
  PROVE  PageOf(t)
<1>1. ASSUME s.queried_friend # NoName
      PROVE  /\ hasFriend(t, s.queried_friend)
             /\ Conversation(t, s.queried_friend) = Conversation(s, s.queried_friend)
  <2>1. s.queried_friend \in User /\ hasFriend(s, s.queried_friend)
    BY <1>1, ChosenIs DEF PageOf
  <2>2. /\ hasFriend(t, s.queried_friend)
        /\ getFriendId(t, s.queried_friend) = getFriendId(s, s.queried_friend)
    BY <2>1, FriendIdKept
  <2> QED
    BY <2>2, ConversationSame
<1> QED
  BY <1>1 DEF PageOf

\* With nobody chosen there is nothing to show.
LEMMA PageOfNobody ==
  ASSUME NEW s, s.queried_friend = NoName
  PROVE  PageOf(s)
  BY DEF PageOf

\* A conversation that is chosen is shown.
LEMMA QueryPage ==
  ASSUME NEW s, Sound(s), PageOf(s), s.screen = "main", NEW n \in User
  PROVE  PageOf(queryFriendMessages(s, n))
<1>1. CASE ~hasFriend(s, n)
  BY <1>1 DEF queryFriendMessages
<1>2. CASE hasFriend(s, n)
  <2> DEFINE C == Conversation(s, n)
             q == [s EXCEPT !.queried_friend = n]
             rs == queryMessages(s, n)
             t == [q EXCEPT !.page = OfRows(rs)]
  <2>1. /\ q.queried_friend = n /\ q.screen = "main" /\ q.friends = s.friends
        /\ q.messages = s.messages /\ q.logged_in_user = s.logged_in_user
        /\ q \in Programs(s.page)
    BY DEF Sound, Programs, Handle
  <2>2. t = queryFriendMessages(s, n)
    BY <1>2 DEF queryFriendMessages, processMessages, OfRows
  <2> HIDE DEF q
  <2>3. /\ t.queried_friend = n /\ t.screen = "main" /\ t.friends = s.friends
        /\ t.messages = s.messages /\ t.logged_in_user = s.logged_in_user
        /\ t.page = OfRows(rs)
    BY <2>1 DEF Programs
  <2> HIDE DEF t
  <2>4. FriendIds(t, n) = FriendIds(s, n)
    BY <2>3 DEF FriendIds
  <2>5. hasFriend(t, n) /\ getFriendId(t, n) = getFriendId(s, n)
    BY <1>2, <2>4 DEF hasFriend, getFriendId
  <2>6. Conversation(t, n) = C
    BY <2>3, <2>5, ConversationSame
  <2>7. ASSUME Len(C) <= PageSize PROVE rs = C
    <3>1. C \in Seq(MessageRows) /\ Len(C) \in Nat /\ DOMAIN C = 1..Len(C)
      BY ConversationIs
    <3>2. PageSize \in Nat
      BY PageAssumption
    <3>3. Min({PageSize, Len(C)}) = Len(C)
      <4>1. {PageSize, Len(C)} \in SUBSET Nat /\ {PageSize, Len(C)} # {}
        BY <3>1, <3>2
      <4>2. /\ Min({PageSize, Len(C)}) \in {PageSize, Len(C)}
            /\ Min({PageSize, Len(C)}) <= Len(C)
        BY <4>1, LeastIs
      <4> QED
        BY <2>7, <3>1, <3>2, <4>2
    <3>4. rs = SubSeq(C, 1, Len(C))
      BY <3>3 DEF queryMessages
    <3> HIDE DEF C
    <3>5. SubSeq(C, 1, Len(C)) = C
      BY <3>1
    <3> QED
      BY <3>4, <3>5
  <2> HIDE DEF C, rs
  <2> QED
    BY <2>2, <2>3, <2>5, <2>6, <2>7 DEF PageOf, C
<1> QED
  BY <1>1, <1>2

\* A message that is stored is shown if it belongs to the conversation.
LEMMA InsertMessagePage ==
  ASSUME NEW s, Sound(s), PageOf(s), NEW n \in User, NEW m \in Nat, NEW o \in BOOLEAN,
         o => n = s.queried_friend
  PROVE  PageOf(insertMessage(s, m, o, n))
<1> DEFINE r == [friend_id |-> getFriendId(s, n), message |-> m, original |-> o]
           x == [message |-> m, original |-> o]
           t == insertMessage(s, m, o, n)
           u == s.queried_friend
<1>1. CASE ~hasFriend(s, n)
  BY <1>1 DEF insertMessage
<1>2. CASE hasFriend(s, n)
  <2>1. /\ Sound(t) /\ Keeps(s, t) /\ SameLogin(s, t)
        /\ t.messages = Append(s.messages, r)
    BY <1>2, InsertMessageIs
  <2>2. /\ t.queried_friend = u
        /\ t.page = IF n = u THEN Append(s.page, x) ELSE s.page
    <3> DEFINE q == [s EXCEPT !.messages = Append(@, r)]
    <3>1. q.queried_friend = u /\ q.page = s.page /\ q = MessageRowInserted(s, n, m, o)
      BY DEF Sound, Programs, MessageRowInserted
    <3>2. q \in [DOMAIN s -> {q[f] : f \in DOMAIN s}] /\ "page" \in DOMAIN s
          /\ "queried_friend" \in DOMAIN s
      BY DEF Sound, Programs
    <3> HIDE DEF q
    <3>3. t = IF o \/ n = u THEN Shown(q, m, o) ELSE q
      BY <1>2, <3>1 DEF insertMessage
    <3>4. Shown(q, m, o) = [q EXCEPT !.page = Append(s.page, x)]
      BY <3>1 DEF Shown
    <3>5. /\ Shown(q, m, o).queried_friend = u
          /\ Shown(q, m, o).page = Append(s.page, x)
      BY <3>1, <3>2, <3>4
    <3> QED
      BY <3>1, <3>3, <3>5
  <2> HIDE DEF t
  <2>3. getFriendId(s, n) \in Nat \ {0} /\ r \in MessageRows
    <3>1. getFriendId(s, n) \in DOMAIN s.friends /\ s.friends \in Seq(FriendRows)
      BY <1>2, FriendIdIs, SoundFields
    <3>2. getFriendId(s, n) \in Nat \ {0}
      BY <3>1, LenProperties
    <3> QED
      BY <3>2 DEF MessageRows
  <2>4. r.friend_id = getFriendId(s, n) /\ r.message = m /\ r.original = o
    OBVIOUS
  <2> HIDE DEF r
  <2>5. ASSUME u # NoName
        PROVE  /\ hasFriend(t, u)
               /\ Len(Conversation(t, u)) <= PageSize => t.page = OfRows(Conversation(t, u))
    <3> DEFINE C == Conversation(s, u)
    <3>1. u \in User /\ hasFriend(s, u)
      BY <2>5, ChosenIs DEF PageOf
    <3>2. hasFriend(t, u) /\ getFriendId(t, u) = getFriendId(s, u)
      BY <2>1, <3>1, FriendIdKept DEF SameLogin
    <3>3. r.friend_id = getFriendId(s, u) <=> n = u
      BY <1>2, <2>4, <3>1, FriendIdsApart
    <3>4. Conversation(t, u) = IF n = u THEN Append(C, r) ELSE C
      <4>1. Conversation(t, u) = IF r.friend_id = getFriendId(s, u)
                                 THEN Append(Conversation(s, u), r) ELSE Conversation(s, u)
        <5>1. Sound(s) /\ Sound(t) /\ t.messages = Append(s.messages, r)
          BY <2>1
        <5>2. getFriendId(t, u) = getFriendId(s, u) /\ r \in MessageRows
          BY <2>3, <3>2
        <5> QED
          BY <5>1, <5>2, ConversationAdded
      <4> QED
        BY <3>3, <4>1
    <3>5. C \in Seq(MessageRows) /\ Len(C) \in Nat /\ DOMAIN C = 1..Len(C)
      BY ConversationIs
    <3>6. Len(C) <= PageSize => s.page = OfRows(C)
      BY <2>5 DEF PageOf
    <3>7. CASE n # u
      BY <2>2, <3>2, <3>4, <3>6, <3>7
    <3>8. CASE n = u
      <4> HIDE DEF C
      <4>1. /\ Len(Append(C, r)) = Len(C) + 1 /\ DOMAIN Append(C, r) = 1..(Len(C) + 1)
            /\ Append(C, r)[Len(C) + 1] = r
            /\ \A i \in 1..Len(C) : Append(C, r)[i] = C[i]
        BY <2>3, <3>5, AppendProperties, LenProperties
      <4>2. ASSUME Len(Append(C, r)) <= PageSize PROVE t.page = OfRows(Append(C, r))
        <5>1. s.page = OfRows(C)
          BY <3>5, <3>6, <4>1, <4>2, PageAssumption
        <5>2. OfRows(C) \in Seq([message : Nat, original : BOOLEAN]) /\ Len(OfRows(C)) = Len(C)
          <6>1. \A i \in 1..Len(C) : C[i] \in MessageRows
            BY <3>5, LenProperties
          <6>2. OfRows(C) \in [1..Len(C) -> [message : Nat, original : BOOLEAN]]
            BY <3>5, <6>1 DEF OfRows, MessageRows
          <6>3. OfRows(C) \in Seq([message : Nat, original : BOOLEAN])
            BY <3>5, <6>2, IsSeq
          <6>4. DOMAIN OfRows(C) = 1..Len(C) /\ DOMAIN OfRows(C) = 1..Len(OfRows(C))
            BY <6>2, <6>3, LenProperties
          <6>5. Len(OfRows(C)) \in Nat
            BY <6>3, LenProperties
          <6> QED
            BY <3>5, <6>3, <6>4, <6>5
        <5> DEFINE A == Append(OfRows(C), x)
        <5>3. /\ A \in Seq([message : Nat, original : BOOLEAN])
              /\ DOMAIN A = 1..(Len(C) + 1) /\ A[Len(C) + 1] = x
              /\ \A i \in 1..Len(C) : A[i] = OfRows(C)[i]
          BY <5>2, AppendProperties, LenProperties
        <5>4. A = [i \in 1..(Len(C) + 1) |-> A[i]]
          BY <5>3, LenProperties
        <5> HIDE DEF A
        <5>5. \A i \in 1..(Len(C) + 1) :
                A[i] = [message |-> Append(C, r)[i].message,
                        original |-> Append(C, r)[i].original]
          <6> SUFFICES ASSUME NEW i \in 1..(Len(C) + 1)
                       PROVE  A[i] = [message |-> Append(C, r)[i].message,
                                      original |-> Append(C, r)[i].original]
            OBVIOUS
          <6>1. CASE i = Len(C) + 1
            BY <2>4, <4>1, <5>3, <6>1
          <6>2. CASE i # Len(C) + 1
            <7>1. i \in 1..Len(C)
              BY <3>5, <6>2
            <7>2. A[i] = [message |-> C[i].message, original |-> C[i].original]
              BY <3>5, <5>3, <7>1 DEF OfRows
            <7> QED
              BY <4>1, <7>1, <7>2
          <6> QED
            BY <6>1, <6>2
        <5>6. OfRows(Append(C, r)) = [i \in 1..(Len(C) + 1) |->
                [message |-> Append(C, r)[i].message, original |-> Append(C, r)[i].original]]
          BY <4>1 DEF OfRows
        <5>7. A = OfRows(Append(C, r))
          BY <5>4, <5>5, <5>6
        <5> QED
          BY <2>2, <3>8, <5>1, <5>7 DEF A
      <4> QED
        BY <3>2, <3>4, <3>8, <4>2 DEF C
    <3> QED
      BY <3>7, <3>8
  <2> HIDE DEF u
  <2>6. t.screen = s.screen
    BY <2>1 DEF SameLogin
  <2> QED
    BY <2>2, <2>5, <2>6 DEF PageOf, t, u
<1> QED
  BY <1>1, <1>2

\* The page, and whose it is, stay as they are.
SamePage(s, t) == t.page = s.page /\ t.queried_friend = s.queried_friend

\* The slots of friends and of requests have nothing to do with the page.
LEMMA SlotsSamePage ==
  ASSUME NEW s, Sound(s), NEW n \in User
  PROVE  /\ \A id, st : SamePage(s, addNewFriend(s, id, n, st))
         /\ SamePage(s, insertFriend(s, n))
         /\ \A k : SamePage(s, addRequest(s, n, k))
         /\ SamePage(s, removeRequest(s, n))
         /\ \A bs : SamePage(s, [s EXCEPT !.boxes = bs])
         /\ \A b : SamePage(s, [s EXCEPT !.modal = b])
<1>1. \A bs : SamePage(s, [s EXCEPT !.boxes = bs])
  BY DEF Sound, Programs, SamePage
<1>2. \A b : SamePage(s, [s EXCEPT !.modal = b])
  BY DEF Sound, Programs, SamePage
<1>3. SamePage(s, s)
  BY DEF SamePage
<1>4. ASSUME NEW id, NEW st PROVE SamePage(s, addNewFriend(s, id, n, st))
  <2>1. addNewFriend(s, id, n, st) \in
          {s, [s EXCEPT !.boxes = @ \cup {[id |-> id, name |-> n, status |-> st]}]}
    BY DEF addNewFriend
  <2> QED
    BY <1>1, <1>3, <2>1
<1>5. SamePage(s, insertFriend(s, n))
  <2> DEFINE fs == Append(s.friends, [friend_name |-> n, user |-> s.logged_in_user])
             t == [s EXCEPT !.friends = fs]
             id == Len(t.friends)
             bs == t.boxes \cup {[id |-> id, name |-> n, status |-> "OFFLINE"]}
  <2> HIDE DEF fs
  <2>1. SamePage(s, t) /\ \A v : SamePage(t, [t EXCEPT !.boxes = v])
    BY DEF Sound, Programs, SamePage
  <2>2. t = FriendRowInserted(s, n)
    BY DEF FriendRowInserted, fs
  <2> HIDE DEF t
  <2>3. addNewFriend(t, id, n, "OFFLINE") \in {t, [t EXCEPT !.boxes = bs]}
    BY DEF addNewFriend
  <2>4. insertFriend(s, n) \in {s, addNewFriend(t, id, n, "OFFLINE")}
    BY <2>2 DEF insertFriend
  <2> HIDE DEF bs
  <2> QED
    BY <2>1, <2>3, <2>4 DEF SamePage
<1>6. \A w : SamePage(s, [s EXCEPT !.requestWidgets = w])
  BY DEF Sound, Programs, SamePage
<1>7. ASSUME NEW k PROVE SamePage(s, addRequest(s, n, k))
  <2>1. addRequest(s, n, k) \in
          {s, [s EXCEPT !.requestWidgets = [s.requestWidgets EXCEPT ![n] = k]]}
    BY DEF addRequest
  <2> QED
    BY <1>3, <1>6, <2>1
<1>8. SamePage(s, removeRequest(s, n))
  <2>1. removeRequest(s, n) = [s EXCEPT !.requestWidgets = [s.requestWidgets EXCEPT ![n] = "none"]]
    BY DEF removeRequest
  <2> QED
    BY <1>6, <2>1
<1> QED
  BY <1>1, <1>2, <1>4, <1>5, <1>7, <1>8

\* A packet that is no result and no message leaves the page alone.
LEMMA PacketSamePage ==
  ASSUME NEW s, Sound(s), NEW p \in Plain, p.type # "MESSAGE"
  PROVE  SamePage(s, handlePacket(s, p))
<1> SUFFICES ASSUME NEW t, t = handlePacket(s, p) PROVE SamePage(s, t)
  OBVIOUS
<1>1. p.name \in User /\ p.type \in FromServer \ Results
  BY DEF Plain
<1>2. CASE p.type \in {"ONLINE", "OFFLINE"}
  <2> DEFINE n == p.name
             q == addNewFriend(s, Cardinality(s.boxes), n, p.type)
  <2>1. t = updateFriendStatus(s, n, p.type)
    BY <1>2 DEF handlePacket
  <2>2. Cardinality(s.boxes) \in Nat
    BY FS_CardinalityType DEF Sound
  <2>3. Sound(q) /\ SamePage(s, q)
    BY <1>1, <1>2, <2>2, AddNewFriendSilent, SlotsSamePage DEF Silent
  <2> HIDE DEF q
  <2>4. SamePage(q, insertFriend(q, n))
    BY <1>1, <2>3, SlotsSamePage
  <2>5. \/ \E bs : t = [s EXCEPT !.boxes = bs]
        \/ t = insertFriend(q, n)
    BY <2>1 DEF updateFriendStatus, q
  <2>6. \A bs : SamePage(s, [s EXCEPT !.boxes = bs])
    BY <1>1, SlotsSamePage
  <2> QED
    BY <2>3, <2>4, <2>5, <2>6 DEF SamePage
<1>3. CASE p.type = "FORWARD"
  BY <1>1, <1>3, SlotsSamePage DEF handlePacket
<1>4. CASE p.type \in {"PENDING", "ACCEPT", "REJECT", "DOES_NOT_EXIST"}
  <2>1. t = processFriendResponse(s, p.name, p.type)
    BY <1>4 DEF handlePacket
  <2>2. CASE p.type # "ACCEPT"
    BY <1>1, <1>4, <2>1, <2>2, SlotsSamePage DEF processFriendResponse
  <2>3. CASE p.type = "ACCEPT"
    <3> DEFINE q == insertFriend(s, p.name)
    <3>1. Sound(q) /\ SamePage(s, q)
      BY <1>1, InsertFriendSilent, SlotsSamePage DEF Silent
    <3>2. t = removeRequest(q, p.name)
      BY <2>1, <2>3 DEF processFriendResponse
    <3> HIDE DEF q
    <3>3. SamePage(q, t)
      BY <1>1, <3>1, <3>2, SlotsSamePage
    <3> QED
      BY <3>1, <3>3 DEF SamePage
  <2> QED
    BY <2>2, <2>3
<1>5. p.type \in {"ONLINE", "OFFLINE", "FORWARD", "PENDING", "ACCEPT", "REJECT", "DOES_NOT_EXIST"}
  BY <1>1 DEF FromServer, Results
<1> QED
  BY <1>2, <1>3, <1>4, <1>5

\* What is silent and leaves the page alone keeps it the conversation.
LEMMA SilentPage ==
  ASSUME NEW s, Sound(s), PageOf(s), NEW t, Silent(s, t), SamePage(s, t)
  PROVE  PageOf(t)
  BY PageKept DEF Silent, SameLogin, SamePage

\* What becomes of the page when a packet is handled.
LEMMA HandlePacketPage ==
  ASSUME NEW s, Sound(s), PageOf(s), NEW p \in Plain
  PROVE  PageOf(handlePacket(s, p))
<1>1. CASE p.type # "MESSAGE"
  <2> DEFINE t == handlePacket(s, p)
  <2>1. Sound(t) /\ Keeps(s, t) /\ SameLogin(s, t) /\ t.messages = s.messages
    BY <1>1, HandlePacketIs
  <2>2. SamePage(s, t)
    BY <1>1, PacketSamePage
  <2> HIDE DEF t
  <2>3. PageOf(t)
    BY <2>1, <2>2, PageKept DEF SameLogin, SamePage
  <2> QED
    BY <2>3 DEF t
<1>2. CASE p.type = "MESSAGE"
  <2> DEFINE m == decrypt(p.body, current_codebook(s))
  <2>1. p.name \in User /\ m \in Nat
    BY DEF Plain, decrypt, Encrypted, Garbled
  <2>2. handlePacket(s, p) = insertMessage(s, m, FALSE, p.name)
    BY <1>2 DEF handlePacket, decryptAndReceiveMessage
  <2> QED
    BY <2>1, <2>2, InsertMessagePage
<1> QED
  BY <1>1, <1>2

\* A login leaves nobody chosen if nobody was.
LEMMA LoginResultPage ==
  ASSUME NEW s, Sound(s), NEW result \in BOOLEAN
  PROVE  handleLoginResult(s, result).queried_friend = s.queried_friend
<1> DEFINE q == [s EXCEPT !.waiting = FALSE, !.username = NoName]
           p == [[q EXCEPT !.screen = "main"] EXCEPT !.logged_in_user = s.username]
<1>1. /\ q.queried_friend = s.queried_friend /\ p.queried_friend = s.queried_friend
      /\ \A bs : [p EXCEPT !.boxes = bs].queried_friend = p.queried_friend
  BY DEF Sound, Programs
<1>2. handleLoginResult(s, result) = IF result THEN processFriendList(p, queryFriends(p)) ELSE q
  BY DEF handleLoginResult, onLogin
<1> HIDE DEF p, q
<1>3. \E bs : processFriendList(p, queryFriends(p)) = [p EXCEPT !.boxes = bs]
  BY DEF processFriendList
<1> QED
  BY <1>1, <1>2, <1>3

\* What a step leaves alone is left as it was, at one client or at all.
LEMMA OnePage ==
  ASSUME Typed, PageInv, NEW c \in Client, NEW t, Becomes(c, t), PageOf(t)
  PROVE  PageInv'
<1>1. serpent' = [d \in Client |-> IF d = c THEN t ELSE serpent[d]]
  BY DEF Typed, Becomes
<1> QED
  BY <1>1 DEF PageInv

\* The server has no page.
LEMMA ServePage ==
  ASSUME NEW c \in Client, Serve(c)
  PROVE  serpent' = serpent
  BY DEF Serve, CreateAccount, InsertUser, Register, LoginRequest, FriendRequestSend,
         Accept, Reject, Hide, ForwardMessage, Respond, Disconnected, Handles, clientVars

\* Coming and going: the program starts without a page, and an error leaves it.
LEMMA ComingPage ==
  ASSUME Typed, PageInv, NEW c \in Client,
         \/ Start(c) \/ Quietly(Connected(c)) \/ Refuse(c) \/ Break(c)
         \/ Quietly(CloseWindow(c))
  PROVE  PageInv'
<1> DEFINE s == serpent[c]
<1>1. Sound(s) /\ PageOf(s)
  BY DEF Typed, PageInv
<1>2. CASE Start(c)
  <2> DEFINE t == [s EXCEPT !.screen = "login"]
  <2>1. Becomes(c, t) /\ s.screen = "off"
    BY <1>2 DEF Start, Comes, Launch
  <2>2. t.queried_friend = NoName
    BY <1>1, <2>1 DEF PageOf, Sound, Programs
  <2> HIDE DEF t
  <2>3. PageOf(t)
    BY <2>2, PageOfNobody
  <2> QED
    BY <2>1, <2>3, OnePage
<1>3. CASE Quietly(Connected(c))
  BY <1>3 DEF Quietly, Connected, PageInv
<1>4. CASE Refuse(c) \/ Break(c)
  <2> DEFINE t == showError(s)
  <2>1. Becomes(c, t)
    BY <1>4 DEF Refuse, Break, Comes, ConnectionRefused, ErrorOccurred
  <2>2. /\ SamePage(s, t) /\ t.screen = "error" /\ t.friends = s.friends
        /\ t.messages = s.messages /\ t.logged_in_user = s.logged_in_user
        /\ t.page = s.page /\ t.boxes = s.boxes /\ t.books = s.books /\ t.current = s.current
        /\ t \in Programs(s.page)
    BY <1>1 DEF showError, Sound, Programs, SamePage
  <2> HIDE DEF t
  <2>3. Sound(t) /\ Keeps(s, t)
    BY <1>1, <2>2, ResemblingSound DEF Resembles
  <2>4. PageOf(t)
    BY <1>1, <2>2, <2>3, PageKept DEF SamePage
  <2> QED
    BY <2>1, <2>4, OnePage
<1>5. CASE Quietly(CloseWindow(c))
  <2> DEFINE t == Off(s)
  <2>1. Becomes(c, t)
    BY <1>5 DEF Quietly, CloseWindow
  <2>2. t.queried_friend = NoName
    BY DEF Off
  <2> HIDE DEF t
  <2>3. PageOf(t)
    BY <2>2, PageOfNobody
  <2> QED
    BY <2>1, <2>3, OnePage
<1> QED
  BY <1>2, <1>3, <1>4, <1>5

\* The form has nothing to do with the page.
LEMMA FormPage ==
  ASSUME Typed, PageInv, NEW c \in Client,
         \/ \E u \in User : Quietly(login(c, u)) \/ Edit(c, u)
         \/ Quietly(swapLoginPurpose(c))
  PROVE  PageInv'
<1> DEFINE s == serpent[c]
<1>1. Sound(s) /\ PageOf(s)
  BY DEF Typed, PageInv
<1>2. \E n \in Handle, w \in BOOLEAN, b \in BOOLEAN :
        Becomes(c, [s EXCEPT !.username = n, !.waiting = w, !.creating_account = b])
  <2>1. s.username \in Handle /\ s.waiting \in BOOLEAN /\ s.creating_account \in BOOLEAN
    BY <1>1, SoundFields
  <2>2. ASSUME NEW u \in User, Quietly(login(c, u))
        PROVE  \E n \in Handle, w \in BOOLEAN, b \in BOOLEAN :
                 Becomes(c, [s EXCEPT !.username = n, !.waiting = w, !.creating_account = b])
    <3>1. Becomes(c, [s EXCEPT !.username = u, !.waiting = TRUE])
      BY <2>2 DEF Quietly, login
    <3>2. [s EXCEPT !.username = u, !.waiting = TRUE] =
            [s EXCEPT !.username = u, !.waiting = TRUE, !.creating_account = s.creating_account]
      BY <1>1 DEF Sound, Programs
    <3> QED
      BY <2>1, <3>1, <3>2 DEF Handle
  <2>3. ASSUME NEW u \in User, Edit(c, u)
        PROVE  \E n \in Handle, w \in BOOLEAN, b \in BOOLEAN :
                 Becomes(c, [s EXCEPT !.username = n, !.waiting = w, !.creating_account = b])
    <3>1. Becomes(c, [s EXCEPT !.username = u])
      BY <2>3 DEF Edit, EditUsername
    <3>2. [s EXCEPT !.username = u] = [s EXCEPT !.username = u, !.waiting = s.waiting,
                                                !.creating_account = s.creating_account]
      BY <1>1 DEF Sound, Programs
    <3> QED
      BY <2>1, <3>1, <3>2 DEF Handle
  <2>4. CASE Quietly(swapLoginPurpose(c))
    <3>1. Becomes(c, [s EXCEPT !.creating_account = ~s.creating_account])
      BY <2>4 DEF Quietly, swapLoginPurpose
    <3>2. [s EXCEPT !.creating_account = ~s.creating_account] =
            [s EXCEPT !.username = s.username, !.waiting = s.waiting,
                      !.creating_account = ~s.creating_account]
      BY <1>1 DEF Sound, Programs
    <3> QED
      BY <2>1, <3>1, <3>2
  <2> QED
    BY <2>2, <2>3, <2>4
<1>3. PICK n \in Handle, w \in BOOLEAN, b \in BOOLEAN :
        Becomes(c, [s EXCEPT !.username = n, !.waiting = w, !.creating_account = b])
  BY <1>2
<1> DEFINE t == [s EXCEPT !.username = n, !.waiting = w, !.creating_account = b]
<1>4. /\ SamePage(s, t) /\ t.screen = s.screen /\ t.friends = s.friends
      /\ t.messages = s.messages /\ t.logged_in_user = s.logged_in_user
      /\ t.page = s.page /\ t.boxes = s.boxes /\ t.books = s.books /\ t.current = s.current
      /\ t \in Programs(s.page)
  BY <1>1 DEF Sound, Programs, SamePage
<1> HIDE DEF t
<1>5. Sound(t) /\ Keeps(s, t)
  BY <1>1, <1>4, ResemblingSound DEF Resembles
<1>6. PageOf(t)
  BY <1>1, <1>4, <1>5, PageKept DEF SamePage
<1> QED
  BY <1>3, <1>6, OnePage DEF t

\* A request is written, or answered.
LEMMA RequestPage ==
  ASSUME Typed, PageInv, NEW c \in Client, NEW u \in User, Ask(c, u) \/ Decide(c, u)
  PROVE  PageInv'
<1> DEFINE s == serpent[c]
<1>1. Sound(s) /\ PageOf(s)
  BY DEF Typed, PageInv
<1>2. CASE Ask(c, u)
  BY <1>2 DEF Ask, Acts, createFriendRequest, PageInv
<1>3. CASE Decide(c, u)
  <2> DEFINE f == insertFriend(s, u)
  <2>1. Becomes(c, removeRequest(f, u)) \/ Becomes(c, removeRequest(s, u))
    BY <1>3 DEF Decide, Acts, Answer
  <2>2. Sound(f) /\ PageOf(f)
    BY <1>1, InsertFriendSilent, SlotsSamePage, SilentPage DEF Silent
  <2> HIDE DEF f
  <2>3. PageOf(removeRequest(f, u)) /\ PageOf(removeRequest(s, u))
    BY <1>1, <2>2, RequestsSilent, SlotsSamePage, SilentPage
  <2> QED
    BY <2>1, <2>3, OnePage
<1> QED
  BY <1>2, <1>3

\* What the user chooses, sends and dismisses.
LEMMA UsePage ==
  ASSUME Typed, LoginInv, PageInv, NEW c \in Client,
         \/ Write(c)
         \/ \E n \in User : Quietly(SelectFriend(c, n))
         \/ \E b \in BookName : Quietly(SelectCodebook(c, b))
         \/ \E b \in BookName, k \in Keyword : MakeCodebook(c, b, k)
         \/ Quietly(DismissMessageBox(c))
  PROVE  PageInv'
<1> DEFINE s == serpent[c]
<1>1. Sound(s) /\ PageOf(s)
  BY DEF Typed, PageInv
<1>2. CASE Write(c)
  <2> DEFINE n == s.queried_friend
             m == Len(posted) + 1
  <2>1. n \in User /\ Becomes(c, insertMessage(s, m, TRUE, n))
    <3>1. n \in User
      BY <1>2, WriteIs
    <3> QED
      BY <1>2, <3>1 DEF Write, Acts, SendButton
  <2>2. m \in Nat
    BY LenProperties DEF Typed
  <2> HIDE DEF m
  <2>3. PageOf(insertMessage(s, m, TRUE, n))
    BY <1>1, <2>1, <2>2, InsertMessagePage
  <2> QED
    BY <2>1, <2>3, OnePage
<1>3. ASSUME NEW n \in User, Quietly(SelectFriend(c, n)) PROVE PageInv'
  <2>1. s.screen = "main" /\ Becomes(c, queryFriendMessages(s, n))
    BY <1>3 DEF Quietly, SelectFriend, At
  <2>2. PageOf(queryFriendMessages(s, n))
    BY <1>1, <2>1, QueryPage
  <2> QED
    BY <2>1, <2>2, OnePage
<1>4. ASSUME NEW b \in BookName, NEW k \in Keyword,
             Quietly(SelectCodebook(c, b)) \/ MakeCodebook(c, b, k)
      PROVE  PageInv'
  <2>1. /\ SamePage(s, [s EXCEPT !.current = b]) /\ SamePage(s, s)
        /\ \A bs : SamePage(s, [s EXCEPT !.books = bs, !.current = b])
    BY <1>1 DEF Sound, Programs, SamePage
  <2>2. CASE Quietly(SelectCodebook(c, b))
    <3>1. s.books[b] # NoBook /\ Becomes(c, [s EXCEPT !.current = b])
      BY <2>2 DEF Quietly, SelectCodebook
    <3>2. PageOf([s EXCEPT !.current = b])
      BY <1>1, <2>1, <3>1, BooksSilent, SilentPage
    <3> QED
      BY <3>1, <3>2, OnePage
  <2>3. CASE MakeCodebook(c, b, k)
    <3> DEFINE t == addNewCodebook(s, b, k)
    <3>1. Becomes(c, t)
      BY <2>3 DEF MakeCodebook, Acts, CreateCodebook
    <3>2. t \in {s, [s EXCEPT !.books = [s.books EXCEPT ![b] = k], !.current = b]}
      BY DEF addNewCodebook
    <3>3. Silent(s, t) /\ SamePage(s, t)
      BY <1>1, <2>1, <3>2, BooksSilent
    <3> HIDE DEF t
    <3>4. PageOf(t)
      BY <1>1, <3>3, SilentPage
    <3> QED
      BY <3>1, <3>4, OnePage
  <2> QED
    BY <1>4, <2>2, <2>3
<1>5. CASE Quietly(DismissMessageBox(c))
  <2> DEFINE t == [s EXCEPT !.modal = FALSE]
  <2>1. Becomes(c, t)
    BY <1>5 DEF Quietly, DismissMessageBox
  <2>2. SamePage(s, t)
    BY <1>1 DEF Sound, Programs, SamePage
  <2>3. PageOf(t)
    BY <1>1, <2>2, ModalSilent, SilentPage
  <2> QED
    BY <2>1, <2>3, OnePage
<1>6. ASSUME NEW b \in BookName, Quietly(SelectCodebook(c, b)) PROVE PageInv'
  BY <1>4, <1>6, BookAssumption
<1> QED
  BY <1>2, <1>3, <1>4, <1>5, <1>6

\* A packet is read.
LEMMA ReadPage ==
  ASSUME Typed, LoginInv, PageInv, NEW c \in Client, Quietly(ReadyRead(c))
  PROVE  PageInv'
<1> DEFINE s == serpent[c]
           p == Head(down[c])
<1>1. /\ Sound(s) /\ PageOf(s) /\ LoginAt(c)
      /\ link[c] = "open" /\ down[c] # <<>> /\ down[c] \in Seq(Down)
      /\ Becomes(c, handlePacket(s, p))
  BY DEF Typed, PageInv, LoginInv, Quietly, ReadyRead
<1>2. p \in Down /\ p = down[c][1] /\ 1 \in DOMAIN down[c]
  BY <1>1, TailIs
<1> HIDE DEF p
<1>3. CASE p.type \notin Results
  <2>1. p \in Plain
    BY <1>2, <1>3 DEF Down
  <2>2. PageOf(handlePacket(s, p))
    BY <1>1, <2>1, HandlePacketPage
  <2> QED
    BY <1>1, <2>2, OnePage
<1>4. CASE p.type \in Results
  <2> DEFINE t == handleLoginResult(s, p.type = "RESULT_YES")
  <2>1. s.screen = "login"
    BY <1>1, <1>2, <1>4 DEF LoginAt, Before, After, NoResult
  <2>2. t.queried_friend = NoName
    BY <1>1, <2>1, LoginResultPage DEF PageOf
  <2>3. handlePacket(s, p) = t
    BY <1>4 DEF handlePacket, Results
  <2> HIDE DEF t
  <2>4. PageOf(t)
    BY <2>2, PageOfNobody
  <2> QED
    BY <1>1, <2>3, <2>4, OnePage
<1> QED
  BY <1>3, <1>4

\* Every page stays a conversation.
LEMMA NextPage ==
  ASSUME Typed, LoginInv, PageInv, [Next]_vars
  PROVE  PageInv'
<1>1. ASSUME UNCHANGED vars PROVE PageInv'
  BY <1>1 DEF vars, clientVars, PageInv
<1>2. ASSUME NEW c \in Client, Serve(c) PROVE PageInv'
  BY <1>2, ServePage DEF PageInv
<1>3. ASSUME NEW c \in Client,
             \/ Start(c) \/ Quietly(Connected(c)) \/ Refuse(c) \/ Break(c)
             \/ Quietly(CloseWindow(c))
      PROVE  PageInv'
  BY <1>3, ComingPage
<1>4. ASSUME NEW c \in Client,
             \/ \E u \in User : Quietly(login(c, u)) \/ Edit(c, u)
             \/ Quietly(swapLoginPurpose(c))
      PROVE  PageInv'
  BY <1>4, FormPage
<1>5. ASSUME NEW c \in Client, NEW u \in User, Ask(c, u) \/ Decide(c, u) PROVE PageInv'
  BY <1>5, RequestPage
<1>6. ASSUME NEW c \in Client,
             \/ Write(c)
             \/ \E n \in User : Quietly(SelectFriend(c, n))
             \/ \E b \in BookName : Quietly(SelectCodebook(c, b))
             \/ \E b \in BookName, k \in Keyword : MakeCodebook(c, b, k)
             \/ Quietly(DismissMessageBox(c))
      PROVE  PageInv'
  BY <1>6, UsePage
<1>7. ASSUME NEW c \in Client, Quietly(ReadyRead(c)) PROVE PageInv'
  BY <1>7, ReadPage
<1> QED
  BY <1>1, <1>2, <1>3, <1>4, <1>5, <1>6, <1>7, StepsAre

\* The page shows the conversation with the friend chosen last, whatever came,
\* went, was chosen and was added in whatever order: every message between user
\* and friend that is stored, in order, and nothing else, up to a page.
THEOREM PageIsTheConversation == Spec => []PageIsConversation
<1>1. Init => Typed /\ LoginInv
  BY InitTyped
<1>2. Init => PageInv
  <2> SUFFICES ASSUME Init, NEW c \in Client PROVE PageOf(serpent[c])
    BY DEF PageInv
  <2>1. serpent[c].queried_friend = NoName
    BY DEF Init, Off
  <2> QED
    BY <2>1, PageOfNobody
<1>3. Typed /\ LoginInv /\ [Next]_vars => Typed' /\ LoginInv'
  BY NextTyped
<1>4. Typed /\ LoginInv /\ PageInv /\ [Next]_vars => PageInv'
  BY NextPage
<1>5. PageInv => PageIsConversation
  BY DEF PageInv, PageOf, PageIsConversation, OfRows
<1> QED
  BY <1>1, <1>2, <1>3, <1>4, <1>5, PTL DEF Spec
=============================================================================
