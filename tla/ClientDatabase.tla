--------------------------- MODULE ClientDatabase ---------------------------
(***************************************************************************)
(* PIT.db, where millennium_serpent keeps the friends and messages of the  *)
(* users of one machine, and the members of ClientDatabaseManager          *)
(* (src/app/database.cpp).                                                 *)
(*                                                                         *)
(* A database is a record of the two tables, as sequences of rows, and the *)
(* two members.  Ids are AUTOINCREMENT and no row is ever deleted: the id  *)
(* of a row is its place.  The signals its slots emit are Serpent's.       *)
(***************************************************************************)
EXTENDS Naturals, Sequences, SequencesExt

CONSTANTS
  Names,      \* the user names, in the order of ORDER BY friend_name
  NoName,     \* "", the user before a login and the friend before a query
  PageSize    \* what queryFriendMessages passes for count (10)

User == ToSet(Names)

ASSUME NamesAssumption ==
  Names \in Seq(User) /\ IsInjective(Names) /\ NoName \notin User
ASSUME PageAssumption == PageSize \in Nat \ {0}

EmptyTables == [friends |-> <<>>, messages |-> <<>>]

FriendRows == [friend_name : User, user : User \cup {NoName}]
Tables == [friends : Seq(FriendRows),
           messages : Seq([friend_id : Nat \ {0}, message : Nat, original : BOOLEAN])]

\* The ids of the rows of friend n; the code reads the first.
FriendIds(d, n) ==
  {i \in DOMAIN d.friends : d.friends[i] = [friend_name |-> n, user |-> d.logged_in_user]}

hasFriend(d, n) == FriendIds(d, n) # {}

getFriendId(d, n) == Min(FriendIds(d, n))

\* What insertFriend leaves when n is no friend yet.
FriendRowInserted(d, n) ==
  [d EXCEPT !.friends = Append(@, [friend_name |-> n, user |-> d.logged_in_user])]

\* SELECT friend_name ... WHERE user = ? ORDER BY friend_name: a list without
\* repetitions in the order of Names, given by its elements.
queryFriends(d) == {n \in User : hasFriend(d, n)}

MessageRowInserted(d, n, m, original) ==
  [d EXCEPT !.messages =
     Append(@, [friend_id |-> getFriendId(d, n), message |-> m, original |-> original])]

\* The ids of the messages of friend n; and the k-th of such ids.
MessageIds(d, n) == {i \in DOMAIN d.messages : d.messages[i].friend_id = getFriendId(d, n)}
Nth(ids, k) == Min({i \in ids : Cardinality({j \in ids : j <= i}) = k})

\* The messages of friend n, oldest first.
Conversation(d, n) ==
  [k \in 1..Cardinality(MessageIds(d, n)) |-> d.messages[Nth(MessageIds(d, n), k)]]

\* ... ORDER BY id ASC LIMIT ?, with count = PageSize and before = 0.
queryMessages(d, n) ==
  LET c == Conversation(d, n) IN SubSeq(c, 1, Min({PageSize, Len(c)}))
=============================================================================
