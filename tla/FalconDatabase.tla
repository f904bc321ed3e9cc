--------------------------- MODULE FalconDatabase ---------------------------
(***************************************************************************)
(* The three SQLite tables of millennium_falcon (SCRAPE.db) and the        *)
(* statements MillenniumServerDatabaseManager runs on them                 *)
(* (src/server/database.cpp).                                              *)
(*                                                                         *)
(* No table has a key or a UNIQUE constraint, so a table is a bag of rows. *)
(* users keeps the rows of one name in insertion order, because            *)
(* getPassHashFromUsername reads the first one; friends and requests are   *)
(* functions to the number of equal rows.  A SELECT of names has no ORDER  *)
(* BY: its result is a bag of names, which the server walks in any order.  *)
(*                                                                         *)
(* One sqlite3_step is one atomic statement (one connection, serialized    *)
(* threading mode).  There is no transaction: what takes two statements in *)
(* the code is two actions here.                                           *)
(***************************************************************************)
EXTENDS Naturals, Sequences

CONSTANTS
  User,        \* the user names in play, with or without an account
  Password,    \* the passwords (stored unhashed in pass_hash)
  EmptyPassword \* the empty string, which the GUI accepts for a password

VARIABLES
  users,       \* users[u]: the pass_hash column of the rows named u
  friends,     \* friends[l][r]: how many rows (left = l, right = r)
  requests     \* requests[s][r]: rows from sender s to recipient r

dbVars == <<users, friends, requests>>

Names == [User -> Nat]           \* the result of a SELECT of names
Nobody == [u \in User |-> 0]

DbTypeOK ==
  /\ users \in [User -> Seq(Password)]
  /\ friends \in [User -> Names]
  /\ requests \in [User -> [User -> [shown : Nat, hidden : Nat]]]

-----------------------------------------------------------------------------
(* Queries *)

checkIfUsernameExists(u) == Len(users[u])

\* ... and EmptyPassword if the statement fails.
getPassHashFromUsername(u) == Head(users[u])

getFriendList(u) == friends[u]

getIncomingFriendRequests(u) == [s \in User |-> requests[s][u].shown]

getOutgoingFriendRequests(u) ==
  [r \in User |-> requests[u][r].shown + requests[u][r].hidden]

-----------------------------------------------------------------------------
(* Updates: each is one statement on one table *)

insertNewUser(u, p) ==
  /\ users' = [users EXCEPT ![u] = Append(@, p)]
  /\ UNCHANGED <<friends, requests>>

insertFriendRequest(sender, recipient) ==
  /\ requests' = [requests EXCEPT ![sender][recipient].shown = @ + 1]
  /\ UNCHANGED <<users, friends>>

\* The UPDATE hides every row of the pair.
hideFriendRequest(sender, recipient) ==
  /\ requests' = [requests EXCEPT ![sender][recipient] =
                    [shown |-> 0, hidden |-> @.shown + @.hidden]]
  /\ UNCHANGED <<users, friends>>

\* The DELETE removes every row of the pair.
removeFriendRequest(sender, recipient) ==
  /\ requests' = [requests EXCEPT ![sender][recipient] =
                    [shown |-> 0, hidden |-> 0]]
  /\ UNCHANGED <<users, friends>>

\* One of the two INSERTs of insertFriend.
insertFriendRow(left, right) ==
  /\ friends' = [friends EXCEPT ![left][right] = @ + 1]
  /\ UNCHANGED <<users, requests>>
=============================================================================
